-------------------------- MODULE EscalationProofs --------------------------
(***************************************************************************)
(* Safety of Escalation for every set of monitors, alerts and goroutines,  *)
(* every policy and every bound; and, while triggers come from the checks  *)
(* and nothing crashes, no step of a policy is skipped (NoStepSkipped).    *)
(***************************************************************************)
EXTENDS EscalationInv, TLAPS

USE AlertsAssumption, PolicyAssumption, EscalationAssumption

LEMMA IdleActor == Idle \in Actor /\ NoRow \in AlertRow
  <1>1. AnyMonitor \in Monitors
    BY DEF AnyMonitor
  <1> QED
    BY <1>1 DEF Idle, Actor, PCs, NoRow, AlertRow, Statuses, NoEscalation,
                EscalationRow, Steps

LEMMA InitSafe == Init => IInv
  <1> SUFFICES ASSUME Init PROVE IInv
    OBVIOUS
  <1>1. TypeOK
    BY IdleActor DEF Init, TypeOK, NoEscalation, EscalationRow, Steps
  <1>2. OneActivePerMonitor
    BY DEF Init, OneActivePerMonitor, IsActive, Active, NoRow
  <1>3. EscalationBounded /\ MutedNeverPaged
    BY DEF Init, EscalationBounded, WithinPolicy, NoEscalation, MutedNeverPaged
  <1>4. \A p \in Actors : ActorSound(p)
    BY DEF Init, ActorSound, WithinPolicy, Idle, NoEscalation, EscalationPCs
  <1>5. RowsSound
    BY DEF Init, RowsSound, NoEscalation
  <1> QED
    BY <1>1, <1>2, <1>3, <1>4, <1>5 DEF IInv

---------------------------------------------------------------------------
(***************************************************************************)
(* Frames: what a step that writes one alert row, or moves one goroutine,  *)
(* leaves true.                                                            *)
(***************************************************************************)
\* Update writes a whole row, possibly a stale one, and keeps the index and
\* the existence of every row.
LEMMA UpdateKeeps ==
  ASSUME TypeOK, OneActivePerMonitor,
         NEW a \in Alerts, NEW row \in AlertRow, row.status # "none",
         alerts' = UpdateAlert(alerts, a, row)
  PROVE  /\ alerts' \in [Alerts -> AlertRow]
         /\ OneActivePerMonitor'
         /\ \A b \in Alerts : Exists(alerts, b) => Exists(alerts', b)
  BY DEF TypeOK, OneActivePerMonitor, UpdateAlert, UpdateOK, Exists, IndexAllows,
         IsActive, Active, AlertRow

\* A goroutine that moves to a sound local state leaves all of them sound.
LEMMA MoveKeeps ==
  ASSUME TypeOK, \A q \in Actors : ActorSound(q),
         NEW p \in Actors, NEW X \in Actor,
         actor' = [actor EXCEPT ![p] = X],
         \A b \in Alerts : Exists(alerts, b) => Exists(alerts', b),
         bornMuted' = bornMuted,
         ActorSound(p)'
  PROVE  actor' \in [Actors -> Actor] /\ \A q \in Actors : ActorSound(q)'
  <1>1. actor' \in [Actors -> Actor]
    BY DEF TypeOK
  <1>2. ASSUME NEW q \in Actors, q # p PROVE ActorSound(q)'
    <2>1. actor'[q] = actor[q]
      BY <1>2 DEF TypeOK
    <2>2. actor[q].pc \in EscalationPCs => actor[q].alert \in Alerts
      BY DEF ActorSound, EscalationPCs
    <2> QED
      BY <2>1, <2>2, <1>2 DEF ActorSound, WithinPolicy
  <1> QED
    BY <1>1, <1>2

\* The tables, the listing and the histories of a step that leaves the alert
\* rows alone or updates one of them.
LEMMA RowsKept ==
  ASSUME RowsSound, TypeOK, UNCHANGED <<bornMuted, esc, todo, paged>>,
         \A b \in Alerts : Exists(alerts, b) => Exists(alerts', b)
  PROVE  RowsSound'
  BY DEF RowsSound, TypeOK

---------------------------------------------------------------------------
(***************************************************************************)
(* One lemma per action.                                                   *)
(***************************************************************************)
\* A step that publishes, or changes a flag or a bound, touches neither the
\* tables nor the goroutines.
LEMMA OutsideSafe ==
  ASSUME IInv, UNCHANGED <<alerts, esc, actor, todo, paged, silenced, bornMuted>>, TypeOK'
  PROVE  IInv'
  BY DEF IInv, OneActivePerMonitor, EscalationBounded, WithinPolicy, MutedNeverPaged,
         ActorSound, RowsSound, Exists

LEMMA PublishTyped ==
  ASSUME TypeOK, NEW msg \in Message, Publish(msg),
         health' \in [Monitors -> {"up", "down"}]
  PROVE  TypeOK' /\ UNCHANGED <<alerts, esc, actor, todo, paged, silenced, bornMuted>>
  BY DEF TypeOK, Publish, tables, history

LEMMA EnvironmentSafe ==
  ASSUME IInv, Environment PROVE IInv'
  <1> USE DEF IInv
  <1>1. CASE \E m \in Monitors : CheckFails(m) \/ CheckRecovers(m) \/ PostTrigger(m)
    <2>1. PICK m \in Monitors : CheckFails(m) \/ CheckRecovers(m) \/ PostTrigger(m)
      BY <1>1
    <2>2. \A b \in BOOLEAN : TriggerMsg(m, b) \in Message /\ RecoverMsg(m, b) \in Message
      BY DEF TriggerMsg, RecoverMsg, Message
    <2>3. health' \in [Monitors -> {"up", "down"}]
      BY <2>1 DEF CheckFails, CheckRecovers, PostTrigger, TypeOK
    <2> QED
      BY <2>1, <2>2, <2>3, PublishTyped, OutsideSafe DEF CheckFails, CheckRecovers, PostTrigger
  <1>2. CASE \E a \in Alerts : PressAck(a) \/ PressResolve(a)
    <2>1. PICK a \in Alerts : PressAck(a) \/ PressResolve(a)
      BY <1>2
    <2>2. AckMsg(a) \in Message /\ RecoverMsg(alerts[a].monitor, TRUE) \in Message
      BY DEF AckMsg, RecoverMsg, Message, TypeOK, AlertRow
    <2>3. health' \in [Monitors -> {"up", "down"}]
      BY <2>1 DEF PressAck, PressResolve, TypeOK
    <2> QED
      BY <2>1, <2>2, <2>3, PublishTyped, OutsideSafe DEF PressAck, PressResolve
  <1>3. CASE \E m \in Monitors : ToggleMute(m) \/ ToggleWindow(m)
    <2>1. TypeOK' /\ UNCHANGED <<alerts, esc, actor, todo, paged, silenced, bornMuted>>
      BY <1>3 DEF ToggleMute, ToggleWindow, Toggle, Flip, TypeOK, tables, history
    <2> QED
      BY <2>1, OutsideSafe
  <1>4. CASE \E a \in Alerts : WaitElapses(a)
    <2>1. PICK a \in Alerts : WaitElapses(a)
      BY <1>4
    <2>2. TypeOK'
      BY <2>1 DEF WaitElapses, TypeOK, EscalationRow, env, history
    <2>3. \A b \in Alerts : esc'[b].step = esc[b].step /\ WithinPolicy(esc'[b])
      BY <2>1 DEF WaitElapses, TypeOK, EscalationRow, EscalationBounded, WithinPolicy
    <2> QED
      BY <2>1, <2>2, <2>3 DEF WaitElapses, env, history, OneActivePerMonitor,
         EscalationBounded, WithinPolicy, MutedNeverPaged, ActorSound, RowsSound, Exists
  <1>5. CASE Crash
    <2>1. TypeOK'
      BY <1>5, IdleActor DEF Crash, TypeOK, tables, history
    <2>2. \A p \in Actors : ActorSound(p)'
      BY <1>5 DEF Crash, ActorSound, WithinPolicy, Idle, NoEscalation, EscalationPCs
    <2> QED
      BY <1>5, <2>1, <2>2 DEF Crash, tables, history, OneActivePerMonitor,
         EscalationBounded, WithinPolicy, MutedNeverPaged, RowsSound, Exists
  <1> QED
    BY <1>1, <1>2, <1>3, <1>4, <1>5 DEF Environment

\* A step in which one goroutine moves and the tables stay as they are: it
\* reads rows, takes a message or a listed row, or starts a request.
LEMMA ReadSafe ==
  ASSUME IInv, NEW p \in Actors, NEW X \in Actor,
         actor' = [actor EXCEPT ![p] = X],
         UNCHANGED <<alerts, esc, muted, silent, health, published, toggles, crashes,
                     paged, bornMuted>>,
         silenced' \subseteq Alerts \X Steps,
         inbox' \in [Message -> Nat], todo' \subseteq todo, requests' \in Nat,
         ActorSound(p)'
  PROVE  IInv'
  <1>1. actor' \in [Actors -> Actor] /\ \A q \in Actors : ActorSound(q)'
    BY MoveKeeps DEF IInv, Exists
  <1>2. TypeOK'
    BY <1>1 DEF IInv, TypeOK
  <1> QED
    BY <1>1, <1>2 DEF IInv, OneActivePerMonitor, EscalationBounded, WithinPolicy,
       MutedNeverPaged, RowsSound, Exists

\* The same for a step that also updates the row of its alert.
LEMMA UpdateSafe ==
  ASSUME IInv, NEW p \in Actors, NEW X \in Actor, NEW a \in Alerts,
         NEW row \in AlertRow, row.status # "none",
         actor' = [actor EXCEPT ![p] = X],
         alerts' = UpdateAlert(alerts, a, row),
         UNCHANGED <<esc, muted, silent, health, published, toggles, crashes,
                     paged, silenced, bornMuted, inbox, todo>>,
         requests' \in Nat,
         (\A b \in Alerts : Exists(alerts, b) => Exists(alerts', b)) => ActorSound(p)'
  PROVE  IInv'
  <1>1. /\ alerts' \in [Alerts -> AlertRow]
        /\ OneActivePerMonitor'
        /\ \A b \in Alerts : Exists(alerts, b) => Exists(alerts', b)
    BY UpdateKeeps DEF IInv
  <1>2. actor' \in [Actors -> Actor] /\ \A q \in Actors : ActorSound(q)'
    BY <1>1, MoveKeeps DEF IInv
  <1>3. TypeOK'
    BY <1>1, <1>2 DEF IInv, TypeOK
  <1> QED
    BY <1>1, <1>2, <1>3, RowsKept DEF IInv, EscalationBounded, WithinPolicy, MutedNeverPaged

\* The same for a step that writes the escalation state of an alert known to
\* exist and not to be born muted, and may publish its notifications.
LEMMA UpsertSafe ==
  ASSUME IInv, NEW p \in Actors, NEW X \in Actor, NEW a \in Alerts,
         NEW st \in EscalationRow, WithinPolicy(st),
         st.step # 0 => Exists(alerts, a) /\ a \notin bornMuted,
         actor' = [actor EXCEPT ![p] = X],
         esc' = UpsertEscalationState(esc, a, st),
         \/ paged' = paged
         \/ st.step # 0 /\ paged' = paged \cup {<<a, st.step>>},
         UNCHANGED <<alerts, muted, silent, health, published, toggles, crashes,
                     silenced, bornMuted, inbox, todo, requests>>,
         ActorSound(p)'
  PROVE  IInv'
  <1>1. actor' \in [Actors -> Actor] /\ \A q \in Actors : ActorSound(q)'
    BY MoveKeeps DEF IInv, Exists
  <1>2. esc' \in [Alerts -> EscalationRow] /\ esc'[a] = st
          /\ \A b \in Alerts \ {a} : esc'[b] = esc[b]
    BY DEF UpsertEscalationState, IInv, TypeOK
  <1>3. paged' \subseteq Alerts \X Steps
    BY DEF IInv, TypeOK, EscalationRow
  <1>4. TypeOK'
    BY <1>1, <1>2, <1>3 DEF IInv, TypeOK
  <1>5. MutedNeverPaged'
    BY DEF IInv, MutedNeverPaged
  <1>6. \A b \in Alerts, s \in Steps : <<b, s>> \in paged' => Exists(alerts, b)
    BY DEF IInv, RowsSound
  <1>7. EscalationBounded' /\ RowsSound'
    BY <1>2, <1>6 DEF IInv, EscalationBounded, WithinPolicy, RowsSound, Exists
  <1> QED
    BY <1>1, <1>4, <1>5, <1>7 DEF IInv, OneActivePerMonitor

LEMMA StatusEdit ==
  ASSUME NEW row \in AlertRow, NEW s \in Statuses
  PROVE  [row EXCEPT !.status = s] \in AlertRow /\ [row EXCEPT !.status = s].status = s
  BY DEF AlertRow

LEMMA StepEdit ==
  ASSUME NEW row \in AlertRow, NEW s \in Steps \cup {0}
  PROVE  /\ [row EXCEPT !.step = s] \in AlertRow
         /\ [row EXCEPT !.step = s].status = row.status
  BY DEF AlertRow

LEMMA ReceiveTyped ==
  ASSUME TypeOK, NEW p, NEW msg \in Message, Receive(p, msg)
  PROVE  p \in Actors /\ inbox' \in [Message -> Nat]
  BY DEF Receive, TypeOK, Actors

LEMMA MessagesTyped ==
  /\ \A m \in Monitors, b \in BOOLEAN :
       TriggerMsg(m, b) \in Message /\ RecoverMsg(m, b) \in Message
  /\ \A a \in Alerts : AckMsg(a) \in Message
  BY DEF TriggerMsg, RecoverMsg, AckMsg, Message

LEMMA IdleSound ==
  ASSUME NEW p \in Actors, actor'[p] = Idle PROVE ActorSound(p)'
  BY DEF ActorSound, Idle, NoEscalation, WithinPolicy, EscalationPCs

\* Reading an alert to write it back later.
LEMMA ReadForWriteSound ==
  ASSUME TypeOK, NEW p \in Actors, NEW a \in Alerts, NEW row \in AlertRow,
         row.status # "none", NEW pc \in {"write", "resolve"}, NEW scoped \in BOOLEAN,
         actor' = [actor EXCEPT ![p] =
           [Idle EXCEPT !.pc = pc, !.alert = a, !.row = row, !.scoped = scoped]]
  PROVE  /\ [Idle EXCEPT !.pc = pc, !.alert = a, !.row = row, !.scoped = scoped] \in Actor
         /\ ActorSound(p)'
  <1>1. [Idle EXCEPT !.pc = pc, !.alert = a, !.row = row, !.scoped = scoped] \in Actor
    BY IdleActor DEF Actor, PCs, Idle
  <1> QED
    BY <1>1 DEF TypeOK, ActorSound, Idle, NoEscalation, WithinPolicy, EscalationPCs

\* The lookup shared by handleRecover and autoResolveAlerts.
LEMMA PickActiveSound ==
  ASSUME TypeOK, NEW p \in Actors, NEW m \in Monitors, NEW scoped \in BOOLEAN,
         PickActive(p, m, scoped)
  PROVE  \E X \in Actor : actor' = [actor EXCEPT ![p] = X] /\ ActorSound(p)'
  <1>1. CASE Return(p)
    <2>1. actor'[p] = Idle
      BY <1>1 DEF Return, TypeOK
    <2> QED
      BY <1>1, <2>1, IdleActor, IdleSound DEF Return
  <1>2. CASE GetActiveByMonitor(alerts, m) # {}
    <2>1. PICK a \in Alerts :
            actor' = [actor EXCEPT ![p] =
              [Idle EXCEPT !.pc = "resolve", !.alert = a,
                           !.row = [alerts[a] EXCEPT !.status = "resolved"],
                           !.scoped = scoped]]
      BY <1>2 DEF PickActive, GetActiveByMonitor
    <2> DEFINE row == [alerts[a] EXCEPT !.status = "resolved"]
    <2>2. row \in AlertRow /\ row.status # "none"
      BY StatusEdit DEF TypeOK, Statuses
    <2> QED
      BY <2>1, <2>2, ReadForWriteSound
  <1> QED
    BY <1>1, <1>2 DEF PickActive

LEMMA DeliverSafe ==
  ASSUME IInv, NEW p \in Handlers, Deliver(p) PROVE IInv'
  <1> USE DEF IInv
  <1>a. p \in Actors
    BY DEF Actors
  <1>b. actor \in [Actors -> Actor] /\ \A a \in Alerts : alerts[a] \in AlertRow
    BY DEF TypeOK
  <1>1. ASSUME NEW m \in Monitors, NEW scoped \in BOOLEAN, TriggerLookup(p, m, scoped)
        PROVE  IInv'
    <2> DEFINE X == [Idle EXCEPT !.pc = "create",
                       !.row = [monitor |-> m, status |-> "firing", step |-> 0],
                       !.muted = m \in muted, !.scoped = scoped]
    <2>1. inbox' \in [Message -> Nat]
      BY <1>1, ReceiveTyped, MessagesTyped DEF TriggerLookup
    <2>2. CASE actor' = actor
      BY <2>1, <2>2, <1>1, OutsideSafe DEF TriggerLookup, TypeOK, tables, env, history
    <2>3. CASE actor' = [actor EXCEPT ![p] = X]
      <3>1. X \in Actor
        <4>1. \A row \in AlertRow, b \in BOOLEAN :
                [Idle EXCEPT !.pc = "create", !.row = row, !.muted = b,
                             !.scoped = scoped] \in Actor
          BY IdleActor DEF Actor, PCs, Idle
        <4>2. [monitor |-> m, status |-> "firing", step |-> 0] \in AlertRow
          BY DEF AlertRow, Statuses
        <4>3. (m \in muted) \in BOOLEAN
          OBVIOUS
        <4> QED
          BY <4>1, <4>2, <4>3, Zenon
      <3>2. ActorSound(p)'
        BY <2>3, <1>a, <1>b, <3>1 DEF ActorSound, Idle, NoEscalation, WithinPolicy, EscalationPCs
      <3> QED
        BY <2>1, <2>3, <3>1, <3>2, <1>1, <1>a, ReadSafe
           DEF TriggerLookup, TypeOK, tables, env, history
    <2> QED
      BY <1>1, <2>2, <2>3 DEF TriggerLookup
  <1>2. ASSUME NEW m \in Monitors, NEW scoped \in BOOLEAN, RecoverLookup(p, m, scoped)
        PROVE  IInv'
    <2>1. inbox' \in [Message -> Nat]
      BY <1>2, ReceiveTyped, MessagesTyped DEF RecoverLookup
    <2>2. PICK X \in Actor : actor' = [actor EXCEPT ![p] = X] /\ ActorSound(p)'
      BY <1>2, <1>a, PickActiveSound DEF RecoverLookup
    <2> QED
      BY <2>1, <2>2, <1>2, <1>a, ReadSafe DEF RecoverLookup, TypeOK, tables, env, history
  <1>3. ASSUME NEW a \in Alerts, AckLookup(p, a) PROVE IInv'
    <2> DEFINE row == [alerts[a] EXCEPT !.status = "acknowledged"]
    <2>1. inbox' \in [Message -> Nat]
      BY <1>3, ReceiveTyped, MessagesTyped DEF AckLookup
    <2>2. CASE actor' = actor
      BY <2>1, <2>2, <1>3, OutsideSafe DEF AckLookup, TypeOK, tables, env, history
    <2>3. CASE ReadForWrite(p, a, row)
      <3>1. row \in AlertRow /\ row.status # "none"
        BY <1>b, StatusEdit DEF Statuses
      <3> QED
        BY <2>1, <2>3, <3>1, <1>3, <1>a, ReadForWriteSound, ReadSafe
           DEF AckLookup, ReadForWrite, TypeOK, tables, env, history
    <2> QED
      BY <1>3, <2>2, <2>3 DEF AckLookup
  <1> QED
    BY <1>1, <1>2, <1>3 DEF Deliver

LEMMA RequestsSafe ==
  ASSUME IInv, NEW p \in Handlers, Requests(p) PROVE IInv'
  <1> USE DEF IInv
  <1>a. p \in Actors
    BY DEF Actors
  <1>b. \A a \in Alerts : alerts[a] \in AlertRow
    BY DEF TypeOK
  <1>c. PICK a \in Alerts :
          \/ ApiAck(p, a) \/ ApiResolve(p, a) \/ ReplyRemediation(p, a) \/ ReplyAck(p, a)
          \/ \E s \in Steps \cup {0} : ReplyEscalated(p, a, s)
    BY DEF Requests
  <1>d. /\ alerts[a].status # "none" /\ requests' \in Nat
        /\ UNCHANGED <<esc, muted, silent, health, published, toggles, crashes,
                       paged, silenced, bornMuted, inbox, todo>>
    <2>1. Request(p, a)
      BY <1>c DEF ApiAck, ApiResolve, ReplyRemediation, ReplyAck, ReplyEscalated
    <2> QED
      BY <2>1 DEF Request, Exists, TypeOK, env, history
  <1>1. ASSUME NEW row \in AlertRow, row.status # "none", ReadForWrite(p, a, row), alerts' = alerts
        PROVE  IInv'
    BY <1>1, <1>a, <1>d, ReadForWriteSound, ReadSafe DEF ReadForWrite, TypeOK
  <1>2. CASE ApiAck(p, a) \/ ApiResolve(p, a) \/ ReplyRemediation(p, a)
    <2>1. PICK s \in {"acknowledged", "resolved"} :
            ReadForWrite(p, a, [alerts[a] EXCEPT !.status = s]) /\ alerts' = alerts
      BY <1>2 DEF ApiAck, ApiResolve, ReplyRemediation
    <2>2. [alerts[a] EXCEPT !.status = s] \in AlertRow
            /\ [alerts[a] EXCEPT !.status = s].status # "none"
      BY <1>b, StatusEdit DEF Statuses
    <2> QED
      BY <2>1, <2>2, <1>1
  <1>3. CASE \E s \in Steps \cup {0} : ReplyEscalated(p, a, s)
    <2>1. PICK s \in Steps \cup {0} : ReplyEscalated(p, a, s)
      BY <1>3
    <2>2. alerts[a].step \in Steps \cup {0}
      BY <1>b DEF AlertRow
    <2>3. PICK t \in Steps \cup {0} :
            ReadForWrite(p, a, [alerts[a] EXCEPT !.step = t]) /\ alerts' = alerts
      BY <2>1, <2>2 DEF ReplyEscalated
    <2>4. [alerts[a] EXCEPT !.step = t] \in AlertRow
            /\ [alerts[a] EXCEPT !.step = t].status # "none"
      BY <1>b, <1>d, StepEdit
    <2> QED
      BY <2>3, <2>4, <1>1
  <1>4. CASE ReplyAck(p, a)
    <2> DEFINE row == [alerts[a] EXCEPT !.status = "acknowledged"]
    <2>1. row \in AlertRow /\ row.status # "none"
      BY <1>b, StatusEdit DEF Statuses
    <2>2. alerts' = UpdateAlert(alerts, a, row) /\ actor' = actor
      BY <1>4 DEF ReplyAck, AckWithContext
    <2>3. actor' = [actor EXCEPT ![p] = actor[p]] /\ actor[p] \in Actor
      BY <2>2, <1>a DEF TypeOK
    <2>4. ASSUME \A b \in Alerts : Exists(alerts, b) => Exists(alerts', b)
          PROVE  ActorSound(p)'
      <3>1. ActorSound(p)
        BY <1>a
      <3> QED
        BY <2>2, <2>4, <3>1, <1>d DEF ActorSound, WithinPolicy, EscalationPCs
    <2> HIDE DEF row
    <2> QED
      BY <2>1, <2>2, <2>3, <2>4, <1>a, <1>d, UpdateSafe
  <1> QED
    BY <1>c, <1>2, <1>3, <1>4

\* An actor that has finished.
LEMMA ReturnMoves ==
  ASSUME TypeOK, NEW p \in Actors, Return(p)
  PROVE  actor' = [actor EXCEPT ![p] = Idle] /\ Idle \in Actor /\ ActorSound(p)'
  <1>1. actor'[p] = Idle
    BY DEF Return, TypeOK
  <1> QED
    BY <1>1, IdleActor, IdleSound DEF Return

\* An actor that only moves its program counter.
LEMMA GotoMoves ==
  ASSUME TypeOK, NEW p \in Actors, NEW pc \in PCs, Goto(p, pc)
  PROVE  /\ actor' = [actor EXCEPT ![p] = [actor[p] EXCEPT !.pc = pc]]
         /\ [actor[p] EXCEPT !.pc = pc] \in Actor
         /\ actor'[p] = [actor[p] EXCEPT !.pc = pc]
  <1>1. actor[p] \in Actor
    BY DEF TypeOK
  <1>2. [actor[p] EXCEPT !.pc = pc] \in Actor
    BY <1>1 DEF Actor
  <1> QED
    BY <1>2 DEF Goto, TypeOK

LEMMA FirstEntrySound ==
  FirstEntry \in EscalationRow /\ WithinPolicy(FirstEntry) /\ FirstEntry.step # 0
  <1>1. 1 \in Steps /\ RepeatCount[1] \in Nat
    BY DEF Steps
  <1>2. FirstEntry \in EscalationRow
    BY <1>1 DEF FirstEntry, Entry, EscalationRow
  <1> QED
    BY <1>1, <1>2 DEF FirstEntry, Entry, WithinPolicy

LEMMA TriggerSafe ==
  ASSUME IInv, NEW p \in Handlers, TriggerStep(p) PROVE IInv'
  <1> USE DEF IInv
  <1>a. p \in Actors /\ actor[p] \in Actor /\ ActorSound(p)
    BY DEF Actors, TypeOK
  <1>b. actor[p].row \in AlertRow
    BY <1>a DEF Actor
  <1>1. ASSUME NEW a \in Alerts, TriggerCreate(p, a) PROVE IInv'
    <2>1. CASE ~IndexAllows(alerts, a, actor[p].row)
      <3>1. Return(p) /\ UNCHANGED <<alerts, bornMuted, esc, muted, silent, health, published,
                toggles, crashes, inbox, todo, paged, silenced, requests>>
        BY <1>1, <2>1 DEF TriggerCreate, env
      <3> QED
        BY <3>1, <1>a, ReturnMoves, ReadSafe DEF TypeOK
    <2>2. CASE IndexAllows(alerts, a, actor[p].row)
      <3> DEFINE X == IF StartsEscalation(p)
                      THEN [actor[p] EXCEPT !.pc = "attach", !.alert = a]
                      ELSE Idle
      <3>1. /\ alerts' = [alerts EXCEPT ![a] = actor[p].row]
            /\ bornMuted' = IF actor[p].muted THEN bornMuted \cup {a} ELSE bornMuted
            /\ actor[p].pc = "create" /\ ~Exists(alerts, a)
            /\ UNCHANGED <<esc, muted, silent, health, published, toggles, crashes,
                           inbox, todo, paged, silenced, requests>>
        BY <1>1, <2>2 DEF TriggerCreate, env
      <3>2. actor' = [actor EXCEPT ![p] = X]
        BY <1>1, <2>2, <1>a DEF TriggerCreate, Return, TypeOK
      <3>3. X \in Actor
        BY <1>a, IdleActor DEF Actor, PCs
      <3>4. actor[p].row.status # "none"
        BY <3>1, <1>a DEF ActorSound
      <3>5. alerts' \in [Alerts -> AlertRow] /\ alerts'[a] = actor[p].row
              /\ \A b \in Alerts \ {a} : alerts'[b] = alerts[b]
        BY <3>1, <1>b DEF TypeOK
      <3>6. \A b \in Alerts : Exists(alerts, b) => b # a /\ Exists(alerts', b)
        BY <3>1, <3>5 DEF Exists
      <3>7. Exists(alerts', a) /\ a \notin bornMuted /\ esc[a].step = 0
        BY <3>1, <3>4, <3>5 DEF Exists, RowsSound
      <3>8. bornMuted' \subseteq bornMuted \cup {a} /\ bornMuted \subseteq bornMuted'
        BY <3>1
      <3>9. actor' \in [Actors -> Actor] /\ actor'[p] = X
              /\ \A q \in Actors \ {p} : actor'[q] = actor[q]
        BY <3>2, <3>3, <1>a DEF TypeOK
      <3>10. TypeOK'
        BY <3>1, <3>5, <3>8, <3>9 DEF TypeOK
      <3>11. OneActivePerMonitor'
        BY <3>5, <2>2 DEF OneActivePerMonitor, IndexAllows
      <3>12. EscalationBounded'
        BY <3>1 DEF EscalationBounded, WithinPolicy
      <3>13. MutedNeverPaged'
        BY <3>1, <3>8 DEF MutedNeverPaged, RowsSound
      <3>14. ActorSound(p)'
        <4>1. CASE StartsEscalation(p)
          <5>1. /\ actor'[p].pc = "attach" /\ actor'[p].alert = a
                /\ actor'[p].row = actor[p].row /\ actor'[p].st = actor[p].st
            BY <4>1, <3>9, <1>a DEF Actor
          <5>2. a \notin bornMuted'
            BY <4>1, <3>1, <3>7 DEF StartsEscalation
          <5> QED
            BY <5>1, <5>2, <3>4, <3>7, <1>a DEF ActorSound, WithinPolicy, EscalationPCs
        <4>2. CASE ~StartsEscalation(p)
          BY <4>2, <3>9, <1>a, IdleSound
        <4> QED
          BY <4>1, <4>2
      <3>15. ASSUME NEW q \in Actors, q # p PROVE ActorSound(q)'
        <4>1. actor'[q] = actor[q] /\ ActorSound(q)
          BY <3>9, <3>15
        <4>2. actor[q].pc \in EscalationPCs
                => Exists(alerts', actor[q].alert) /\ actor[q].alert \notin bornMuted'
          BY <4>1, <3>6, <3>8 DEF ActorSound, EscalationPCs
        <4> QED
          BY <4>1, <4>2 DEF ActorSound, WithinPolicy
      <3>16. RowsSound'
        BY <3>1, <3>6, <3>7, <3>8 DEF RowsSound, TypeOK
      <3> QED
        BY <3>10, <3>11, <3>12, <3>13, <3>14, <3>15, <3>16
    <2> QED
      BY <2>1, <2>2
  <1>2. CASE TriggerAttach(p)
    <2> DEFINE row == [actor[p].row EXCEPT !.step = 1]
               X   == [actor[p] EXCEPT !.pc = "enter", !.row = row]
    <2>0. 1 \in Steps \cup {0}
      BY DEF Steps
    <2>1. row \in AlertRow /\ row.status = actor[p].row.status
      BY <2>0, <1>b, StepEdit
    <2>2. /\ actor' = [actor EXCEPT ![p] = X] /\ alerts' = UpdateAlert(alerts, actor[p].alert, row)
          /\ actor[p].pc = "attach"
          /\ UNCHANGED <<esc, muted, silent, health, published, toggles, crashes,
                         inbox, todo, paged, silenced, bornMuted, requests>>
      BY <1>2, <1>a DEF TriggerAttach, env, history, TypeOK
    <2> HIDE DEF row
    <2>3. /\ X \in Actor /\ X.pc = "enter" /\ X.row = row
          /\ X.alert = actor[p].alert /\ X.st = actor[p].st
      BY <2>1, <1>a DEF Actor, PCs
    <2>4. actor[p].alert \in Alerts /\ row.status # "none"
      BY <2>1, <2>2, <1>a DEF ActorSound
    <2>5. actor'[p] = X
      BY <2>2, <1>a DEF TypeOK
    <2> HIDE DEF X
    <2>6. ASSUME \A b \in Alerts : Exists(alerts, b) => Exists(alerts', b)
          PROVE  ActorSound(p)'
      BY <2>2, <2>3, <2>4, <2>5, <2>6, <1>a DEF ActorSound, WithinPolicy, EscalationPCs
    <2> QED
      BY <2>1, <2>2, <2>3, <2>4, <2>6, <1>a, UpdateSafe DEF TypeOK
  <1>3. CASE TriggerEnter(p)
    <2> DEFINE X == [actor[p] EXCEPT !.pc = "window", !.st = FirstEntry]
    <2>1. FirstEntry \in EscalationRow /\ WithinPolicy(FirstEntry) /\ FirstEntry.step # 0
      BY FirstEntrySound
    <2>2. /\ actor' = [actor EXCEPT ![p] = X]
          /\ esc' = UpsertEscalationState(esc, actor[p].alert, FirstEntry)
          /\ actor[p].pc = "enter"
          /\ UNCHANGED <<alerts, muted, silent, health, published, toggles, crashes,
                         inbox, todo, paged, silenced, bornMuted, requests>>
      BY <1>3, <1>a DEF TriggerEnter, env, history, TypeOK
    <2>3. /\ X \in Actor /\ X.pc = "window" /\ X.row = actor[p].row
          /\ X.alert = actor[p].alert /\ X.st = FirstEntry
      BY <2>1, <1>a DEF Actor, PCs
    <2>4. actor'[p] = X
      BY <2>2, <1>a DEF TypeOK
    <2> HIDE DEF X
    <2>5. ActorSound(p)'
      BY <2>1, <2>2, <2>3, <2>4, <1>a DEF ActorSound, WithinPolicy, EscalationPCs, Exists
    <2> QED
      BY <2>1, <2>2, <2>3, <2>5, <1>a, UpsertSafe DEF ActorSound, EscalationPCs
  <1> QED
    BY <1>1, <1>2, <1>3 DEF TriggerStep

LEMMA NoEscalationSound ==
  NoEscalation \in EscalationRow /\ WithinPolicy(NoEscalation) /\ NoEscalation.step = 0
  BY DEF NoEscalation, EscalationRow, WithinPolicy

LEMMA RecoverSafe ==
  ASSUME IInv, NEW p \in Handlers, RecoverStep(p) \/ WriteAlert(p) PROVE IInv'
  <1> USE DEF IInv
  <1>a. p \in Actors /\ actor[p] \in Actor /\ ActorSound(p)
    BY DEF Actors, TypeOK
  <1>b. actor[p].row \in AlertRow /\ actor[p].row.monitor \in Monitors
    BY <1>a DEF Actor, AlertRow
  <1>1. CASE RecoverResolve(p) \/ WriteAlert(p)
    <2>1. /\ alerts' = UpdateAlert(alerts, actor[p].alert, actor[p].row)
          /\ actor[p].pc \in {"resolve", "write"}
          /\ Return(p) \/ Goto(p, "cleanup")
          /\ UNCHANGED <<esc, muted, silent, health, published, toggles, crashes,
                         paged, silenced, bornMuted, inbox, todo, requests>>
      BY <1>1 DEF RecoverResolve, WriteAlert, env, history
    <2>2. actor[p].alert \in Alerts /\ actor[p].row.status # "none"
      BY <2>1, <1>a DEF ActorSound
    <2>3. CASE Return(p)
      BY <2>1, <2>2, <2>3, <1>a, <1>b, ReturnMoves, UpdateSafe DEF TypeOK
    <2>4. CASE Goto(p, "cleanup")
      <3> DEFINE X == [actor[p] EXCEPT !.pc = "cleanup"]
      <3>1. actor' = [actor EXCEPT ![p] = X] /\ X \in Actor /\ actor'[p] = X
        BY <2>4, <1>a, GotoMoves DEF PCs
      <3>2. X.pc = "cleanup" /\ X.alert = actor[p].alert /\ X.st = actor[p].st
        BY <1>a DEF Actor
      <3> HIDE DEF X
      <3>3. ActorSound(p)'
        BY <3>1, <3>2, <2>2, <1>a DEF ActorSound, WithinPolicy, EscalationPCs
      <3> QED
        BY <2>1, <2>2, <3>1, <3>3, <1>a, <1>b, UpdateSafe DEF TypeOK
    <2> QED
      BY <2>1, <2>3, <2>4
  <1>2. CASE RecoverCleanup(p)
    <2>1. /\ esc' = UpsertEscalationState(esc, actor[p].alert, NoEscalation)
          /\ actor[p].pc = "cleanup"
          /\ Return(p) \/ Goto(p, "again")
          /\ UNCHANGED <<alerts, muted, silent, health, published, toggles, crashes,
                         paged, silenced, bornMuted, inbox, todo, requests>>
      BY <1>2 DEF RecoverCleanup, DeleteEscalationState, UpsertEscalationState, env, history
    <2>2. actor[p].alert \in Alerts
      BY <2>1, <1>a DEF ActorSound
    <2>3. CASE Return(p)
      BY <2>1, <2>2, <2>3, <1>a, NoEscalationSound, ReturnMoves, UpsertSafe
    <2>4. CASE Goto(p, "again")
      <3> DEFINE X == [actor[p] EXCEPT !.pc = "again"]
      <3>1. actor' = [actor EXCEPT ![p] = X] /\ X \in Actor /\ actor'[p] = X
        BY <2>4, <1>a, GotoMoves DEF PCs
      <3>2. X.pc = "again" /\ X.alert = actor[p].alert /\ X.st = actor[p].st
        BY <1>a DEF Actor
      <3> HIDE DEF X
      <3>3. ActorSound(p)'
        BY <3>1, <3>2, <2>2, <1>a DEF ActorSound, WithinPolicy, EscalationPCs
      <3> QED
        BY <2>1, <2>2, <3>1, <3>3, <1>a, NoEscalationSound, UpsertSafe
    <2> QED
      BY <2>1, <2>3, <2>4
  <1>3. CASE RecoverAgain(p)
    <2>0. actor[p].scoped \in BOOLEAN
      BY <1>a DEF Actor
    <2>1. PICK X \in Actor : actor' = [actor EXCEPT ![p] = X] /\ ActorSound(p)'
      BY <2>0, <1>3, <1>a, <1>b, PickActiveSound DEF RecoverAgain
    <2> QED
      BY <2>1, <1>3, <1>a, ReadSafe DEF RecoverAgain, TypeOK, tables, env, history
  <1> QED
    BY <1>1, <1>2, <1>3 DEF RecoverStep

LEMMA NotifySafe ==
  ASSUME IInv, NEW p \in Actors, NotifyStep(p) PROVE IInv'
  <1> USE DEF IInv
  <1>a. actor[p] \in Actor /\ ActorSound(p)
    BY DEF TypeOK
  <1>b. actor[p].st \in EscalationRow
    BY <1>a DEF Actor
  <1>1. CASE NotifyWindow(p)
    <2>1. /\ actor[p].pc = "window"
          /\ \/ Return(p) /\ silenced' = silenced \cup {<<actor[p].alert, actor[p].st.step>>}
             \/ Goto(p, "page") /\ silenced' = silenced
          /\ UNCHANGED <<alerts, esc, muted, silent, health, published, toggles, crashes,
                         paged, bornMuted, inbox, todo, requests>>
      BY <1>1 DEF NotifyWindow, tables, env
    <2>2. actor[p].alert \in Alerts /\ actor[p].st.step \in Steps
      BY <2>1, <1>a, <1>b DEF ActorSound, EscalationRow
    <2>3. silenced' \subseteq Alerts \X Steps
      BY <2>1, <2>2 DEF TypeOK
    <2>4. CASE Return(p)
      BY <2>1, <2>3, <2>4, ReturnMoves, ReadSafe DEF TypeOK
    <2>5. CASE Goto(p, "page")
      <3> DEFINE X == [actor[p] EXCEPT !.pc = "page"]
      <3>1. actor' = [actor EXCEPT ![p] = X] /\ X \in Actor /\ actor'[p] = X
        BY <2>5, GotoMoves DEF PCs
      <3>2. X.pc = "page" /\ X.alert = actor[p].alert /\ X.st = actor[p].st
        BY <1>a DEF Actor
      <3> HIDE DEF X
      <3>3. ActorSound(p)'
        BY <3>1, <3>2, <2>1, <1>a DEF ActorSound, WithinPolicy, EscalationPCs, Exists
      <3> QED
        BY <2>1, <2>3, <3>1, <3>3, ReadSafe DEF TypeOK
    <2> QED
      BY <2>1, <2>4, <2>5
  <1>2. CASE NotifyPage(p)
    <2>1. /\ actor[p].pc = "page" /\ Return(p)
          /\ esc' = UpsertEscalationState(esc, actor[p].alert, actor[p].st)
          /\ paged' = paged \cup {<<actor[p].alert, actor[p].st.step>>}
          /\ UNCHANGED <<alerts, muted, silent, health, published, toggles, crashes,
                         silenced, bornMuted, inbox, todo, requests>>
      BY <1>2 DEF NotifyPage, env
    <2>2. /\ actor[p].alert \in Alerts /\ actor[p].st.step # 0
          /\ Exists(alerts, actor[p].alert) /\ actor[p].alert \notin bornMuted
          /\ WithinPolicy(actor[p].st)
      BY <2>1, <1>a DEF ActorSound, EscalationPCs
    <2> QED
      BY <2>1, <2>2, <1>b, ReturnMoves, UpsertSafe
  <1> QED
    BY <1>1, <1>2 DEF NotifyStep

\* A goroutine whose context is cancelled gives up.
LEMMA CancelledSafe ==
  ASSUME IInv, NEW p \in Handlers, Cancelled(p) PROVE IInv'
  <1> USE DEF IInv
  <1>a. p \in Actors /\ actor[p] \in Actor /\ ActorSound(p)
    BY DEF Actors, TypeOK
  <1>1. CASE \E msg \in Message : Lose(p, msg)
    <2>1. PICK msg \in Message : Lose(p, msg)
      BY <1>1
    <2>2. inbox' \in [Message -> Nat]
      BY <2>1, ReceiveTyped DEF Lose
    <2> QED
      BY <2>1, <2>2, OutsideSafe DEF Lose, TypeOK, tables, env, history
  <1>2. CASE Abandon(p)
    <2>1. /\ Return(p)
          /\ UNCHANGED <<alerts, muted, silent, health, published, toggles, crashes,
                         paged, silenced, bornMuted, inbox, todo, requests>>
      BY <1>2 DEF Abandon, env, history
    <2>2. CASE UNCHANGED esc
      BY <2>1, <2>2, <1>a, ReturnMoves, ReadSafe DEF TypeOK
    <2>3. CASE /\ actor[p].pc = "page"
               /\ esc' = UpsertEscalationState(esc, actor[p].alert, actor[p].st)
      <3>1. /\ actor[p].alert \in Alerts /\ actor[p].st \in EscalationRow
            /\ Exists(alerts, actor[p].alert) /\ actor[p].alert \notin bornMuted
            /\ WithinPolicy(actor[p].st)
        BY <2>3, <1>a DEF ActorSound, EscalationPCs, Actor
      <3> QED
        BY <2>1, <2>3, <3>1, <1>a, ReturnMoves, UpsertSafe
    <2> QED
      BY <1>2, <2>2, <2>3 DEF Abandon
  <1> QED
    BY <1>1, <1>2 DEF Cancelled

\* The three ways on from a due state stay within the policy.
LEMMA NextEntrySound ==
  ASSUME NEW st \in EscalationRow, WithinPolicy(st), st.step # 0
  PROVE  /\ CanRetry(st) => /\ Retry(st) \in EscalationRow
                            /\ WithinPolicy(Retry(st)) /\ Retry(st).step # 0
         /\ CanAdvance(st) => /\ Advance(st) \in EscalationRow
                              /\ WithinPolicy(Advance(st)) /\ Advance(st).step # 0
         /\ CanLoop(st) => /\ Restart(st) \in EscalationRow
                           /\ WithinPolicy(Restart(st)) /\ Restart(st).step # 0
  <1>1. /\ st.step \in Steps /\ st.retry \in Nat /\ st.loops \in Nat
        /\ st.retry <= RepeatCount[st.step] /\ st.loops <= MaxLoops
    BY DEF EscalationRow, WithinPolicy
  <1>2. ASSUME CanRetry(st)
        PROVE  Retry(st) \in EscalationRow /\ WithinPolicy(Retry(st)) /\ Retry(st).step # 0
    <2>1. Retry(st) = [step |-> st.step, retry |-> st.retry + 1, loops |-> st.loops,
                       elapsed |-> FALSE]
      BY DEF Retry
    <2>2. RepeatCount[st.step] \in Nat /\ st.retry + 1 <= RepeatCount[st.step]
      BY <1>1, <1>2 DEF CanRetry, Steps
    <2>3. Retry(st) \in EscalationRow
      BY <2>1, <1>1 DEF EscalationRow
    <2> QED
      BY <2>1, <2>2, <2>3, <1>1 DEF WithinPolicy
  <1>3. ASSUME CanAdvance(st)
        PROVE  Advance(st) \in EscalationRow /\ WithinPolicy(Advance(st)) /\ Advance(st).step # 0
    <2>1. Advance(st) = [step |-> st.step + 1, retry |-> 0, loops |-> st.loops,
                         elapsed |-> FALSE]
      BY DEF Advance, Entry
    <2>2. st.step + 1 \in Steps /\ RepeatCount[st.step + 1] \in Nat
      BY <1>1, <1>3 DEF CanAdvance, Steps
    <2>3. Advance(st) \in EscalationRow
      BY <2>1, <2>2, <1>1 DEF EscalationRow
    <2> QED
      BY <2>1, <2>2, <2>3, <1>1 DEF WithinPolicy, Steps
  <1>4. ASSUME CanLoop(st)
        PROVE  Restart(st) \in EscalationRow /\ WithinPolicy(Restart(st)) /\ Restart(st).step # 0
    <2>1. Restart(st) = [step |-> 1, retry |-> 0, loops |-> st.loops + 1,
                         elapsed |-> FALSE]
      BY DEF Restart, Entry
    <2>2. 1 \in Steps /\ RepeatCount[1] \in Nat /\ st.loops + 1 <= MaxLoops
      BY <1>1, <1>4 DEF CanLoop, Steps
    <2>3. Restart(st) \in EscalationRow
      BY <2>1, <2>2, <1>1 DEF EscalationRow
    <2> QED
      BY <2>1, <2>2, <2>3, <1>1 DEF WithinPolicy
  <1> QED
    BY <1>2, <1>3, <1>4

LEMMA TickSafe ==
  ASSUME IInv, TickStep PROVE IInv'
  <1> USE DEF IInv
  <1> DEFINE p == Ticker
  <1>a. p \in Actors /\ actor[p] \in Actor /\ ActorSound(p)
    BY DEF Actors, TypeOK
  <1>b. actor[p].row \in AlertRow /\ actor[p].st \in EscalationRow
    BY <1>a DEF Actor
  <1>1. CASE TickList
    <2>1. /\ todo' = ListFiring(alerts)
          /\ UNCHANGED <<alerts, esc, muted, silent, health, published, toggles, crashes,
                         actor, paged, silenced, bornMuted, inbox, requests>>
      BY <1>1 DEF TickList, tables, env, history
    <2>2. \A entry \in todo' : /\ entry \in [id : Alerts, row : AlertRow]
                               /\ entry.row.status # "none" /\ Exists(alerts, entry.id)
      BY <2>1 DEF ListFiring, TypeOK, Exists
    <2>3. TypeOK'
      BY <2>1, <2>2 DEF TypeOK
    <2> QED
      BY <2>1, <2>2, <2>3 DEF OneActivePerMonitor, EscalationBounded, WithinPolicy,
         MutedNeverPaged, ActorSound, RowsSound, Exists
  <1>2. ASSUME NEW entry \in todo, TickNext(entry) PROVE IInv'
    <2> DEFINE st == esc[entry.id]
    <2>1. /\ entry.id \in Alerts /\ entry.row \in AlertRow /\ entry.row.status # "none"
          /\ Exists(alerts, entry.id)
      BY DEF TypeOK, RowsSound
    <2>2. st \in EscalationRow /\ WithinPolicy(st)
      BY <2>1 DEF TypeOK, EscalationBounded
    <2>3. /\ todo' \subseteq todo
          /\ UNCHANGED <<alerts, esc, muted, silent, health, published, toggles, crashes,
                         paged, silenced, bornMuted, inbox, requests>>
      BY <1>2 DEF TickNext, tables, env, history
    <2>4. ASSUME NEW new \in EscalationRow, WithinPolicy(new), new.step # 0, Due(st),
                 TickTake(entry, new)
          PROVE  IInv'
      <3> DEFINE X == [Idle EXCEPT !.pc = "save", !.alert = entry.id, !.row = entry.row,
                                   !.st = new]
      <3>1. actor' = [actor EXCEPT ![p] = X]
        BY <2>4 DEF TickTake
      <3>2. X \in Actor
        BY <2>1, IdleActor DEF Actor, PCs, Idle
      <3>3. X.pc = "save" /\ X.alert = entry.id /\ X.row = entry.row /\ X.st = new
        BY DEF Idle
      <3>4. actor'[p] = X
        BY <3>1, <3>2, <1>a DEF TypeOK
      <3> HIDE DEF X
      <3>5. entry.id \notin bornMuted'
        BY <2>1, <2>3, <2>4 DEF Due, RowsSound
      <3>6. ActorSound(p)'
        BY <2>1, <2>3, <2>4, <3>3, <3>4, <3>5 DEF ActorSound, WithinPolicy, EscalationPCs, Exists
      <3> QED
        BY <2>3, <3>1, <3>2, <3>6, <1>a, ReadSafe DEF TypeOK
    <2>5. CASE UNCHANGED actor
      <3>1. TypeOK' /\ RowsSound'
        BY <2>3, <2>5 DEF TypeOK, RowsSound, Exists
      <3> QED
        BY <2>3, <2>5, <3>1 DEF OneActivePerMonitor, EscalationBounded, WithinPolicy,
           MutedNeverPaged, ActorSound, Exists
    <2>6. CASE Due(st)
      <3>1. \/ CanRetry(st) /\ TickTake(entry, Retry(st))
            \/ CanAdvance(st) /\ TickTake(entry, Advance(st))
            \/ CanLoop(st) /\ TickTake(entry, Restart(st))
            \/ UNCHANGED actor
        BY <1>2 DEF TickNext
      <3> QED
        BY <3>1, <2>2, <2>4, <2>5, <2>6, NextEntrySound DEF Due
    <2> QED
      BY <1>2, <2>5, <2>6 DEF TickNext
  <1>3. CASE TickSave
    <2>1. PICK pc \in {"window", "moveAlert"} : Goto(p, pc)
      BY <1>3 DEF TickSave
    <2>2. /\ actor[p].pc = "save"
          /\ esc' = UpsertEscalationState(esc, actor[p].alert, actor[p].st)
          /\ UNCHANGED <<alerts, muted, silent, health, published, toggles, crashes,
                         paged, silenced, bornMuted, inbox, todo, requests>>
      BY <1>3 DEF TickSave, env, history
    <2> DEFINE X == [actor[p] EXCEPT !.pc = pc]
    <2>3. actor' = [actor EXCEPT ![p] = X] /\ X \in Actor /\ actor'[p] = X
      BY <2>1, <1>a, GotoMoves DEF PCs
    <2>4. X.pc = pc /\ X.alert = actor[p].alert /\ X.st = actor[p].st /\ X.row = actor[p].row
      BY <1>a DEF Actor
    <2>5. /\ actor[p].alert \in Alerts /\ actor[p].st.step # 0
          /\ Exists(alerts, actor[p].alert) /\ actor[p].alert \notin bornMuted
          /\ WithinPolicy(actor[p].st) /\ actor[p].row.status # "none"
      BY <2>2, <1>a DEF ActorSound, EscalationPCs
    <2> HIDE DEF X
    <2>6. ActorSound(p)'
      BY <2>2, <2>3, <2>4, <2>5 DEF ActorSound, WithinPolicy, EscalationPCs, Exists
    <2> QED
      BY <2>2, <2>3, <2>5, <2>6, <1>a, <1>b, UpsertSafe
  <1>4. CASE TickMoveAlert
    <2> DEFINE row == [actor[p].row EXCEPT !.step = actor[p].st.step]
               X   == [actor[p] EXCEPT !.pc = "window", !.row = row]
    <2>1. row \in AlertRow /\ row.status = actor[p].row.status
      BY <1>b, StepEdit DEF EscalationRow
    <2>2. /\ actor' = [actor EXCEPT ![p] = X]
          /\ alerts' = UpdateAlert(alerts, actor[p].alert, row)
          /\ actor[p].pc = "moveAlert"
          /\ UNCHANGED <<esc, muted, silent, health, published, toggles, crashes,
                         paged, silenced, bornMuted, inbox, todo, requests>>
      BY <1>4, <1>a DEF TickMoveAlert, TypeOK, env, history
    <2> HIDE DEF row
    <2>3. /\ X \in Actor /\ X.pc = "window" /\ X.row = row
          /\ X.alert = actor[p].alert /\ X.st = actor[p].st
      BY <2>1, <1>a DEF Actor, PCs
    <2>4. actor[p].alert \in Alerts /\ row.status # "none"
      BY <2>1, <2>2, <1>a DEF ActorSound
    <2>5. actor'[p] = X
      BY <2>2, <1>a, <2>3 DEF TypeOK
    <2> HIDE DEF X
    <2>6. ASSUME \A b \in Alerts : Exists(alerts, b) => Exists(alerts', b)
          PROVE  ActorSound(p)'
      BY <2>2, <2>3, <2>4, <2>5, <2>6, <1>a DEF ActorSound, WithinPolicy, EscalationPCs
    <2> QED
      BY <2>1, <2>2, <2>3, <2>4, <2>6, <1>a, UpdateSafe DEF TypeOK
  <1> QED
    BY <1>1, <1>2, <1>3, <1>4 DEF TickStep

---------------------------------------------------------------------------
(***************************************************************************)
(* The theorems.                                                           *)
(***************************************************************************)
LEMMA StepSafe == IInv /\ [Next]_vars => IInv'
  <1> SUFFICES ASSUME IInv, [Next]_vars PROVE IInv'
    OBVIOUS
  <1>1. CASE \E p \in Handlers : Deliver(p) \/ Requests(p) \/ Work(p) \/ Cancelled(p)
    BY <1>1, DeliverSafe, RequestsSafe, TriggerSafe, RecoverSafe, CancelledSafe DEF Work
  <1>2. CASE \E p \in Actors : NotifyStep(p)
    BY <1>2, NotifySafe
  <1>3. CASE TickStep
    BY <1>3, TickSafe
  <1>4. CASE Environment
    BY <1>4, EnvironmentSafe
  <1>5. CASE UNCHANGED vars
    <2>1. TypeOK'
      BY <1>5 DEF IInv, TypeOK, vars
    <2> QED
      BY <1>5, <2>1, OutsideSafe DEF vars
  <1> QED
    BY <1>1, <1>2, <1>3, <1>4, <1>5 DEF Next

\* The inductive invariant holds of every reachable state.
THEOREM InvariantHolds == Spec => []IInv
  BY InitSafe, StepSafe, PTL DEF Spec

\* Every variable keeps its type: in particular a goroutine never writes an
\* escalation state for a step that the policy does not have.
THEOREM TypeCorrect == Spec => []TypeOK
  <1>1. IInv => TypeOK
    BY DEF IInv
  <1> QED
    BY <1>1, InvariantHolds, PTL

\* Whatever the handlers, requests and the tick loop write back, and across
\* crashes, a monitor has at most one firing or acknowledged alert.
THEOREM OneActive == Spec => []OneActivePerMonitor
  <1>1. IInv => OneActivePerMonitor
    BY DEF IInv
  <1> QED
    BY <1>1, InvariantHolds, PTL

\* Stale copies of the escalation state never take it beyond the policy.
THEOREM Bounded == Spec => []EscalationBounded
  <1>1. IInv => EscalationBounded
    BY DEF IInv
  <1> QED
    BY <1>1, InvariantHolds, PTL

\* An alert raised under mute pages nobody, whenever the monitor is unmuted.
THEOREM MuteHolds == Spec => []MutedNeverPaged
  <1>1. IInv => MutedNeverPaged
    BY DEF IInv
  <1> QED
    BY <1>1, InvariantHolds, PTL

---------------------------------------------------------------------------
(***************************************************************************)
(* No step is skipped.                                                     *)
(***************************************************************************)
FromChecks == IntegrationMonitors = {} /\ MaxCrashes = 0

Notifying == {"window", "page"}

\* Step s of alert a was notified or silenced, or its first handler is at it.
Covered(a, s) == <<a, s>> \in paged \cup silenced \/ NotYetNotified(a, s)

\* The tick loop has stored the step and is about to notify it.
Entering(a) ==
  /\ actor[Ticker].pc \in {"moveAlert"} \cup Notifying
  /\ actor[Ticker].alert = a /\ actor[Ticker].st.step = esc[a].step

\* A handler notifies only the first step, and nothing cancels it.
QuietHandler(p) ==
  /\ actor[p].pc \notin {"save", "moveAlert"}
  /\ actor[p].pc \in {"create", "attach", "enter"} \cup Notifying => ~actor[p].scoped
  /\ actor[p].pc \in Notifying => actor[p].st.step = 1

Unscoped == \A m \in Monitors : inbox[TriggerMsg(m, TRUE)] = 0

\* A stored step, and the step below it, are covered.
Reached(a) ==
  /\ esc[a].step # 0 => Covered(a, esc[a].step) \/ Entering(a)
  /\ esc[a].step > 1 => Covered(a, esc[a].step - 1)

\* So is the step below the one that the tick loop is at.
TickerReached ==
  /\ actor[Ticker].pc \in {"save", "moveAlert"} \cup Notifying
  /\ actor[Ticker].st.step > 1
  => Covered(actor[Ticker].alert, actor[Ticker].st.step - 1)

LadderInv ==
  /\ Unscoped
  /\ \A p \in Handlers : QuietHandler(p)
  /\ \A a \in Alerts : Reached(a)
  /\ TickerReached
  /\ NoStepSkipped

LEMMA LadderStarts == Init => LadderInv
  BY DEF Init, LadderInv, Unscoped, QuietHandler, Reached, TickerReached, NoStepSkipped,
         NoEscalation, Idle, Notifying, Actors, TriggerMsg, Message

---------------------------------------------------------------------------
\* A handler that is not notifying moves; a stored step stays, goes, or is
\* the first one and the handler's own to notify.
LEMMA HandlerMoves ==
  ASSUME IInv, LadderInv, NEW p \in Handlers, NEW X \in Actor,
         actor' = [actor EXCEPT ![p] = X],
         actor[p].pc \notin Notifying,
         X.pc \notin {"save", "moveAlert"},
         X.pc \in {"create", "attach", "enter"} \cup Notifying => ~X.scoped,
         X.pc \in Notifying => X.st.step = 1,
         UNCHANGED <<paged, silenced>>,
         \A a \in Alerts : \/ esc'[a].step = esc[a].step
                           \/ esc'[a].step = 0
                           \/ esc'[a].step = 1 /\ X.pc = "window" /\ X.alert = a,
         Unscoped'
  PROVE  LadderInv'
<1>a. p \in Actors /\ Ticker \in Actors /\ p # Ticker
  BY DEF Actors
<1>b. actor'[p] = X /\ \A q \in Actors \ {p} : actor'[q] = actor[q]
  BY <1>a DEF IInv, TypeOK
<1>c. ASSUME NEW a, NEW s, Covered(a, s) PROVE Covered(a, s)'
  <2>1. CASE <<a, s>> \in paged \cup silenced
    BY <2>1 DEF Covered
  <2>2. CASE NotYetNotified(a, s)
    <3>1. PICK q \in Handlers : /\ actor[q].pc \in Notifying
                                /\ actor[q].alert = a /\ actor[q].st.step = s
      BY <2>2 DEF NotYetNotified, Notifying
    <3>2. actor'[q] = actor[q]
      BY <3>1, <1>b DEF Actors
    <3> QED BY <3>1, <3>2 DEF Covered, NotYetNotified, Notifying
  <2> QED BY <1>c, <2>1, <2>2 DEF Covered
<1>1. \A q \in Handlers : QuietHandler(q)'
  BY <1>b DEF LadderInv, QuietHandler, Actors
<1>2. ASSUME NEW a \in Alerts PROVE Reached(a)'
  <2>1. CASE esc'[a].step = esc[a].step
    <3>1. Entering(a) => Entering(a)'
      BY <2>1, <1>a, <1>b DEF Entering
    <3> QED BY <2>1, <3>1, <1>c DEF LadderInv, Reached
  <2>2. CASE esc'[a].step = 0
    BY <2>2 DEF Reached
  <2>3. CASE esc'[a].step = 1 /\ X.pc = "window" /\ X.alert = a
    BY <2>3, <1>b DEF Reached, Covered, NotYetNotified, Notifying
  <2> QED BY <2>1, <2>2, <2>3
<1>3. TickerReached'
  BY <1>a, <1>b, <1>c DEF LadderInv, TickerReached
<1>4. NoStepSkipped'
  BY <1>c DEF LadderInv, NoStepSkipped, Covered
<1> QED BY <1>1, <1>2, <1>3, <1>4 DEF LadderInv

\* The environment moves no goroutine and no stored step.
LEMMA OutsideLadder ==
  ASSUME LadderInv, UNCHANGED <<actor, paged, silenced>>,
         \A a \in Alerts : esc'[a].step = esc[a].step,
         Unscoped'
  PROVE  LadderInv'
  BY DEF LadderInv, QuietHandler, Reached, TickerReached, NoStepSkipped, Covered,
         NotYetNotified, Entering

LEMMA PublishUnscoped ==
  ASSUME IInv, Unscoped, NEW msg \in Message, Publish(msg),
         \A m \in Monitors : msg # TriggerMsg(m, TRUE)
  PROVE  Unscoped' /\ UNCHANGED <<actor, paged, silenced, esc>>
  BY MessagesTyped DEF IInv, TypeOK, Unscoped, Publish, tables, history

LEMMA ReceiveUnscoped ==
  ASSUME IInv, Unscoped, NEW p, NEW msg \in Message, Receive(p, msg)
  PROVE  Unscoped' /\ actor[p].pc = "idle" /\ p \in Handlers
                   /\ \A m \in Monitors : msg # TriggerMsg(m, TRUE)
<1>1. /\ actor[p].pc = "idle" /\ p \in Handlers
      /\ inbox[msg] > 0 /\ inbox' = [inbox EXCEPT ![msg] = @ - 1]
      /\ inbox \in [Message -> Nat]
  BY DEF Receive, IInv, TypeOK
<1>2. ASSUME NEW m \in Monitors
      PROVE  msg # TriggerMsg(m, TRUE) /\ inbox'[TriggerMsg(m, TRUE)] = 0
  <2>1. TriggerMsg(m, TRUE) \in Message /\ inbox[TriggerMsg(m, TRUE)] = 0
    BY MessagesTyped DEF Unscoped
  <2> DEFINE t == TriggerMsg(m, TRUE)
  <2> HIDE DEF t
  <2>2. t \in Message /\ inbox[t] = 0
    BY <2>1 DEF t
  <2>3. msg # t /\ inbox'[t] = 0
    BY <1>1, <2>2
  <2> QED BY <2>3 DEF t
<1> QED BY <1>1, <1>2 DEF Unscoped

LEMMA EnvironmentClimbs ==
  ASSUME FromChecks, IInv, LadderInv, Environment PROVE LadderInv'
<1>1. CASE \E m \in Monitors : CheckFails(m) \/ CheckRecovers(m) \/ PostTrigger(m)
  <2>1. PICK m \in Monitors : CheckFails(m) \/ CheckRecovers(m) \/ PostTrigger(m)
    BY <1>1
  <2>2. ~PostTrigger(m)
    BY DEF PostTrigger, FromChecks
  <2>3. \A n \in Monitors : /\ TriggerMsg(m, FALSE) # TriggerMsg(n, TRUE)
                            /\ RecoverMsg(m, FALSE) # TriggerMsg(n, TRUE)
    BY DEF TriggerMsg, RecoverMsg
  <2> QED BY <2>1, <2>2, <2>3, MessagesTyped, PublishUnscoped, OutsideLadder
             DEF LadderInv, CheckFails, CheckRecovers
<1>2. CASE \E a \in Alerts : PressAck(a) \/ PressResolve(a)
  <2>1. PICK a \in Alerts : PressAck(a) \/ PressResolve(a)
    BY <1>2
  <2>2. alerts[a].monitor \in Monitors
    BY DEF IInv, TypeOK, AlertRow
  <2>3. \A n \in Monitors : /\ AckMsg(a) # TriggerMsg(n, TRUE)
                            /\ RecoverMsg(alerts[a].monitor, TRUE) # TriggerMsg(n, TRUE)
    BY DEF TriggerMsg, RecoverMsg, AckMsg
  <2> QED BY <2>1, <2>2, <2>3, MessagesTyped, PublishUnscoped, OutsideLadder
             DEF LadderInv, PressAck, PressResolve
<1>3. CASE \E m \in Monitors : ToggleMute(m) \/ ToggleWindow(m)
  BY <1>3, OutsideLadder
     DEF ToggleMute, ToggleWindow, Toggle, tables, history, LadderInv, Unscoped
<1>4. CASE \E a \in Alerts : WaitElapses(a)
  <2>1. PICK a \in Alerts : WaitElapses(a)
    BY <1>4
  <2>2. \A b \in Alerts : esc'[b].step = esc[b].step
    BY <2>1 DEF WaitElapses, IInv, TypeOK, EscalationRow
  <2> QED BY <2>1, <2>2, OutsideLadder DEF WaitElapses, env, history, LadderInv, Unscoped
<1>5. ~Crash
  BY DEF Crash, FromChecks, IInv, TypeOK
<1> QED BY <1>1, <1>2, <1>3, <1>4, <1>5 DEF Environment

---------------------------------------------------------------------------
\* A lookup or a request leaves the handler with an alert to write, or idle.
LEMMA ReadsClimb ==
  ASSUME IInv, LadderInv, NEW p \in Handlers, NEW X \in Actor,
         actor' = [actor EXCEPT ![p] = X], actor[p].pc \notin Notifying,
         X.pc \in {"idle", "resolve", "write", "cleanup", "again"},
         \A a \in Alerts : esc'[a].step = esc[a].step \/ esc'[a].step = 0,
         UNCHANGED <<paged, silenced>>, Unscoped'
  PROVE  LadderInv'
  BY HandlerMoves DEF Notifying

LEMMA PickActiveReads ==
  ASSUME IInv, NEW p \in Actors, NEW m \in Monitors, NEW scoped \in BOOLEAN,
         PickActive(p, m, scoped)
  PROVE  \E X \in Actor : /\ actor' = [actor EXCEPT ![p] = X]
                          /\ X.pc \in {"idle", "resolve"}
<1>1. CASE Return(p)
  BY <1>1, IdleActor DEF Return, Idle
<1>2. CASE GetActiveByMonitor(alerts, m) # {}
  <2>1. PICK a \in Alerts :
          actor' = [actor EXCEPT ![p] =
            [Idle EXCEPT !.pc = "resolve", !.alert = a,
                         !.row = [alerts[a] EXCEPT !.status = "resolved"],
                         !.scoped = scoped]]
    BY <1>2 DEF PickActive, GetActiveByMonitor
  <2> DEFINE row == [alerts[a] EXCEPT !.status = "resolved"]
             X == [Idle EXCEPT !.pc = "resolve", !.alert = a, !.row = row,
                               !.scoped = scoped]
  <2>2. row \in AlertRow
    BY StatusEdit DEF IInv, TypeOK, Statuses
  <2> HIDE DEF row
  <2>3. X \in Actor /\ X.pc = "resolve"
    BY <2>2, IdleActor DEF Actor, PCs, Idle
  <2> QED BY <2>1, <2>3 DEF row
<1> QED BY <1>1, <1>2 DEF PickActive

LEMMA WriteReads ==
  ASSUME NEW p \in Actors, NEW a \in Alerts, NEW row \in AlertRow,
         ReadForWrite(p, a, row)
  PROVE  \E X \in Actor : actor' = [actor EXCEPT ![p] = X] /\ X.pc = "write"
<1> DEFINE X == [Idle EXCEPT !.pc = "write", !.alert = a, !.row = row, !.scoped = TRUE]
<1>1. X \in Actor /\ X.pc = "write"
  BY IdleActor DEF Actor, PCs, Idle
<1> QED BY <1>1 DEF ReadForWrite

LEMMA DeliverClimbs ==
  ASSUME IInv, LadderInv, NEW p \in Handlers, Deliver(p) PROVE LadderInv'
<1>a. p \in Actors
  BY DEF Actors
<1>b. Unscoped /\ Unscoped' /\ actor[p].pc = "idle"
  <2>1. PICK msg \in Message : Receive(p, msg)
    BY MessagesTyped DEF Deliver, TriggerLookup, RecoverLookup, AckLookup
  <2> QED BY <2>1, ReceiveUnscoped DEF LadderInv
<1>c. UNCHANGED <<esc, paged, silenced>>
  BY DEF Deliver, TriggerLookup, RecoverLookup, AckLookup, tables, history
<1>d. CASE UNCHANGED actor
  BY <1>b, <1>c, <1>d, OutsideLadder
<1>1. ASSUME NEW m \in Monitors, NEW scoped \in BOOLEAN, TriggerLookup(p, m, scoped)
      PROVE  LadderInv'
  <2> DEFINE X == [Idle EXCEPT !.pc = "create",
                     !.row = [monitor |-> m, status |-> "firing", step |-> 0],
                     !.muted = m \in muted, !.scoped = scoped]
  <2>1. scoped = FALSE
    BY <1>1, <1>b, MessagesTyped, ReceiveUnscoped DEF TriggerLookup
  <2>2. X \in Actor /\ X.pc = "create" /\ X.scoped = scoped
    <3>1. \A row \in AlertRow, b \in BOOLEAN :
            LET Y == [Idle EXCEPT !.pc = "create", !.row = row, !.muted = b,
                                  !.scoped = scoped]
            IN  Y \in Actor /\ Y.pc = "create" /\ Y.scoped = scoped
      BY IdleActor DEF Actor, PCs, Idle
    <3>2. [monitor |-> m, status |-> "firing", step |-> 0] \in AlertRow
      BY DEF AlertRow, Statuses
    <3>3. (m \in muted) \in BOOLEAN
      OBVIOUS
    <3> QED BY <3>1, <3>2, <3>3, Zenon
  <2>3. actor' = actor \/ actor' = [actor EXCEPT ![p] = X]
    BY <1>1 DEF TriggerLookup
  <2> HIDE DEF X
  <2> QED BY <2>1, <2>2, <2>3, <1>b, <1>c, <1>d, HandlerMoves DEF Notifying
<1>2. ASSUME NEW m \in Monitors, NEW scoped \in BOOLEAN, RecoverLookup(p, m, scoped)
      PROVE  LadderInv'
  <2>1. PICK X \in Actor : actor' = [actor EXCEPT ![p] = X] /\ X.pc \in {"idle", "resolve"}
    BY <1>2, <1>a, PickActiveReads DEF RecoverLookup
  <2> QED BY <2>1, <1>b, <1>c, ReadsClimb DEF Notifying
<1>3. ASSUME NEW a \in Alerts, AckLookup(p, a) PROVE LadderInv'
  <2> DEFINE row == [alerts[a] EXCEPT !.status = "acknowledged"]
  <2>1. row \in AlertRow
    BY StatusEdit DEF IInv, TypeOK, Statuses
  <2>2. actor' = actor \/ ReadForWrite(p, a, row)
    BY <1>3 DEF AckLookup
  <2> QED BY <2>1, <2>2, <1>b, <1>c, <1>a, <1>d, WriteReads, ReadsClimb DEF Notifying
<1> QED BY <1>1, <1>2, <1>3 DEF Deliver

LEMMA RequestsClimb ==
  ASSUME IInv, LadderInv, NEW p \in Handlers, Requests(p) PROVE LadderInv'
<1>a. p \in Actors
  BY DEF Actors
<1>1. PICK a \in Alerts : Request(p, a) /\
        \/ ApiAck(p, a) \/ ApiResolve(p, a) \/ ReplyRemediation(p, a) \/ ReplyAck(p, a)
        \/ \E s \in Steps \cup {0} : ReplyEscalated(p, a, s)
  BY DEF Requests, ApiAck, ApiResolve, ReplyRemediation, ReplyAck, ReplyEscalated
<1>2. /\ actor[p].pc = "idle" /\ UNCHANGED <<esc, inbox, paged, silenced>>
      /\ Unscoped'
  BY <1>1 DEF Request, env, history, LadderInv, Unscoped
<1>3. CASE UNCHANGED actor
  BY <1>2, <1>3, OutsideLadder
<1>4. ASSUME NEW row \in AlertRow, ReadForWrite(p, a, row) PROVE LadderInv'
  BY <1>2, <1>4, <1>a, WriteReads, ReadsClimb DEF Notifying
<1>5. alerts[a] \in AlertRow
  BY DEF IInv, TypeOK
<1>6. CASE ApiAck(p, a) \/ ApiResolve(p, a) \/ ReplyRemediation(p, a)
  <2>1. PICK s \in Statuses : ReadForWrite(p, a, [alerts[a] EXCEPT !.status = s])
    BY <1>6 DEF ApiAck, ApiResolve, ReplyRemediation, Statuses
  <2>2. [alerts[a] EXCEPT !.status = s] \in AlertRow
    BY <1>5, StatusEdit
  <2> QED BY <2>1, <2>2, <1>4
<1>7. CASE ReplyAck(p, a)
  BY <1>7, <1>3 DEF ReplyAck
<1>8. ASSUME NEW s \in Steps \cup {0}, ReplyEscalated(p, a, s) PROVE LadderInv'
  <2> DEFINE t == IF s = 0 THEN alerts[a].step ELSE s
  <2>1. t \in Steps \cup {0}
    BY <1>5 DEF AlertRow
  <2>2. ReadForWrite(p, a, [alerts[a] EXCEPT !.step = t])
    BY <1>8 DEF ReplyEscalated
  <2> HIDE DEF t
  <2>3. [alerts[a] EXCEPT !.step = t] \in AlertRow
    BY <2>1, <1>5, StepEdit
  <2> QED BY <2>2, <2>3, <1>4
<1> QED BY <1>1, <1>6, <1>7, <1>8

\* What a handler does between its lookup and its return.
LEMMA WorkClimbs ==
  ASSUME IInv, LadderInv, NEW p \in Handlers, Work(p) PROVE LadderInv'
<1>a. p \in Actors /\ actor[p] \in Actor /\ QuietHandler(p) /\ ActorSound(p)
  BY DEF Actors, IInv, TypeOK, LadderInv
<1>b. UNCHANGED <<inbox, paged, silenced>> /\ actor[p].pc \notin Notifying
  BY DEF Work, TriggerStep, RecoverStep, TriggerCreate, TriggerAttach, TriggerEnter,
         RecoverResolve, RecoverCleanup, RecoverAgain, WriteAlert, history, Notifying
<1>c. Unscoped'
  BY <1>b DEF LadderInv, Unscoped
<1>d. CASE Return(p) /\ UNCHANGED esc
  <2>1. actor' = [actor EXCEPT ![p] = Idle] /\ Idle \in Actor /\ Idle.pc = "idle"
    BY <1>d, IdleActor DEF Return, Idle
  <2> QED BY <2>1, <1>b, <1>c, <1>d, ReadsClimb
<1>e. ASSUME NEW pc \in {"cleanup", "again"}, Goto(p, pc),
             \A a \in Alerts : esc'[a].step = esc[a].step \/ esc'[a].step = 0
      PROVE  LadderInv'
  <2> DEFINE X == [actor[p] EXCEPT !.pc = pc]
  <2>0. pc \in PCs /\ TypeOK
    BY DEF PCs, IInv
  <2>1. actor' = [actor EXCEPT ![p] = X] /\ X \in Actor
    BY <2>0, <1>a, <1>e, GotoMoves
  <2>2. X.pc = pc
    BY <1>a DEF Actor
  <2> HIDE DEF X
  <2> QED BY <2>1, <2>2, <1>b, <1>c, <1>e, ReadsClimb
<1>1. ASSUME NEW a \in Alerts, TriggerCreate(p, a) PROVE LadderInv'
  <2>1. UNCHANGED esc /\ actor[p].pc = "create"
    BY <1>1 DEF TriggerCreate
  <2>2. CASE actor' = [actor EXCEPT ![p].pc = "attach", ![p].alert = a]
    <3> DEFINE X == [actor[p] EXCEPT !.pc = "attach", !.alert = a]
    <3>1. actor' = [actor EXCEPT ![p] = X]
      BY <2>2, <1>a DEF IInv, TypeOK
    <3>2. X \in Actor /\ X.pc = "attach" /\ X.scoped = actor[p].scoped
      BY <1>a DEF Actor, PCs
    <3> HIDE DEF X
    <3> QED BY <3>1, <3>2, <2>1, <1>a, <1>b, <1>c, HandlerMoves DEF QuietHandler, Notifying
  <2> QED BY <1>1, <2>1, <2>2, <1>d DEF TriggerCreate
<1>2. CASE TriggerAttach(p)
  <2> DEFINE row == [actor[p].row EXCEPT !.step = 1]
             X   == [actor[p] EXCEPT !.pc = "enter", !.row = row]
  <2>0. 1 \in Steps \cup {0} /\ actor[p].row \in AlertRow
    BY <1>a DEF Steps, Actor
  <2>1. row \in AlertRow
    BY <2>0, StepEdit
  <2>2. actor' = [actor EXCEPT ![p] = X] /\ actor[p].pc = "attach" /\ UNCHANGED esc
    BY <1>2, <1>a DEF TriggerAttach, IInv, TypeOK
  <2> HIDE DEF row
  <2>3. X \in Actor /\ X.pc = "enter" /\ X.scoped = actor[p].scoped
    BY <2>1, <1>a DEF Actor, PCs
  <2> HIDE DEF X
  <2> QED BY <2>2, <2>3, <1>a, <1>b, <1>c, HandlerMoves DEF QuietHandler, Notifying
<1>3. CASE TriggerEnter(p)
  <2> DEFINE X == [actor[p] EXCEPT !.pc = "window", !.st = FirstEntry]
  <2>1. FirstEntry \in EscalationRow /\ FirstEntry.step = 1
    BY FirstEntrySound DEF FirstEntry, Entry
  <2>2. /\ actor' = [actor EXCEPT ![p] = X] /\ actor[p].pc = "enter"
        /\ esc' = [esc EXCEPT ![actor[p].alert] = FirstEntry]
    BY <1>3, <1>a DEF TriggerEnter, UpsertEscalationState, IInv, TypeOK
  <2>3. /\ X \in Actor /\ X.pc = "window" /\ X.scoped = actor[p].scoped
        /\ X.alert = actor[p].alert /\ X.st = FirstEntry
    BY <2>1, <1>a DEF Actor, PCs
  <2> HIDE DEF X
  <2>4. \A a \in Alerts : \/ esc'[a].step = esc[a].step
                          \/ esc'[a].step = 1 /\ X.alert = a
    BY <2>1, <2>2, <2>3 DEF IInv, TypeOK
  <2> QED BY <2>1, <2>2, <2>3, <2>4, <1>a, <1>b, <1>c, HandlerMoves
             DEF QuietHandler, Notifying
<1>4. CASE RecoverResolve(p)
  BY <1>4, <1>d, <1>e DEF RecoverResolve
<1>5. CASE WriteAlert(p)
  BY <1>5, <1>d DEF WriteAlert
<1>6. CASE RecoverCleanup(p)
  <2>1. \A a \in Alerts : esc'[a].step = esc[a].step \/ esc'[a].step = 0
    BY <1>6 DEF RecoverCleanup, DeleteEscalationState, NoEscalation, IInv, TypeOK
  <2>2. CASE Return(p)
    <3>1. actor' = [actor EXCEPT ![p] = Idle] /\ Idle \in Actor /\ Idle.pc = "idle"
      BY <2>2, IdleActor DEF Return, Idle
    <3> QED BY <3>1, <2>1, <1>b, <1>c, ReadsClimb
  <2> QED BY <1>6, <2>1, <2>2, <1>e DEF RecoverCleanup
<1>7. CASE RecoverAgain(p)
  <2>1. actor[p].row.monitor \in Monitors /\ actor[p].scoped \in BOOLEAN
    BY <1>a DEF Actor, AlertRow
  <2>2. PICK X \in Actor : actor' = [actor EXCEPT ![p] = X] /\ X.pc \in {"idle", "resolve"}
    BY <2>1, <1>7, <1>a, PickActiveReads DEF RecoverAgain
  <2>3. UNCHANGED esc
    BY <1>7 DEF RecoverAgain, tables
  <2> QED BY <2>2, <2>3, <1>b, <1>c, ReadsClimb
<1> QED BY <1>1, <1>2, <1>3, <1>4, <1>5, <1>6, <1>7 DEF Work, TriggerStep, RecoverStep

\* Only handlers that are not notifying can be cancelled.
LEMMA CancelledClimbs ==
  ASSUME IInv, LadderInv, NEW p \in Handlers, Cancelled(p) PROVE LadderInv'
<1>1. ASSUME NEW msg \in Message, Lose(p, msg) PROVE LadderInv'
  <2>1. Unscoped'
    BY <1>1, ReceiveUnscoped DEF Lose, LadderInv
  <2> QED BY <1>1, <2>1, OutsideLadder DEF Lose, tables, history
<1>2. CASE Abandon(p)
  <2>1. actor[p].pc \notin Notifying
    BY <1>2 DEF Abandon, LadderInv, QuietHandler
  <2>2. /\ Return(p) /\ UNCHANGED <<esc, inbox, paged, silenced>>
    BY <1>2, <2>1 DEF Abandon, history, Notifying
  <2>3. actor' = [actor EXCEPT ![p] = Idle] /\ Idle \in Actor /\ Idle.pc = "idle"
    BY <2>2, IdleActor DEF Return, Idle
  <2>4. Unscoped'
    BY <2>2 DEF LadderInv, Unscoped
  <2> QED BY <2>1, <2>2, <2>3, <2>4, ReadsClimb
<1> QED BY <1>1, <1>2 DEF Cancelled

---------------------------------------------------------------------------
(***************************************************************************)
(* notifyStep and the tick loop.                                           *)
(***************************************************************************)
\* A handler goes on to page the first step, or is done with it.
LEMMA HandlerNotifies ==
  ASSUME IInv, LadderInv, NEW p \in Handlers, NEW X \in Actor,
         actor' = [actor EXCEPT ![p] = X], actor[p].pc \in Notifying,
         paged \subseteq paged', silenced \subseteq silenced', inbox' = inbox,
         \/ /\ X.pc = "page" /\ X.alert = actor[p].alert /\ X.st = actor[p].st
            /\ X.scoped = actor[p].scoped
         \/ X = Idle /\ <<actor[p].alert, actor[p].st.step>> \in paged' \cup silenced',
         paged' \subseteq paged \cup {<<actor[p].alert, actor[p].st.step>>},
         \A a \in Alerts : \/ esc'[a].step = esc[a].step
                           \/ /\ <<a, esc'[a].step>> \in paged'
                              /\ esc'[a].step = actor[p].st.step
  PROVE  LadderInv'
<1>a. p \in Actors /\ Ticker \in Actors /\ p # Ticker /\ QuietHandler(p)
  BY DEF Actors, LadderInv
<1>b. actor'[p] = X /\ \A q \in Actors \ {p} : actor'[q] = actor[q]
  BY <1>a DEF IInv, TypeOK
<1>c. ASSUME NEW a, NEW s, Covered(a, s) PROVE Covered(a, s)'
  <2>1. CASE <<a, s>> \in paged \cup silenced
    BY <2>1 DEF Covered
  <2>2. CASE NotYetNotified(a, s)
    <3>1. PICK q \in Handlers : /\ actor[q].pc \in Notifying
                                /\ actor[q].alert = a /\ actor[q].st.step = s
      BY <2>2 DEF NotYetNotified, Notifying
    <3>2. CASE q = p
      BY <3>1, <3>2, <1>b DEF Covered, NotYetNotified
    <3>3. CASE q # p
      BY <3>1, <3>3, <1>b DEF Actors, Covered, NotYetNotified, Notifying
    <3> QED BY <3>2, <3>3
  <2> QED BY <1>c, <2>1, <2>2 DEF Covered
<1>d. actor[p].st.step = 1
  BY <1>a DEF QuietHandler
<1>1. \A q \in Handlers : QuietHandler(q)'
  BY <1>a, <1>b DEF LadderInv, QuietHandler, Actors, Idle, Notifying
<1>2. ASSUME NEW a \in Alerts PROVE Reached(a)'
  <2>1. CASE esc'[a].step = esc[a].step
    <3>1. Entering(a) => Entering(a)'
      BY <2>1, <1>a, <1>b DEF Entering
    <3> QED BY <2>1, <3>1, <1>c DEF LadderInv, Reached
  <2>2. CASE <<a, esc'[a].step>> \in paged' /\ esc'[a].step = 1
    BY <2>2 DEF Reached, Covered
  <2> QED BY <2>1, <2>2, <1>d
<1>3. TickerReached'
  BY <1>a, <1>b, <1>c DEF LadderInv, TickerReached
<1>4. NoStepSkipped'
  BY <1>c, <1>d DEF LadderInv, NoStepSkipped, Covered
<1>5. Unscoped'
  BY DEF LadderInv, Unscoped
<1> QED BY <1>1, <1>2, <1>3, <1>4, <1>5 DEF LadderInv

\* The tick loop holds step s of alert a.
Holding(a, s) ==
  /\ actor[Ticker].pc \in {"save", "moveAlert"} \cup Notifying
  /\ actor[Ticker].alert = a /\ actor[Ticker].st.step = s

\* The tick loop moves, and stores or pages at most the step it holds.
LEMMA TickerMoves ==
  ASSUME IInv, LadderInv, NEW X \in Actor, actor' = [actor EXCEPT ![Ticker] = X],
         paged \subseteq paged', silenced \subseteq silenced', inbox' = inbox,
         \A a \in Alerts :
           \/ /\ esc'[a].step = esc[a].step
              /\ Entering(a) => \/ Entering(a)'
                                \/ <<a, esc[a].step>> \in paged' \cup silenced'
           \/ /\ Holding(a, esc'[a].step)
              /\ Entering(a)' \/ <<a, esc'[a].step>> \in paged',
         X.pc \in {"save", "moveAlert"} \cup Notifying /\ X.st.step > 1
           => Covered(X.alert, X.st.step - 1),
         \A a \in Alerts, s \in Steps : <<a, s>> \in paged' \ paged => Holding(a, s)
  PROVE  LadderInv'
<1>b. actor'[Ticker] = X /\ \A q \in Handlers : actor'[q] = actor[q]
  BY DEF IInv, TypeOK, Actors
<1>c. ASSUME NEW a, NEW s, Covered(a, s) PROVE Covered(a, s)'
  BY <1>b, <1>c DEF Covered, NotYetNotified
<1>d. ASSUME NEW a, NEW s, Holding(a, s), s > 1 PROVE Covered(a, s - 1)
  BY <1>d DEF Holding, LadderInv, TickerReached
<1>1. \A q \in Handlers : QuietHandler(q)'
  BY <1>b DEF LadderInv, QuietHandler
<1>2. ASSUME NEW a \in Alerts PROVE Reached(a)'
  <2>1. CASE /\ esc'[a].step = esc[a].step
             /\ Entering(a) => \/ Entering(a)'
                               \/ <<a, esc[a].step>> \in paged' \cup silenced'
    <3>1. esc[a].step # 0 => Covered(a, esc[a].step)' \/ Entering(a)'
      BY <2>1, <1>c DEF LadderInv, Reached, Covered
    <3> QED BY <2>1, <3>1, <1>c DEF LadderInv, Reached, Covered
  <2>2. CASE /\ Holding(a, esc'[a].step)
             /\ Entering(a)' \/ <<a, esc'[a].step>> \in paged'
    <3>1. esc'[a].step > 1 => Covered(a, esc'[a].step - 1)
      BY <2>2, <1>d
    <3> QED BY <2>2, <3>1, <1>c DEF Reached, Covered
  <2> QED BY <2>1, <2>2
<1>3. TickerReached'
  BY <1>b, <1>c DEF TickerReached
<1>4. NoStepSkipped'
  BY <1>c, <1>d DEF LadderInv, NoStepSkipped, Covered
<1>5. Unscoped'
  BY DEF LadderInv, Unscoped
<1> QED BY <1>1, <1>2, <1>3, <1>4, <1>5 DEF LadderInv

LEMMA NotifyClimbs ==
  ASSUME IInv, LadderInv, NEW p \in Actors, NotifyStep(p) PROVE LadderInv'
<1> DEFINE target == <<actor[p].alert, actor[p].st.step>>
<1>a. actor[p] \in Actor /\ actor[p].pc \in Notifying /\ inbox' = inbox
  BY DEF NotifyStep, NotifyWindow, NotifyPage, IInv, TypeOK, Notifying
<1>b. ASSUME Return(p) PROVE actor' = [actor EXCEPT ![p] = Idle]
  BY <1>b DEF Return
<1>i. Idle \in Actor /\ Idle.pc = "idle"
  BY IdleActor DEF Idle
<1>c. CASE /\ Return(p) /\ silenced' = silenced \cup {target}
           /\ UNCHANGED <<esc, paged>>
  <2>1. CASE p \in Handlers
    BY <2>1, <1>a, <1>b, <1>c, <1>i, HandlerNotifies
  <2>2. CASE p = Ticker
    <3>1. \A a \in Alerts : Entering(a) => <<a, esc[a].step>> \in paged' \cup silenced'
      BY <2>2, <1>c DEF Entering
    <3> QED BY <2>2, <3>1, <1>a, <1>b, <1>c, <1>i, TickerMoves DEF Notifying
  <2> QED BY <2>1, <2>2 DEF Actors
<1>d. CASE Goto(p, "page") /\ UNCHANGED <<esc, paged, silenced>>
  <2> DEFINE X == [actor[p] EXCEPT !.pc = "page"]
  <2>0. "page" \in PCs /\ TypeOK
    BY DEF PCs, IInv
  <2>1. actor' = [actor EXCEPT ![p] = X] /\ X \in Actor /\ actor'[p] = X
    BY <2>0, <1>a, <1>d, GotoMoves
  <2>2. /\ X.pc = "page" /\ X.alert = actor[p].alert /\ X.st = actor[p].st
        /\ X.scoped = actor[p].scoped
    BY <1>a DEF Actor
  <2> HIDE DEF X
  <2>3. CASE p \in Handlers
    BY <2>1, <2>2, <2>3, <1>a, <1>d, HandlerNotifies
  <2>4. CASE p = Ticker
    <3>1. \A a \in Alerts : Entering(a) => Entering(a)'
      BY <2>1, <2>2, <2>4, <1>a, <1>d DEF Entering, Notifying
    <3>2. X.st.step > 1 => Covered(X.alert, X.st.step - 1)
      BY <2>2, <2>4, <1>a DEF LadderInv, TickerReached
    <3> QED BY <2>1, <2>4, <3>1, <3>2, <1>a, <1>d, TickerMoves
  <2> QED BY <2>3, <2>4 DEF Actors
<1>1. CASE NotifyWindow(p)
  BY <1>1, <1>c, <1>d DEF NotifyWindow, tables
<1>2. CASE NotifyPage(p)
  <2>1. /\ Return(p) /\ paged' = paged \cup {target} /\ silenced' = silenced
        /\ esc' = [esc EXCEPT ![actor[p].alert] = actor[p].st]
    BY <1>2 DEF NotifyPage, UpsertEscalationState
  <2>2. \A a \in Alerts :
          \/ a # actor[p].alert /\ esc'[a].step = esc[a].step
          \/ a = actor[p].alert /\ esc'[a].step = actor[p].st.step
    BY <2>1 DEF IInv, TypeOK
  <2>3. CASE p \in Handlers
    <3>1. \A a \in Alerts : \/ esc'[a].step = esc[a].step
                            \/ /\ <<a, esc'[a].step>> \in paged'
                               /\ esc'[a].step = actor[p].st.step
      BY <2>1, <2>2
    <3>2. target \in paged'
      BY <2>1
    <3>3. actor' = [actor EXCEPT ![p] = Idle] /\ actor[p].pc \in Notifying
      BY <2>1, <1>a, <1>b
    <3> QED BY <2>1, <2>3, <3>1, <3>2, <3>3, <1>a, <1>i, HandlerNotifies
  <2>4. CASE p = Ticker
    <3>1. ASSUME NEW a \in Alerts
          PROVE  \/ /\ esc'[a].step = esc[a].step
                    /\ Entering(a) => <<a, esc[a].step>> \in paged'
                 \/ Holding(a, esc'[a].step) /\ <<a, esc'[a].step>> \in paged'
      BY <2>1, <2>2, <2>4, <1>a DEF Entering, Holding
    <3>2. \A a \in Alerts, s \in Steps : <<a, s>> \in paged' \ paged => Holding(a, s)
      BY <2>1, <2>4, <1>a DEF Holding
    <3> QED BY <2>1, <2>4, <3>1, <3>2, <1>a, <1>b, <1>i, TickerMoves DEF Notifying
  <2> QED BY <2>3, <2>4 DEF Actors
<1> QED BY <1>1, <1>2 DEF NotifyStep

LEMMA TickClimbs ==
  ASSUME IInv, LadderInv, TickStep PROVE LadderInv'
<1>a. Ticker \in Actors /\ actor[Ticker] \in Actor /\ TypeOK
  BY DEF Actors, IInv, TypeOK
<1>b. UNCHANGED <<inbox, paged, silenced>>
  BY DEF TickStep, TickList, TickNext, TickSave, TickMoveAlert, history
<1>q. CASE UNCHANGED <<actor, esc>>
  BY <1>b, <1>q, OutsideLadder DEF LadderInv, Unscoped
<1>1. CASE TickList
  BY <1>1, <1>q DEF TickList, tables
<1>2. ASSUME NEW entry \in todo, TickNext(entry) PROVE LadderInv'
  <2> DEFINE st == esc[entry.id]
  <2>1. /\ entry.id \in Alerts /\ entry.row \in AlertRow /\ st \in EscalationRow
        /\ WithinPolicy(st)
    BY DEF IInv, TypeOK, EscalationBounded
  <2>2. actor[Ticker].pc = "idle" /\ UNCHANGED esc
    BY <1>2 DEF TickNext, tables
  <2>3. Due(st) => /\ Covered(entry.id, st.step)
                   /\ st.step > 1 => Covered(entry.id, st.step - 1)
    BY <2>1, <2>2 DEF Due, LadderInv, Reached, Entering, Notifying
  <2>4. ASSUME NEW new \in EscalationRow, TickTake(entry, new),
               new.step > 1 => Covered(entry.id, new.step - 1)
        PROVE  LadderInv'
    <3> DEFINE X == [Idle EXCEPT !.pc = "save", !.alert = entry.id, !.row = entry.row,
                                 !.st = new]
    <3>1. actor' = [actor EXCEPT ![Ticker] = X]
      BY <2>4 DEF TickTake
    <3>2. X \in Actor /\ X.alert = entry.id /\ X.st = new
      BY <2>1, IdleActor DEF Actor, PCs, Idle
    <3> HIDE DEF X
    <3>3. \A a \in Alerts : ~Entering(a)
      BY <2>2 DEF Entering, Notifying
    <3> QED BY <2>2, <2>4, <3>1, <3>2, <3>3, <1>b, TickerMoves
  <2>5. CASE Due(st) /\ CanRetry(st) /\ TickTake(entry, Retry(st))
    <3>1. Retry(st) \in EscalationRow /\ Retry(st).step = st.step
      BY <2>1, <2>5, NextEntrySound DEF Due, Retry
    <3> QED BY <3>1, <2>3, <2>4, <2>5
  <2>6. CASE Due(st) /\ CanAdvance(st) /\ TickTake(entry, Advance(st))
    <3>1. Advance(st) \in EscalationRow /\ Advance(st).step = st.step + 1
      BY <2>1, <2>6, NextEntrySound DEF Due, Advance, Entry
    <3>2. Advance(st).step - 1 = st.step
      BY <2>1, <3>1 DEF EscalationRow, Steps
    <3> QED BY <3>1, <3>2, <2>3, <2>4, <2>6
  <2>7. CASE Due(st) /\ CanLoop(st) /\ TickTake(entry, Restart(st))
    <3>1. Restart(st) \in EscalationRow /\ Restart(st).step = 1
      BY <2>1, <2>7, NextEntrySound DEF Due, Restart, Entry
    <3> QED BY <3>1, <2>4, <2>7
  <2> QED BY <1>2, <2>2, <2>5, <2>6, <2>7, <1>q DEF TickNext
<1>3. CASE TickSave
  <2>1. PICK pc \in {"window", "moveAlert"} : Goto(Ticker, pc)
    BY <1>3 DEF TickSave
  <2>2. /\ actor[Ticker].pc = "save"
        /\ esc' = [esc EXCEPT ![actor[Ticker].alert] = actor[Ticker].st]
    BY <1>3 DEF TickSave, UpsertEscalationState
  <2> DEFINE X == [actor[Ticker] EXCEPT !.pc = pc]
  <2>3. pc \in PCs
    BY DEF PCs
  <2>4. actor' = [actor EXCEPT ![Ticker] = X] /\ X \in Actor /\ actor'[Ticker] = X
    BY <2>1, <2>3, <1>a, GotoMoves
  <2>5. X.pc = pc /\ X.alert = actor[Ticker].alert /\ X.st = actor[Ticker].st
    BY <1>a DEF Actor
  <2> HIDE DEF X
  <2>6. ASSUME NEW a \in Alerts
        PROVE  \/ esc'[a].step = esc[a].step /\ ~Entering(a)
               \/ Holding(a, esc'[a].step) /\ Entering(a)'
    <3>1. CASE a = actor[Ticker].alert
      BY <3>1, <2>2, <2>4, <2>5, <1>a DEF TypeOK, Holding, Entering, Notifying
    <3>2. CASE a # actor[Ticker].alert
      BY <3>2, <2>2, <1>a DEF TypeOK, Entering
    <3> QED BY <3>1, <3>2
  <2>7. X.st.step > 1 => Covered(X.alert, X.st.step - 1)
    BY <2>2, <2>5 DEF LadderInv, TickerReached
  <2> QED BY <2>4, <2>6, <2>7, <1>b, TickerMoves
<1>4. CASE TickMoveAlert
  <2> DEFINE row == [actor[Ticker].row EXCEPT !.step = actor[Ticker].st.step]
             X   == [actor[Ticker] EXCEPT !.pc = "window", !.row = row]
  <2>1. row \in AlertRow
    BY <1>a, StepEdit DEF Actor, EscalationRow
  <2>2. /\ actor' = [actor EXCEPT ![Ticker] = X] /\ UNCHANGED esc
        /\ actor[Ticker].pc = "moveAlert"
    BY <1>4, <1>a DEF TickMoveAlert, TypeOK
  <2> HIDE DEF row
  <2>3. /\ X \in Actor /\ X.pc = "window"
        /\ X.alert = actor[Ticker].alert /\ X.st = actor[Ticker].st
    BY <2>1, <1>a DEF Actor, PCs
  <2>4. actor'[Ticker] = X
    BY <2>2, <1>a DEF TypeOK
  <2> HIDE DEF X
  <2>5. \A a \in Alerts : Entering(a) => Entering(a)'
    BY <2>2, <2>3, <2>4 DEF Entering, Notifying
  <2>6. X.st.step > 1 => Covered(X.alert, X.st.step - 1)
    BY <2>2, <2>3 DEF LadderInv, TickerReached
  <2> QED BY <2>2, <2>3, <2>5, <2>6, <1>b, TickerMoves
<1> QED BY <1>1, <1>2, <1>3, <1>4 DEF TickStep

---------------------------------------------------------------------------
LEMMA LadderStep ==
  ASSUME FromChecks, IInv, LadderInv, [Next]_vars PROVE LadderInv'
<1>1. CASE \E p \in Handlers : Deliver(p) \/ Requests(p) \/ Work(p) \/ Cancelled(p)
  BY <1>1, DeliverClimbs, RequestsClimb, WorkClimbs, CancelledClimbs
<1>2. CASE \E p \in Actors : NotifyStep(p)
  BY <1>2, NotifyClimbs
<1>3. CASE TickStep
  BY <1>3, TickClimbs
<1>4. CASE Environment
  BY <1>4, EnvironmentClimbs
<1>5. CASE UNCHANGED vars
  BY <1>5, OutsideLadder DEF vars, LadderInv, Unscoped
<1> QED BY <1>1, <1>2, <1>3, <1>4, <1>5 DEF Next

\* Nobody is paged for a step of the policy before the step below it was
\* notified or silenced, or is being notified by the handler that raised the
\* alert: whatever the tick loop, stale writes and late handlers do to the
\* stored state, as long as nothing crashes and triggers come from checks.
THEOREM NoneSkipped == FromChecks => (Spec => []NoStepSkipped)
<1> SUFFICES ASSUME FromChecks PROVE Spec => []NoStepSkipped
  OBVIOUS
<1>1. IInv /\ LadderInv /\ [Next]_vars => LadderInv'
  BY LadderStep
<1>2. LadderInv => NoStepSkipped
  BY DEF LadderInv
<1> QED BY <1>1, <1>2, LadderStarts, InvariantHolds, PTL DEF Spec
=============================================================================
