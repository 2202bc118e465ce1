---------------------------- MODULE Escalation ----------------------------
(***************************************************************************)
(* The escalation engine (internal/escalation/engine.go) and everyone else *)
(* who writes alert rows: the alert endpoints of the HTTP API and the      *)
(* CloudEvent reply handlers.                                              *)
(*                                                                         *)
(* The bus runs every delivery in a goroutine of its own, the API serves   *)
(* every request in one, and the engine's tick loop is another: they       *)
(* interleave at the granularity of one SQL statement and carry copies of  *)
(* rows from one statement to the next.  An actor is such a goroutine; its *)
(* copies are row (the *domain.Alert) and st (the *AlertEscalationState).  *)
(*                                                                         *)
(* A message carries the context it was published with.  The scheduler's   *)
(* lives as long as the process; that of an HTTP request is cancelled as   *)
(* soon as the request is answered, after which every statement of the     *)
(* goroutine that handles the message fails.                               *)
(***************************************************************************)
EXTENDS AlertStore, FiniteSets

CONSTANTS
  Handlers,            \* goroutines that deliver bus messages or serve requests
  Ticker,              \* the goroutine of tickLoop
  NoAlert,             \* an actor that has no alert id yet
  PolicyMonitors,      \* monitors with an escalation policy that has steps
  AutoResolveMonitors, \* monitors with auto_resolve
  IntegrationMonitors, \* monitors with an integration key for the events API
  Loop,                \* policy.Loop
  MaxPublished,        \* bound: messages put on the bus
  MaxRequests,         \* bound: API requests and replies
  MaxToggles,          \* bound: changes of mute flags and maintenance windows
  MaxCrashes           \* bound: crashes of the process

ASSUME EscalationAssumption ==
  /\ Ticker \notin Handlers
  /\ NoAlert \notin Alerts
  /\ PolicyMonitors \subseteq Monitors
  /\ AutoResolveMonitors \subseteq Monitors
  /\ IntegrationMonitors \subseteq Monitors
  /\ Loop \in BOOLEAN
  /\ MaxPublished \in Nat /\ MaxRequests \in Nat
  /\ MaxToggles \in Nat /\ MaxCrashes \in Nat

VARIABLES
  alerts,     \* table alerts
  esc,        \* table alert_escalation_state
  muted,      \* monitors whose muted flag is set
  silent,     \* monitors inside a maintenance window with suppress_alerts
  health,     \* what the checks say of each monitor
  inbox,      \* how many copies of each bus message await delivery
  actor,      \* the goroutines: program counter and local copies
  todo,       \* rows listed by the current pass of processFiringAlerts
  paged,      \* history: <<alert, step>> whose notifications were published
  silenced,   \* history: <<alert, step>> suppressed by a maintenance window
  bornMuted,  \* history: alerts created while their monitor was muted
  published, requests, toggles, crashes   \* what the bounds count

tables  == <<alerts, esc>>
history == <<paged, silenced, bornMuted>>
vars == <<alerts, esc, muted, silent, health, inbox, actor, todo, paged,
          silenced, bornMuted, published, requests, toggles, crashes>>

\* scoped: the message was published with the context of an HTTP request.
Message ==
  [type : {"trigger", "recover"}, about : Monitors, scoped : BOOLEAN]
    \cup [type : {"ack"}, about : Alerts, scoped : {TRUE}]

TriggerMsg(m, scoped) == [type |-> "trigger", about |-> m, scoped |-> scoped]
RecoverMsg(m, scoped) == [type |-> "recover", about |-> m, scoped |-> scoped]
AckMsg(a)             == [type |-> "ack", about |-> a, scoped |-> TRUE]

(***************************************************************************)
(* Program counters name the statement that is next:                       *)
(*   handleTrigger         create, attach, enter                           *)
(*   handleRecover         resolve, cleanup, again                         *)
(*   Ack, Resolve, replies write                                           *)
(*   processFiringAlerts   save, moveAlert                                 *)
(*   notifyStep            window, page (both callers)                     *)
(***************************************************************************)
PCs == {"idle", "create", "attach", "enter", "resolve", "cleanup", "again",
        "write", "save", "moveAlert", "window", "page"}

Actors == Handlers \cup {Ticker}

AnyMonitor == CHOOSE m \in Monitors : TRUE
NoRow      == [monitor |-> AnyMonitor, status |-> "none", step |-> 0]

Actor == [pc : PCs, alert : Alerts \cup {NoAlert}, row : AlertRow,
          st : EscalationRow, muted : BOOLEAN, scoped : BOOLEAN]

Idle == [pc |-> "idle", alert |-> NoAlert, row |-> NoRow, st |-> NoEscalation,
         muted |-> FALSE, scoped |-> FALSE]

TypeOK ==
  /\ alerts \in [Alerts -> AlertRow]
  /\ esc \in [Alerts -> EscalationRow]
  /\ muted \subseteq Monitors
  /\ silent \subseteq Monitors
  /\ health \in [Monitors -> {"up", "down"}]
  /\ inbox \in [Message -> Nat]
  /\ actor \in [Actors -> Actor]
  /\ todo \subseteq [id : Alerts, row : AlertRow]
  /\ paged \subseteq Alerts \X Steps
  /\ silenced \subseteq Alerts \X Steps
  /\ bornMuted \subseteq Alerts
  /\ published \in Nat /\ requests \in Nat /\ toggles \in Nat /\ crashes \in Nat

Init ==
  /\ alerts = [a \in Alerts |-> NoRow]
  /\ esc = [a \in Alerts |-> NoEscalation]
  /\ muted \in SUBSET Monitors
  /\ silent = {}
  /\ health = [m \in Monitors |-> "up"]
  /\ inbox = [msg \in Message |-> 0]
  /\ actor = [p \in Actors |-> Idle]
  /\ todo = {}
  /\ paged = {} /\ silenced = {} /\ bornMuted = {}
  /\ published = 0 /\ requests = 0 /\ toggles = 0 /\ crashes = 0

---------------------------------------------------------------------------
(***************************************************************************)
(* The bus and its publishers.  Deliveries are unordered: each runs in a   *)
(* fresh goroutine.  A handler's error is dropped, never redelivered.      *)
(***************************************************************************)
Publish(msg) ==
  /\ published < MaxPublished
  /\ published' = published + 1
  /\ inbox' = [inbox EXCEPT ![msg] = @ + 1]
  /\ UNCHANGED <<tables, muted, silent, actor, todo, history, requests, toggles, crashes>>

\* A check fails, or gets worse (degraded to down publishes a second trigger).
CheckFails(m) ==
  /\ health' = [health EXCEPT ![m] = "down"]
  /\ Publish(TriggerMsg(m, FALSE))

\* Trigger on the events API, whatever the checks say.
PostTrigger(m) ==
  /\ m \in IntegrationMonitors
  /\ Publish(TriggerMsg(m, TRUE))
  /\ UNCHANGED health

\* A check passes again.
CheckRecovers(m) ==
  /\ health[m] = "down"
  /\ health' = [health EXCEPT ![m] = "up"]
  /\ Publish(RecoverMsg(m, FALSE))

\* The acknowledge button of a chat message, or acknowledge on the events API.
PressAck(a) ==
  /\ Exists(alerts, a)
  /\ Publish(AckMsg(a))
  /\ UNCHANGED health

\* The resolve button of a chat message, or resolve on the events API: it
\* names an alert and publishes a recovery of that alert's monitor.
PressResolve(a) ==
  /\ Exists(alerts, a)
  /\ Publish(RecoverMsg(alerts[a].monitor, TRUE))
  /\ UNCHANGED health

Receive(p, msg) ==
  /\ p \in Handlers
  /\ actor[p].pc = "idle"
  /\ inbox[msg] > 0
  /\ inbox' = [inbox EXCEPT ![msg] = @ - 1]

---------------------------------------------------------------------------
(***************************************************************************)
(* What every statement of a goroutine leaves alone.                       *)
(***************************************************************************)
env == <<muted, silent, health, published, toggles, crashes>>

Goto(p, pc) == actor' = [actor EXCEPT ![p].pc = pc]
Return(p)   == actor' = [actor EXCEPT ![p] = Idle]

(***************************************************************************)
(* handleTrigger: look for an active alert, create one, start escalation.  *)
(***************************************************************************)
TriggerLookup(p, m, scoped) ==
  /\ Receive(p, TriggerMsg(m, scoped))
  /\ IF GetActiveByMonitor(alerts, m) # {}
     THEN UNCHANGED actor
     ELSE actor' = [actor EXCEPT ![p] =
            [Idle EXCEPT !.pc = "create",
                         !.row = [monitor |-> m, status |-> "firing", step |-> 0],
                         !.muted = m \in muted, !.scoped = scoped]]
  /\ UNCHANGED <<tables, env, todo, history, requests>>

\* A muted monitor, or one without a policy, has its alert recorded and no more.
BugStartsEscalation(p) == actor[p].row.monitor \in PolicyMonitors
StartsEscalation(p) ==
  ~actor[p].muted /\ actor[p].row.monitor \in PolicyMonitors

\* Create fails on the unique index when another alert got there first.
TriggerCreate(p, a) ==
  LET row == actor[p].row IN
  /\ actor[p].pc = "create"
  /\ ~Exists(alerts, a)
  /\ \/ /\ ~IndexAllows(alerts, a, row)
        /\ Return(p)
        /\ UNCHANGED <<alerts, bornMuted>>
     \/ /\ IndexAllows(alerts, a, row)
        /\ alerts' = [alerts EXCEPT ![a] = row]
        /\ bornMuted' = IF actor[p].muted THEN bornMuted \cup {a} ELSE bornMuted
        /\ IF StartsEscalation(p)
           THEN actor' = [actor EXCEPT ![p].pc = "attach", ![p].alert = a]
           ELSE Return(p)
  /\ UNCHANGED <<esc, env, inbox, todo, paged, silenced, requests>>

\* Update of current_escalation_step with the copy made at creation; the
\* error of a conflict is ignored.
TriggerAttach(p) ==
  LET row == [actor[p].row EXCEPT !.step = 1] IN
  /\ actor[p].pc = "attach"
  /\ alerts' = UpdateAlert(alerts, actor[p].alert, row)
  /\ actor' = [actor EXCEPT ![p].pc = "enter", ![p].row = row]
  /\ UNCHANGED <<esc, env, inbox, todo, history, requests>>

\* The state on entry to a step: retry_count is reset, the wait begins.
Entry(step, loops) == [step |-> step, retry |-> 0, loops |-> loops, elapsed |-> FALSE]

FirstEntry == Entry(1, 0)

TriggerEnter(p) ==
  /\ actor[p].pc = "enter"
  /\ esc' = UpsertEscalationState(esc, actor[p].alert, FirstEntry)
  /\ actor' = [actor EXCEPT ![p].pc = "window", ![p].st = FirstEntry]
  /\ UNCHANGED <<alerts, env, inbox, todo, history, requests>>

---------------------------------------------------------------------------
(***************************************************************************)
(* handleRecover, and autoResolveAlerts, which runs the same three         *)
(* statements until no active alert of the monitor is left.                *)
(***************************************************************************)
PickActive(p, m, scoped) ==
  IF GetActiveByMonitor(alerts, m) = {}
  THEN Return(p)
  ELSE \E a \in GetActiveByMonitor(alerts, m) :
         actor' = [actor EXCEPT ![p] =
           [Idle EXCEPT !.pc = "resolve", !.alert = a,
                        !.row = [alerts[a] EXCEPT !.status = "resolved"],
                        !.scoped = scoped]]

RecoverLookup(p, m, scoped) ==
  /\ Receive(p, RecoverMsg(m, scoped))
  /\ PickActive(p, m, scoped)
  /\ UNCHANGED <<tables, env, todo, history, requests>>

RecoverResolve(p) ==
  /\ actor[p].pc = "resolve"
  /\ alerts' = UpdateAlert(alerts, actor[p].alert, actor[p].row)
  /\ IF UpdateOK(alerts, actor[p].alert, actor[p].row)
     THEN Goto(p, "cleanup") ELSE Return(p)
  /\ UNCHANGED <<esc, env, inbox, todo, history, requests>>

RecoverCleanup(p) ==
  /\ actor[p].pc = "cleanup"
  /\ esc' = DeleteEscalationState(esc, actor[p].alert)
  /\ IF actor[p].row.monitor \in AutoResolveMonitors
     THEN Goto(p, "again") ELSE Return(p)
  /\ UNCHANGED <<alerts, env, inbox, todo, history, requests>>

RecoverAgain(p) ==
  /\ actor[p].pc = "again"
  /\ PickActive(p, actor[p].row.monitor, actor[p].scoped)
  /\ UNCHANGED <<tables, env, inbox, todo, history, requests>>

---------------------------------------------------------------------------
(***************************************************************************)
(* Writers that read one alert, change the copy and write it all back.     *)
(***************************************************************************)
ReadForWrite(p, a, row) ==
  actor' = [actor EXCEPT ![p] =
    [Idle EXCEPT !.pc = "write", !.alert = a, !.row = row, !.scoped = TRUE]]

\* handleAck: a resolved alert is left alone.
AckLookup(p, a) ==
  /\ Receive(p, AckMsg(a))
  /\ IF ~IsActive(alerts[a])
     THEN UNCHANGED actor
     ELSE ReadForWrite(p, a, [alerts[a] EXCEPT !.status = "acknowledged"])
  /\ UNCHANGED <<tables, env, todo, history, requests>>

Request(p, a) ==
  /\ p \in Handlers
  /\ actor[p].pc = "idle"
  /\ Exists(alerts, a)
  /\ requests < MaxRequests
  /\ requests' = requests + 1
  /\ UNCHANGED <<esc, env, inbox, todo, history>>

\* POST /alerts/{id}/ack: unlike handleAck, no test for a resolved alert.
ApiAck(p, a) ==
  /\ Request(p, a)
  /\ ReadForWrite(p, a, [alerts[a] EXCEPT !.status = "acknowledged"])
  /\ UNCHANGED alerts

\* POST /alerts/{id}/resolve; the escalation state is not deleted.
ApiResolve(p, a) ==
  /\ Request(p, a)
  /\ ReadForWrite(p, a, [alerts[a] EXCEPT !.status = "resolved"])
  /\ UNCHANGED alerts

\* Reply "remediation result": success resolves an alert whose latest check is up.
ReplyRemediation(p, a) ==
  /\ Request(p, a)
  /\ IsActive(alerts[a])
  /\ health[alerts[a].monitor] = "up"
  /\ ReadForWrite(p, a, [alerts[a] EXCEPT !.status = "resolved"])
  /\ UNCHANGED alerts

\* Reply "escalated": moves the alert row, not the engine's escalation state.
\* step_index 0 means "not given" (the reply only raises the severity), so
\* the first step cannot be chosen.
ReplyEscalated(p, a, s) ==
  /\ Request(p, a)
  /\ s # 1 /\ (s # 0 => alerts[a].monitor \in PolicyMonitors)
  /\ ReadForWrite(p, a, [alerts[a] EXCEPT !.step = IF s = 0 THEN @ ELSE s])
  /\ UNCHANGED alerts

\* Reply "ack with context": one statement.
ReplyAck(p, a) ==
  /\ Request(p, a)
  /\ alerts' = AckWithContext(alerts, a)
  /\ UNCHANGED actor

WriteAlert(p) ==
  /\ actor[p].pc = "write"
  /\ alerts' = UpdateAlert(alerts, actor[p].alert, actor[p].row)
  /\ Return(p)
  /\ UNCHANGED <<esc, env, inbox, todo, history, requests>>

---------------------------------------------------------------------------
(***************************************************************************)
(* processFiringAlerts.  The pass lists the firing rows once and then      *)
(* works on those copies, one alert after the other.                       *)
(***************************************************************************)
TickList ==
  /\ actor[Ticker].pc = "idle"
  /\ todo = {}
  /\ todo' = ListFiring(alerts)
  /\ UNCHANGED <<tables, env, inbox, actor, history, requests>>

\* What becomes of an escalation state whose wait has elapsed.
BugCanRetry(st)   == st.retry <= RepeatCount[st.step]
CanRetry(st)      == st.retry < RepeatCount[st.step]

CanAdvance(st)    == st.step < NumSteps

CanLoop(st) == Loop /\ st.loops < MaxLoops

Retry(st) == [step |-> st.step, retry |-> st.retry + 1, loops |-> st.loops, elapsed |-> FALSE]

BugAdvance(st) == Entry(NumSteps, st.loops)
Advance(st)    == Entry(st.step + 1, st.loops)

BugRestart(st) == Entry(1, st.loops)
Restart(st)    == Entry(1, st.loops + 1)

\* The end of the policy: the alert stays firing and nothing more is sent.
Exhausted(st) == ~CanRetry(st) /\ ~CanAdvance(st) /\ ~CanLoop(st)

Due(st) == st.step # 0 /\ st.elapsed

TickTake(entry, st) ==
  actor' = [actor EXCEPT ![Ticker] =
    [Idle EXCEPT !.pc = "save", !.alert = entry.id, !.row = entry.row, !.st = st]]

TickNext(entry) ==
  LET st == esc[entry.id] IN
  /\ actor[Ticker].pc = "idle"
  /\ entry \in todo
  /\ todo' = todo \ {entry}
  /\ \/ Due(st) /\ CanRetry(st) /\ TickTake(entry, Retry(st))
     \/ Due(st) /\ ~CanRetry(st) /\ CanAdvance(st) /\ TickTake(entry, Advance(st))
     \/ Due(st) /\ ~CanRetry(st) /\ ~CanAdvance(st) /\ CanLoop(st)
          /\ TickTake(entry, Restart(st))
     \/ (Due(st) => Exhausted(st)) /\ UNCHANGED actor
  /\ UNCHANGED <<tables, env, inbox, history, requests>>

TickSave ==
  /\ actor[Ticker].pc = "save"
  /\ esc' = UpsertEscalationState(esc, actor[Ticker].alert, actor[Ticker].st)
  /\ IF actor[Ticker].st.retry > 0
     THEN Goto(Ticker, "window") ELSE Goto(Ticker, "moveAlert")
  /\ UNCHANGED <<alerts, env, inbox, todo, history, requests>>

\* Update of current_escalation_step with the row as it was when it was
\* listed, its status 'firing' included.
TickMoveAlert ==
  LET row == [actor[Ticker].row EXCEPT !.step = actor[Ticker].st.step] IN
  /\ actor[Ticker].pc = "moveAlert"
  /\ alerts' = UpdateAlert(alerts, actor[Ticker].alert, row)
  /\ actor' = [actor EXCEPT ![Ticker].pc = "window", ![Ticker].row = row]
  /\ UNCHANGED <<esc, env, inbox, todo, history, requests>>

---------------------------------------------------------------------------
(***************************************************************************)
(* notifyStep: nothing happens inside a suppressing maintenance window;    *)
(* otherwise the state is written again (last_notified_at) and one job per *)
(* recipient is published.                                                 *)
(***************************************************************************)
NotifyWindow(p) ==
  LET target == <<actor[p].alert, actor[p].st.step>> IN
  /\ actor[p].pc = "window"
  /\ \/ /\ actor[p].row.monitor \in silent
        /\ silenced' = silenced \cup {target}
        /\ Return(p)
     \/ /\ actor[p].row.monitor \notin silent
        /\ Goto(p, "page")
        /\ UNCHANGED silenced
  /\ UNCHANGED <<tables, env, inbox, todo, paged, bornMuted, requests>>

NotifyPage(p) ==
  /\ actor[p].pc = "page"
  /\ esc' = UpsertEscalationState(esc, actor[p].alert, actor[p].st)
  /\ paged' = paged \cup {<<actor[p].alert, actor[p].st.step>>}
  /\ Return(p)
  /\ UNCHANGED <<alerts, env, inbox, todo, silenced, bornMuted, requests>>

---------------------------------------------------------------------------
(***************************************************************************)
(* The context of the goroutine is cancelled: its next statement fails,    *)
(* and so do those whose errors it ignores.  Of notifyStep's two, the      *)
(* upsert may still have gone through.                                     *)
(***************************************************************************)
Lose(p, msg) ==
  /\ Receive(p, msg) /\ msg.scoped
  /\ UNCHANGED <<tables, env, actor, todo, history, requests>>

Abandon(p) ==
  /\ actor[p].pc # "idle" /\ actor[p].scoped
  /\ Return(p)
  /\ \/ UNCHANGED esc
     \/ /\ actor[p].pc = "page"
        /\ esc' = UpsertEscalationState(esc, actor[p].alert, actor[p].st)
  /\ UNCHANGED <<alerts, env, inbox, todo, history, requests>>

---------------------------------------------------------------------------
(***************************************************************************)
(* Time, operators and crashes.                                            *)
(***************************************************************************)
\* wait_seconds have passed since the step was entered.
WaitElapses(a) ==
  /\ esc[a].step # 0 /\ ~esc[a].elapsed
  /\ esc' = [esc EXCEPT ![a].elapsed = TRUE]
  /\ UNCHANGED <<alerts, env, inbox, actor, todo, history, requests>>

Flip(set, m) == IF m \in set THEN set \ {m} ELSE set \cup {m}

Toggle ==
  /\ toggles < MaxToggles
  /\ toggles' = toggles + 1
  /\ UNCHANGED <<tables, health, inbox, actor, todo, history, published, requests, crashes>>

\* The muted flag of the monitor is edited.
ToggleMute(m) == Toggle /\ muted' = Flip(muted, m) /\ UNCHANGED silent

\* A maintenance window of the monitor opens or closes.
ToggleWindow(m) == Toggle /\ silent' = Flip(silent, m) /\ UNCHANGED muted

\* The process dies and restarts: goroutines and the in-memory bus are gone,
\* the database is not.
Crash ==
  /\ crashes < MaxCrashes
  /\ crashes' = crashes + 1
  /\ actor' = [p \in Actors |-> Idle]
  /\ todo' = {}
  /\ inbox' = [msg \in Message |-> 0]
  /\ UNCHANGED <<tables, muted, silent, health, history, published, requests, toggles>>

---------------------------------------------------------------------------
TriggerStep(p) == (\E a \in Alerts : TriggerCreate(p, a)) \/ TriggerAttach(p) \/ TriggerEnter(p)
RecoverStep(p) == RecoverResolve(p) \/ RecoverCleanup(p) \/ RecoverAgain(p)
NotifyStep(p)  == NotifyWindow(p) \/ NotifyPage(p)
TickStep       == TickList \/ (\E entry \in todo : TickNext(entry)) \/ TickSave \/ TickMoveAlert

Work(p) == TriggerStep(p) \/ RecoverStep(p) \/ WriteAlert(p)

Deliver(p) ==
  \/ \E m \in Monitors, b \in BOOLEAN : TriggerLookup(p, m, b) \/ RecoverLookup(p, m, b)
  \/ \E a \in Alerts : AckLookup(p, a)

Cancelled(p) == Abandon(p) \/ \E msg \in Message : Lose(p, msg)

Requests(p) ==
  \E a \in Alerts :
    \/ ApiAck(p, a) \/ ApiResolve(p, a) \/ ReplyRemediation(p, a) \/ ReplyAck(p, a)
    \/ \E s \in Steps \cup {0} : ReplyEscalated(p, a, s)

Environment ==
  \/ \E m \in Monitors :
       \/ CheckFails(m) \/ CheckRecovers(m) \/ PostTrigger(m)
       \/ ToggleMute(m) \/ ToggleWindow(m)
  \/ \E a \in Alerts : PressAck(a) \/ PressResolve(a) \/ WaitElapses(a)
  \/ Crash

Next ==
  \/ \E p \in Handlers : Deliver(p) \/ Requests(p) \/ Work(p) \/ Cancelled(p)
  \/ \E p \in Actors : NotifyStep(p)
  \/ TickStep
  \/ Environment

Spec == Init /\ [][Next]_vars

(***************************************************************************)
(* The Go scheduler runs every runnable goroutine, the ticker fires every  *)
(* five seconds, and time passes.  Nothing is assumed of the outside world.*)
(***************************************************************************)
Fairness ==
  /\ \A p \in Handlers : WF_vars(Deliver(p) \/ Work(p) \/ NotifyStep(p))
  /\ WF_vars(TickStep \/ NotifyStep(Ticker))
  /\ \A a \in Alerts : WF_vars(WaitElapses(a))

FairSpec == Spec /\ Fairness

---------------------------------------------------------------------------
(***************************************************************************)
(* Properties.                                                             *)
(***************************************************************************)
\* However handlers interleave, and whatever stale rows they write back, a
\* monitor never has two alerts that are firing or acknowledged (the promise
\* of migration 005, on which GetActiveByMonitor's LIMIT 1 relies).
OneActivePerMonitor ==
  \A a, b \in Alerts :
    a # b /\ IsActive(alerts[a]) /\ IsActive(alerts[b])
      => alerts[a].monitor # alerts[b].monitor

\* A stored escalation state never claims more re-notifications than its step
\* has, nor more restarts than max_loops, although the trigger handler and the
\* tick loop overwrite it with copies read earlier.
WithinPolicy(st) ==
  st.step # 0 => st.retry <= RepeatCount[st.step] /\ st.loops <= MaxLoops

EscalationBounded == \A a \in Alerts : WithinPolicy(esc[a])

\* An alert that fired while its monitor was muted never pages anybody, also
\* when the monitor is unmuted later: processFiringAlerts does not look at
\* the muted flag and relies on the alert having no escalation state.
MutedNeverPaged == \A a \in bornMuted, s \in Steps : <<a, s>> \notin paged

\* Nobody is paged for a later step before the step below it was notified (or
\* silenced by a maintenance window), unless the handler that raised the
\* alert is still about to notify the first step.  Holds between crashes, for
\* alerts that the checks raise.
NotYetNotified(a, s) ==
  \E p \in Handlers : /\ actor[p].pc \in {"window", "page"}
                      /\ actor[p].alert = a /\ actor[p].st.step = s

NoStepSkipped ==
  \A a \in Alerts, s \in Steps :
    s > 1 /\ <<a, s>> \in paged
      => <<a, s - 1>> \in paged \cup silenced \/ NotYetNotified(a, s - 1)

\* An alert that stays firing is escalated all the way: every retry, every
\* step and every loop of the policy, also across a crash and restart.
Escalating(a) == alerts[a].status = "firing" /\ esc[a].step # 0

RunsToExhaustion ==
  \A a \in Alerts :
    Escalating(a) ~> (~Escalating(a) \/ Exhausted(esc[a]))
===========================================================================
