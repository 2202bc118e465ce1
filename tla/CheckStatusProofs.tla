-------------------------- MODULE CheckStatusProofs --------------------------
(***************************************************************************)
(* From check results to alert events, for any monitors, workers and       *)
(* bounds: types; no alarm for a target that is up, with any overlap,      *)
(* shutdown and crash; and, as long as no two workers are at work on one   *)
(* monitor and the process runs on, events that agree with the remembered  *)
(* status and one down row for each outage of a pinged monitor.            *)
(***************************************************************************)
EXTENDS CheckStatus, WellFoundedInduction, TLAPS

Pc == {"idle", "read", "seed", "write", "log", "publish"}

LEMMA Bounds ==
  ASSUME StatusAssumption
  PROVE  /\ Monitors # {} /\ Heartbeats \subseteq Monitors
         /\ NoStatus \notin Status
         /\ OldStatus \in [Monitors -> Status \cup {NoStatus}]
BY DEF StatusAssumption

LEMMA IdleState == ASSUME StatusAssumption PROVE Idle \in WorkerState /\ Idle.pc = "idle"
<1>1. (CHOOSE m \in Monitors : TRUE) \in Monitors
  BY Bounds
<1> QED BY <1>1 DEF Idle, WorkerState, Status

LEMMA StateOf ==
  ASSUME NEW r \in WorkerState
  PROVE  /\ r.pc \in Pc /\ r.monitor \in Monitors /\ r.result \in Status
         /\ r.real \in Status /\ r.at \in Nat /\ r.prev \in Status \cup {NoStatus}
BY DEF WorkerState, Pc

(***************************************************************************)
(* What each step makes of the worker that takes it.                       *)
(***************************************************************************)
\* w turns into r, the others stay as they are.
Becomes(w, r) ==
  /\ r \in WorkerState /\ worker' \in [Workers -> WorkerState]
  /\ worker'[w] = r /\ \A v \in Workers \ {w} : worker'[v] = worker[v]

LEMMA Becoming ==
  ASSUME worker \in [Workers -> WorkerState], NEW w \in Workers, NEW r \in WorkerState,
         worker' = [worker EXCEPT ![w] = r]
  PROVE  Becomes(w, r)
BY DEF Becomes

\* The same check, further on.
SameCheck(r, s) ==
  s.monitor = r.monitor /\ s.result = r.result /\ s.real = r.real /\ s.at = r.at

LEMMA Moved ==
  ASSUME NEW r \in WorkerState, NEW c \in Pc
  PROVE  LET s == [r EXCEPT !.pc = c] IN
         s \in WorkerState /\ s.pc = c /\ s.prev = r.prev /\ SameCheck(r, s)
BY DEF WorkerState, Pc, SameCheck

LEMMA MovedWith ==
  ASSUME NEW r \in WorkerState, NEW p \in Status \cup {NoStatus}, NEW c \in Pc
  PROVE  LET s == [r EXCEPT !.prev = p, !.pc = c] IN
         s \in WorkerState /\ s.pc = c /\ s.prev = p /\ SameCheck(r, s)
BY DEF WorkerState, Pc, SameCheck

\* The state of a worker that begins a check.
Fresh(r, m, res, rl, a) ==
  r.pc = "read" /\ r.monitor = m /\ r.result = res /\ r.real = rl /\ r.at = a

LEMMA StartedAt ==
  ASSUME NEW r \in WorkerState,
         NEW m \in Monitors, NEW res \in Status, NEW rl \in Status, NEW a \in Nat
  PROVE  LET s == [r EXCEPT !.pc = "read", !.monitor = m, !.result = res, !.real = rl,
                            !.at = a]
         IN  s \in WorkerState /\ Fresh(s, m, res, rl, a)
BY DEF WorkerState, Fresh

LEMMA StartedUntimed ==
  ASSUME NEW r \in WorkerState,
         NEW m \in Monitors, NEW res \in Status, NEW rl \in Status
  PROVE  LET s == [r EXCEPT !.pc = "read", !.monitor = m, !.result = res, !.real = rl]
         IN  s \in WorkerState /\ Fresh(s, m, res, rl, r.at)
BY DEF WorkerState, Fresh

LEMMA ResultIsStatus ==
  ASSUME TypeOK, NEW m \in Monitors PROVE Result(m) \in Status /\ HeartbeatResult(m) \in Status
BY DEF TypeOK, Result, HeartbeatResult, Status

LEMMA Clockwork == ASSUME TypeOK, Tick PROVE clock' = clock + 1 /\ clock' \in Nat /\ clock \in Nat
BY DEF TypeOK, Tick

(***************************************************************************)
(* Undisturbed: no two workers are at work on one monitor, and the process *)
(* that found an empty database has not been told to stop.                 *)
(***************************************************************************)
Busy(w, m) == worker[w].pc # "idle" /\ worker[w].monitor = m

Undisturbed ==
  /\ restarts = 0 /\ ~stopping
  /\ \A v, w \in Workers : \A m \in Monitors : Busy(v, m) /\ Busy(w, m) => v = w

EmptyAtFirst == \A m \in Monitors : OldStatus[m] = NoStatus

RowsOf(m) == {r \in stored \cup pending : r.monitor = m}

\* The event that was published last agrees with a status.
Agrees(event, status, first) ==
  CASE event = "trigger" -> status # "up"
    [] event = "recover" -> status = "up"
    [] OTHER             -> status = "up" <=> first = "up"

\* Of the first status of m the engine is not told, unless it was up by a ping.
Untold(m, prev, result) == prev \in {NoStatus, result} \/ (m \in Heartbeats /\ prev = "up")

\* Before the first status of m the table holds the row of the check under way,
\* or pings.
NoneYet(m) ==
  /\ told[m] = "nothing" /\ baseline[m] = NoStatus
  /\ \A r \in RowsOf(m) :
       IF m \in Heartbeats THEN r.status = "up"
       ELSE \E w \in Workers : Busy(w, m) /\ worker[w].result = r.status

Reported(m) == \A w \in Workers : Busy(w, m) => worker[w].pc \notin {"log", "publish"}

\* What w still has to report is the change from what the engine knows.
ToReport(w, m) ==
  LET r == worker[w] IN
  /\ r.pc = "seed" => lastStatus[m] = NoStatus
  /\ r.pc = "write" =>
       IF lastStatus[m] = NoStatus THEN Untold(m, r.prev, r.result)
       ELSE r.prev = lastStatus[m]
  /\ r.pc \in {"log", "publish"} =>
       /\ lastStatus[m] = r.result
       /\ \/ r.prev # NoStatus /\ Agrees(told[m], r.prev, baseline[m])
          \/ /\ told[m] = "nothing" /\ baseline[m] = r.result
             /\ Untold(m, r.prev, r.result)

FollowAt(m) ==
  /\ lastStatus[m] = NoStatus => NoneYet(m)
  /\ lastStatus[m] # NoStatus =>
       /\ baseline[m] # NoStatus
       /\ Reported(m) => Agrees(told[m], lastStatus[m], baseline[m])
  /\ \A w \in Workers : Busy(w, m) => ToReport(w, m)

(***************************************************************************)
(* Outages of a pinged monitor.                                            *)
(***************************************************************************)
\* Of some rows, every down row is followed by an up row before n.
Answered(rows, n) ==
  \A d \in rows : d.status = "down" =>
    \E u \in rows : u.status = "up" /\ d.at < u.at /\ u.at < n

\* Between two down rows there is an up row.
Between(rows) ==
  \A first, second \in rows :
    first.status = "down" /\ second.status = "down" /\ first.at < second.at =>
      \E u \in rows : u.status = "up" /\ first.at < u.at /\ u.at < second.at

\* What a worker that evaluates the pings of m has seen is in the table.
Seen(w, m) ==
  LET r == worker[w] IN
  /\ r.result \in {"up", "down"}
  /\ r.result = "up" => Answered(RowsOf(m), r.at)
  /\ r.result = "down" /\ target[m] = "up" =>
       \E u \in RowsOf(m) : u.status = "up" /\ r.at < u.at
  /\ r.result = "down" /\ r.pc = "log" => Answered(RowsOf(m), r.at)
  /\ r.result = "down" /\ r.pc \in {"read", "seed", "write"} /\ lastStatus[m] = "up" =>
       Answered(RowsOf(m), r.at)

OutageAt(m) ==
  /\ target[m] \in {"up", "down"} /\ lastStatus[m] \in {NoStatus, "up", "down"}
  /\ Between(RowsOf(m))
  /\ (target[m] = "up" \/ lastStatus[m] = "up") => Answered(RowsOf(m), clock + 1)
  /\ \A w \in Workers : Busy(w, m) => Seen(w, m)

\* Rows and evaluations are of the past.
Past ==
  /\ \A r \in stored \cup pending : r.at <= clock
  /\ \A w \in Workers : worker[w].at <= clock

\* A check that contradicts its target was made in the course of a shutdown.
Honest ==
  \A w \in Workers :
    worker[w].pc # "idle" /\ worker[w].real = "up" /\ worker[w].result # "up" => stopping

(* Every set of numbers that is not empty has a least member.              *)
LEMMA LeastOf ==
  ASSUME NEW T \in SUBSET Nat, T # {}
  PROVE  \E n \in T : \A k \in T : n <= k
<1>1. T \subseteq Nat
  OBVIOUS
<1>2. PICK n \in T : \A k \in T : ~ (<<k, n>> \in OpToRel(<, Nat))
  BY <1>1, NatLessThanWellFounded, WFMin
<1>3. \A k \in T : ~ (k < n)
  BY <1>1, <1>2 DEF OpToRel
<1> QED BY <1>1, <1>3

(* GetLatest returns the status of a row of the monitor, if it has one.    *)
LEMMA LatestIsStored ==
  ASSUME TypeOK, Past, NEW m \in Monitors,
         ~ \E r \in stored : r.monitor = m /\ Latest(m) = r.status
  PROVE  Latest(m) = NoStatus
<1> DEFINE rows == {r \in stored : r.monitor = m}
<1>1. SUFFICES ASSUME rows # {} PROVE FALSE
  BY DEF Latest
<1>2. \A r \in rows : r \in Row /\ r.at \in Nat /\ r.at <= clock
  BY DEF TypeOK, Past, Row
<1>3. clock \in Nat
  BY DEF TypeOK
<1> DEFINE Ages == {clock - r.at : r \in rows}
<1>4. Ages \in SUBSET Nat /\ Ages # {}
  BY <1>1, <1>2, <1>3
<1>5. PICK n \in Ages : \A k \in Ages : n <= k
  <2> HIDE DEF Ages
  <2> QED BY <1>4, LeastOf
<1>6. PICK r \in rows : n = clock - r.at
  BY <1>5
<1>7. ASSUME NEW other \in rows PROVE other.at <= r.at
  <2>1. clock - r.at <= clock - other.at
    BY <1>5, <1>6
  <2> QED BY <1>2, <1>3, <2>1
<1> DEFINE top == CHOOSE r2 \in rows : \A other \in rows : other.at <= r2.at
<1>8. top \in rows
  BY <1>7
<1>9. Latest(m) = top.status
  BY <1>1 DEF Latest
<1> QED BY <1>8, <1>9

LEMMA LatestIsStatus ==
  ASSUME TypeOK, Past, NEW m \in Monitors PROVE Latest(m) \in Status \cup {NoStatus}
BY LatestIsStored DEF TypeOK, Row

LEMMA SeedIsStatus ==
  ASSUME TypeOK, Past, NEW m \in Monitors, NEW result \in Status
  PROVE  SeedOf(m, result) \in Status \cup {NoStatus}
BY LatestIsStatus DEF SeedOf

(***************************************************************************)
(* What each step of a worker does.                                        *)
(***************************************************************************)
LEMMA RunCheckDoes ==
  ASSUME StatusAssumption, TypeOK, NEW w \in Workers, NEW m \in Monitors, RunCheck(w, m)
  PROVE  \E r \in WorkerState : Becomes(w, r) /\ Fresh(r, m, Result(m), target[m], 0)
<1> DEFINE r == [Idle EXCEPT !.pc = "read", !.monitor = m, !.result = Result(m),
                             !.real = target[m]]
<1>1. r \in WorkerState /\ Fresh(r, m, Result(m), target[m], 0)
  <2>1. Idle \in WorkerState /\ Idle.at = 0
    BY IdleState DEF Idle
  <2> QED BY <2>1, StartedUntimed, ResultIsStatus DEF TypeOK
<1>2. worker' = [worker EXCEPT ![w] = r]
  BY DEF RunCheck
<1> HIDE DEF r
<1> QED BY <1>1, <1>2, Becoming DEF TypeOK

LEMMA RunHeartbeatDoes ==
  ASSUME StatusAssumption, TypeOK, NEW w \in Workers, NEW m \in Monitors, RunHeartbeat(w, m)
  PROVE  \E r \in WorkerState : Becomes(w, r) /\ Fresh(r, m, target[m], target[m], clock')
<1> DEFINE r == [Idle EXCEPT !.pc = "read", !.monitor = m, !.result = HeartbeatResult(m),
                             !.real = target[m], !.at = clock']
<1>1. clock' \in Nat
  BY Clockwork DEF RunHeartbeat
<1>2. r \in WorkerState /\ Fresh(r, m, target[m], target[m], clock')
  BY <1>1, IdleState, StartedAt, ResultIsStatus DEF TypeOK, HeartbeatResult
<1>3. worker' = [worker EXCEPT ![w] = r]
  BY DEF RunHeartbeat
<1> HIDE DEF r
<1> QED BY <1>2, <1>3, Becoming DEF TypeOK

LEMMA ReadLastDoes ==
  ASSUME TypeOK, NEW w \in Workers, ReadLast(w)
  PROVE  \E r \in WorkerState :
           /\ Becomes(w, r) /\ SameCheck(worker[w], r)
           /\ r.prev = lastStatus[worker[w].monitor]
           /\ r.pc = IF r.prev = NoStatus THEN "seed" ELSE "write"
<1> DEFINE last == lastStatus[worker[w].monitor]
           c == IF last = NoStatus THEN "seed" ELSE "write"
           r == [worker[w] EXCEPT !.prev = last, !.pc = c]
<1>1. worker[w] \in WorkerState /\ worker[w].monitor \in Monitors
  BY StateOf DEF TypeOK
<1>2. last \in Status \cup {NoStatus} /\ c \in Pc
  BY <1>1 DEF TypeOK, Pc
<1>3. worker' = [worker EXCEPT ![w] = r]
  BY DEF ReadLast
<1>4. r \in WorkerState /\ r.pc = c /\ r.prev = last /\ SameCheck(worker[w], r)
  <2> HIDE DEF last, c
  <2> QED BY <1>1, <1>2, MovedWith
<1>5. Becomes(w, r)
  <2> HIDE DEF r
  <2> QED BY <1>3, <1>4, Becoming DEF TypeOK
<1> QED BY <1>4, <1>5

LEMMA SeedDoes ==
  ASSUME TypeOK, Past, NEW w \in Workers, Seed(w)
  PROVE  \E r \in WorkerState :
           /\ Becomes(w, r) /\ SameCheck(worker[w], r) /\ r.pc = "write"
           /\ r.prev = SeedOf(worker[w].monitor, worker[w].result)
<1> DEFINE seed == SeedOf(worker[w].monitor, worker[w].result)
           r == [worker[w] EXCEPT !.prev = seed, !.pc = "write"]
<1>1. worker[w] \in WorkerState /\ worker[w].monitor \in Monitors /\ worker[w].result \in Status
  BY StateOf DEF TypeOK
<1>2. seed \in Status \cup {NoStatus} /\ "write" \in Pc
  BY <1>1, SeedIsStatus DEF Pc
<1>3. worker' = [worker EXCEPT ![w] = r]
  BY DEF Seed
<1>4. r \in WorkerState /\ r.pc = "write" /\ r.prev = seed /\ SameCheck(worker[w], r)
  <2> HIDE DEF seed
  <2> QED BY <1>1, <1>2, MovedWith
<1>5. Becomes(w, r)
  <2> HIDE DEF r
  <2> QED BY <1>3, <1>4, Becoming DEF TypeOK
<1> QED BY <1>4, <1>5

\* w is done with its check.
Done(w) == \E r \in WorkerState : Becomes(w, r) /\ r.pc = "idle" /\ r.at = 0

LEMMA Finishing ==
  ASSUME StatusAssumption, TypeOK, NEW w \in Workers, worker' = [worker EXCEPT ![w] = Idle]
  PROVE  Done(w)
<1>1. Idle.at = 0
  BY DEF Idle
<1> QED BY <1>1, IdleState, Becoming DEF TypeOK, Done

\* w goes on with its check at pc.
Goes(w, pc) ==
  \E r \in WorkerState :
    Becomes(w, r) /\ SameCheck(worker[w], r) /\ r.prev = worker[w].prev /\ r.pc = pc

LEMMA Going ==
  ASSUME TypeOK, NEW w \in Workers, NEW c \in Pc, worker' = [worker EXCEPT ![w].pc = c]
  PROVE  Goes(w, c)
<1> DEFINE r == [worker[w] EXCEPT !.pc = c]
<1>1. r \in WorkerState /\ r.pc = c /\ r.prev = worker[w].prev /\ SameCheck(worker[w], r)
  BY Moved DEF TypeOK
<1>2. worker' = [worker EXCEPT ![w] = r]
  OBVIOUS
<1>3. Becomes(w, r)
  <2> HIDE DEF r
  <2> QED BY <1>1, <1>2, Becoming DEF TypeOK
<1> QED BY <1>1, <1>3 DEF Goes

LEMMA WriteLastDoes ==
  ASSUME StatusAssumption, TypeOK, NEW w \in Workers, WriteLast(w)
  PROVE  \/ Uneventful(w) /\ Done(w)
         \/ /\ ~Uneventful(w)
            /\ Goes(w, IF worker[w].monitor \in Heartbeats THEN "log" ELSE "publish")
<1>1. CASE Uneventful(w)
  BY <1>1, Finishing DEF WriteLast
<1>2. CASE ~Uneventful(w)
  <2> DEFINE c == IF worker[w].monitor \in Heartbeats THEN "log" ELSE "publish"
  <2>1. c \in Pc
    BY DEF Pc
  <2>2. worker' = [worker EXCEPT ![w].pc = c]
    BY <1>2 DEF WriteLast
  <2>3. Goes(w, c)
    <3> HIDE DEF c
    <3> QED BY <2>1, <2>2, Going
  <2> QED BY <1>2, <2>3
<1> QED BY <1>1, <1>2

LEMMA LogTransitionDoes ==
  ASSUME TypeOK, NEW w \in Workers, LogTransition(w) PROVE Goes(w, "publish")
BY Going DEF LogTransition, Pc

LEMMA PublishEventDoes ==
  ASSUME StatusAssumption, TypeOK, NEW w \in Workers, PublishEvent(w) PROVE Done(w)
BY Finishing DEF PublishEvent

(***************************************************************************)
(* Types, rows of the past, and honest checks.                             *)
(***************************************************************************)
GInv == TypeOK /\ Past /\ Honest

LEMMA GInit == ASSUME StatusAssumption, Init PROVE GInv
<1>1. \A m \in Monitors : OldStatus[m] \in Status \cup {NoStatus}
  BY Bounds
<1>2. target \in [Monitors -> Status]
  BY <1>1 DEF Init, Status
<1>3. stored \subseteq Row /\ pending \subseteq Row /\ \A r \in stored \cup pending : r.at = 0
  BY <1>1 DEF Init, Row
<1>4. lastStatus \in [Monitors -> Status \cup {NoStatus}]
      /\ baseline \in [Monitors -> Status \cup {NoStatus}]
  BY Bounds DEF Init
<1>5. worker \in [Workers -> WorkerState] /\ \A w \in Workers : worker[w] = Idle
  BY IdleState DEF Init
<1>6. told \in [Monitors -> {"nothing", "trigger", "recover"}]
  BY DEF Init
<1>7. TypeOK
  BY <1>2, <1>3, <1>4, <1>5, <1>6 DEF Init, TypeOK
<1>8. Past
  <2>1. Idle.at = 0 /\ clock = 0
    BY DEF Idle, Init
  <2> QED BY <1>3, <1>5, <2>1 DEF Past
<1>9. Honest
  BY <1>5, IdleState DEF Honest
<1> QED BY <1>7, <1>8, <1>9 DEF GInv

\* Of a row that may be enqueued.
LEMMA Enqueued ==
  ASSUME TypeOK, NEW row \in Row, Enqueue(row)
  PROVE  pending' \subseteq Row /\ pending' \subseteq pending \cup {row}
         /\ pending \subseteq pending'
BY DEF TypeOK, Enqueue

LEMMA NewRowIsRow ==
  ASSUME NEW m \in Monitors, NEW s \in Status, NEW a \in Nat
  PROVE  LET row == NewRow(m, s, a) IN
         row \in Row /\ row.monitor = m /\ row.status = s /\ row.at = a
BY DEF NewRow, Row

\* A step of w that leaves the rest of the types alone.
LEMMA PastGoesOn ==
  ASSUME TypeOK, Past, NEW w \in Workers, NEW r \in WorkerState, Becomes(w, r),
         clock' \in Nat, clock <= clock', r.at <= clock',
         \A row \in (stored \cup pending)' : row \in stored \cup pending \/ row.at <= clock'
  PROVE  Past'
<1>1. clock \in Nat /\ \A row \in stored \cup pending : row.at \in Nat
  BY DEF TypeOK, Row
<1>2. ASSUME NEW row \in (stored \cup pending)' PROVE row.at <= clock'
  <2>1. CASE row \in stored \cup pending
    <3>1. row.at \in Nat /\ row.at <= clock
      BY <1>1, <2>1 DEF Past
    <3> QED BY <1>1, <3>1
  <2> QED BY <1>2, <2>1
<1>3. ASSUME NEW v \in Workers PROVE worker'[v].at <= clock'
  <2>1. CASE v = w
    BY <2>1 DEF Becomes
  <2>2. CASE v # w
    <3>1. worker'[v] = worker[v] /\ worker[v].at \in Nat /\ worker[v].at <= clock
      BY <2>2, StateOf DEF Becomes, TypeOK, Past
    <3> QED BY <1>1, <3>1
  <2> QED BY <2>1, <2>2
<1> QED BY <1>2, <1>3 DEF Past

LEMMA HonestGoesOn ==
  ASSUME Honest, NEW w \in Workers, NEW r, Becomes(w, r), stopping => stopping',
         r.pc # "idle" /\ r.real = "up" /\ r.result # "up" => stopping'
  PROVE  Honest'
BY DEF Honest, Becomes

\* A check that goes on is the check it was.
LEMMA HonestCheck ==
  ASSUME GInv, NEW w \in Workers, worker[w].pc # "idle", UNCHANGED <<clock, stopping, stored>>,
         NEW r \in WorkerState, Becomes(w, r), SameCheck(worker[w], r),
         \A row \in pending' : row \in pending \/ row.at <= clock
  PROVE  Past' /\ Honest'
<1>1. clock \in Nat /\ clock' \in Nat /\ clock <= clock'
  BY DEF GInv, TypeOK
<1>2. r.at <= clock'
  BY DEF GInv, Past, SameCheck
<1>3. Past'
  BY <1>1, <1>2, PastGoesOn DEF GInv
<1>4. r.real = "up" /\ r.result # "up" => stopping
  BY DEF GInv, Honest, SameCheck
<1> QED BY <1>3, <1>4, HonestGoesOn DEF GInv

LEMMA HonestDone ==
  ASSUME GInv, NEW w \in Workers, Done(w), UNCHANGED <<clock, stopping, stored, pending>>
  PROVE  Past' /\ Honest' /\ worker' \in [Workers -> WorkerState]
<1>1. PICK r \in WorkerState : Becomes(w, r) /\ r.pc = "idle" /\ r.at = 0
  BY DEF Done
<1>2. clock \in Nat /\ clock' \in Nat /\ clock <= clock'
  BY DEF GInv, TypeOK
<1>3. r.at <= clock'
  BY <1>1, <1>2
<1>4. Past'
  BY <1>1, <1>2, <1>3, PastGoesOn DEF GInv
<1> QED BY <1>1, <1>4, HonestGoesOn DEF GInv, Becomes

LEMMA GRunCheck ==
  ASSUME StatusAssumption, GInv, NEW w \in Workers, NEW m \in Monitors, RunCheck(w, m)
  PROVE  GInv'
<1>0. TypeOK /\ Past /\ Honest /\ Tick
  BY DEF GInv, RunCheck
<1>1. PICK r \in WorkerState : Becomes(w, r) /\ Fresh(r, m, Result(m), target[m], 0)
  BY <1>0, RunCheckDoes
<1>2. clock' = clock + 1 /\ clock' \in Nat /\ clock \in Nat
  BY <1>0, Clockwork
<1> DEFINE row == NewRow(m, Result(m), clock')
<1>3. row \in Row /\ row.at = clock'
  BY <1>0, <1>2, NewRowIsRow, ResultIsStatus
<1>4. pending' \subseteq Row /\ pending' \subseteq pending \cup {row}
  <2>1. Enqueue(row)
    BY DEF RunCheck
  <2> HIDE DEF row
  <2> QED BY <1>0, <1>3, <2>1, Enqueued
<1> HIDE DEF row
<1>5. TypeOK'
  BY <1>0, <1>1, <1>2, <1>4 DEF TypeOK, RunCheck, Becomes
<1>6. Past'
  <2>1. r.at = 0 /\ clock <= clock'
    BY <1>1, <1>2 DEF Fresh
  <2>2. \A x \in (stored \cup pending)' : x \in stored \cup pending \/ x.at <= clock'
    BY <1>2, <1>3, <1>4 DEF RunCheck
  <2> QED BY <1>0, <1>1, <1>2, <2>1, <2>2, PastGoesOn
<1>7. Honest'
  <2>1. r.real = target[m] /\ r.result = Result(m)
    BY <1>1 DEF Fresh
  <2>2. r.real = "up" /\ r.result # "up" => stopping
    BY <2>1 DEF Result
  <2> QED BY <1>0, <1>1, <2>2, HonestGoesOn DEF RunCheck
<1> QED BY <1>5, <1>6, <1>7 DEF GInv

LEMMA GRunHeartbeat ==
  ASSUME StatusAssumption, GInv, NEW w \in Workers, NEW m \in Monitors, RunHeartbeat(w, m)
  PROVE  GInv'
<1>0. TypeOK /\ Past /\ Honest /\ Tick
  BY DEF GInv, RunHeartbeat
<1>1. PICK r \in WorkerState : Becomes(w, r) /\ Fresh(r, m, target[m], target[m], clock')
  BY <1>0, RunHeartbeatDoes
<1>2. clock' = clock + 1 /\ clock' \in Nat /\ clock \in Nat
  BY <1>0, Clockwork
<1>5. TypeOK'
  BY <1>0, <1>1, <1>2 DEF TypeOK, RunHeartbeat, Becomes
<1>6. Past'
  <2>1. r.at = clock' /\ r.at <= clock' /\ clock <= clock'
    BY <1>1, <1>2 DEF Fresh
  <2>2. \A x \in (stored \cup pending)' : x \in stored \cup pending
    BY DEF RunHeartbeat
  <2> QED BY <1>0, <1>1, <1>2, <2>1, <2>2, PastGoesOn
<1>7. Honest'
  BY <1>0, <1>1, HonestGoesOn DEF RunHeartbeat, Fresh
<1> QED BY <1>5, <1>6, <1>7 DEF GInv

LEMMA GReadLast ==
  ASSUME StatusAssumption, GInv, NEW w \in Workers, ReadLast(w) PROVE GInv'
<1>1. PICK r \in WorkerState : Becomes(w, r) /\ SameCheck(worker[w], r)
  BY ReadLastDoes DEF GInv
<1>2. TypeOK'
  BY <1>1 DEF GInv, TypeOK, ReadLast, Becomes
<1>3. Past' /\ Honest'
  BY <1>1, HonestCheck DEF ReadLast
<1> QED BY <1>2, <1>3 DEF GInv

LEMMA GSeed ==
  ASSUME StatusAssumption, GInv, NEW w \in Workers, Seed(w) PROVE GInv'
<1>1. PICK r \in WorkerState : Becomes(w, r) /\ SameCheck(worker[w], r)
  BY SeedDoes DEF GInv
<1>2. TypeOK'
  BY <1>1 DEF GInv, TypeOK, Seed, Becomes
<1>3. Past' /\ Honest'
  BY <1>1, HonestCheck DEF Seed
<1> QED BY <1>2, <1>3 DEF GInv

LEMMA GWriteLast ==
  ASSUME StatusAssumption, GInv, NEW w \in Workers, WriteLast(w) PROVE GInv'
<1>1. worker[w].monitor \in Monitors /\ worker[w].result \in Status
  BY StateOf DEF GInv, TypeOK
<1>2. worker' \in [Workers -> WorkerState] /\ Past' /\ Honest'
  <2>1. CASE Done(w)
    BY <2>1, HonestDone DEF WriteLast
  <2>2. CASE Goes(w, IF worker[w].monitor \in Heartbeats THEN "log" ELSE "publish")
    <3>1. PICK r \in WorkerState : Becomes(w, r) /\ SameCheck(worker[w], r)
      BY <2>2 DEF Goes
    <3>2. Past' /\ Honest'
      BY <3>1, HonestCheck DEF WriteLast
    <3> QED BY <3>1, <3>2 DEF Becomes
  <2> QED BY <2>1, <2>2, WriteLastDoes DEF GInv
<1>3. lastStatus' \in [Monitors -> Status \cup {NoStatus}]
  BY <1>1 DEF GInv, TypeOK, WriteLast
<1>4. baseline' \in [Monitors -> Status \cup {NoStatus}]
  BY <1>1 DEF GInv, TypeOK, WriteLast
<1>5. TypeOK'
  BY <1>2, <1>3, <1>4 DEF GInv, TypeOK, WriteLast
<1> QED BY <1>2, <1>5 DEF GInv

LEMMA GLogTransition ==
  ASSUME StatusAssumption, GInv, NEW w \in Workers, LogTransition(w) PROVE GInv'
<1>1. PICK r \in WorkerState : Becomes(w, r) /\ SameCheck(worker[w], r)
  BY LogTransitionDoes DEF GInv, Goes
<1> DEFINE row == NewRow(worker[w].monitor, worker[w].result, worker[w].at)
<1>2. row \in Row /\ row.at = worker[w].at
  BY StateOf, NewRowIsRow DEF GInv, TypeOK
<1>3. pending' \subseteq Row /\ pending' \subseteq pending \cup {row}
  <2>1. Enqueue(row)
    BY DEF LogTransition
  <2> HIDE DEF row
  <2> QED BY <1>2, <2>1, Enqueued DEF GInv
<1> HIDE DEF row
<1>4. TypeOK'
  BY <1>1, <1>3 DEF GInv, TypeOK, LogTransition, Becomes
<1>5. \A x \in pending' : x \in pending \/ x.at <= clock
  BY <1>2, <1>3 DEF GInv, Past
<1>6. Past' /\ Honest'
  BY <1>1, <1>5, HonestCheck DEF LogTransition
<1> QED BY <1>4, <1>6 DEF GInv

LEMMA EventIsEvent ==
  ASSUME NEW prev, NEW result PROVE EventFor(prev, result) \in {"nothing", "trigger", "recover"}
BY DEF EventFor

LEMMA GPublishEvent ==
  ASSUME StatusAssumption, GInv, NEW w \in Workers, PublishEvent(w) PROVE GInv'
<1>1. Past' /\ Honest' /\ worker' \in [Workers -> WorkerState]
  BY PublishEventDoes, HonestDone DEF GInv, PublishEvent
<1>2. told' \in [Monitors -> {"nothing", "trigger", "recover"}]
  <2> DEFINE event == EventFor(worker[w].prev, worker[w].result)
  <2>1. event \in {"nothing", "trigger", "recover"}
    BY EventIsEvent
  <2>2. told' = IF Heard(event) THEN [told EXCEPT ![worker[w].monitor] = event] ELSE told
    BY DEF PublishEvent
  <2> HIDE DEF event
  <2> QED BY <2>1, <2>2 DEF GInv, TypeOK
<1>3. TypeOK'
  BY <1>1, <1>2 DEF GInv, TypeOK, PublishEvent
<1> QED BY <1>1, <1>3 DEF GInv

LEMMA GWorkerStep ==
  ASSUME StatusAssumption, GInv, NEW w \in Workers, WorkerStep(w) PROVE GInv'
BY GReadLast, GSeed, GWriteLast, GLogTransition, GPublishEvent DEF WorkerStep

\* The steps of no worker.
LEMMA GOthers ==
  ASSUME StatusAssumption, GInv,
         \/ \E row \in pending : Flush(row)
         \/ \E m \in Monitors : Ping(m) \/ \E status \in Status : TargetChanges(m, status)
         \/ Shutdown
  PROVE  GInv'
<1>1. ASSUME NEW row \in pending, Flush(row) PROVE GInv'
  BY <1>1 DEF GInv, TypeOK, Past, Honest, Flush
<1>2. ASSUME NEW m \in Monitors, Ping(m) PROVE GInv'
  <2> DEFINE row == [monitor |-> m, status |-> "up", at |-> clock']
  <2>1. clock' = clock + 1 /\ clock' \in Nat /\ clock \in Nat
    BY <1>2, Clockwork DEF Ping, GInv
  <2>2. row \in Row /\ row.at = clock' /\ stored' = stored \cup {row}
    BY <1>2, <2>1 DEF Ping, Row, Status
  <2> HIDE DEF row
  <2>3. target' \in [Monitors -> Status]
    BY <1>2 DEF Ping, GInv, TypeOK, Status
  <2>4. TypeOK'
    BY <1>2, <2>1, <2>2, <2>3 DEF GInv, TypeOK, Ping
  <2>5. ASSUME NEW x \in (stored \cup pending)' PROVE x.at <= clock'
    <3>1. CASE x \in stored \cup pending
      <4>1. x.at \in Nat /\ x.at <= clock
        BY <3>1 DEF GInv, TypeOK, Past, Row
      <4> QED BY <2>1, <4>1
    <3> QED BY <1>2, <2>1, <2>2, <2>5, <3>1 DEF Ping
  <2>6. ASSUME NEW w \in Workers PROVE worker'[w].at <= clock'
    <3>1. worker'[w] = worker[w] /\ worker[w].at \in Nat /\ worker[w].at <= clock
      BY <1>2, StateOf DEF GInv, TypeOK, Past, Ping
    <3> QED BY <2>1, <3>1
  <2>7. Honest'
    BY <1>2 DEF GInv, Honest, Ping
  <2> QED BY <2>4, <2>5, <2>6, <2>7 DEF GInv, Past
<1>3. ASSUME NEW m \in Monitors, NEW status \in Status, TargetChanges(m, status) PROVE GInv'
  <2>1. target' \in [Monitors -> Status] /\ changes' \in Nat
    BY <1>3 DEF TargetChanges, GInv, TypeOK
  <2> QED BY <1>3, <2>1 DEF GInv, TypeOK, Past, Honest, TargetChanges
<1>4. ASSUME Shutdown PROVE GInv'
  BY <1>4 DEF GInv, TypeOK, Past, Honest, Shutdown
<1> QED BY <1>1, <1>2, <1>3, <1>4

LEMMA GNewProcess ==
  ASSUME StatusAssumption, GInv, Restart \/ Crash PROVE GInv'
<1>1. NewProcess /\ stored' \subseteq stored \cup pending
  BY DEF Restart, Crash
<1>2. worker' \in [Workers -> WorkerState] /\ \A w \in Workers : worker'[w] = Idle
  BY <1>1, IdleState DEF NewProcess
<1>3. TypeOK'
  <2>1. stored' \subseteq Row /\ pending' \subseteq Row
    BY <1>1 DEF GInv, TypeOK, NewProcess
  <2>2. lastStatus' \in [Monitors -> Status \cup {NoStatus}] /\ restarts' \in Nat
    BY <1>1 DEF GInv, TypeOK, NewProcess
  <2> QED BY <1>1, <1>2, <2>1, <2>2 DEF GInv, TypeOK, NewProcess
<1>4. Past'
  <2>1. Idle.at = 0 /\ 0 <= clock
    BY DEF GInv, TypeOK, Idle
  <2> QED BY <1>1, <1>2, <2>1 DEF GInv, Past, NewProcess
<1>5. Honest'
  BY <1>2, IdleState DEF Honest
<1> QED BY <1>3, <1>4, <1>5 DEF GInv

LEMMA GStep == ASSUME StatusAssumption, GInv, [Next]_vars PROVE GInv'
<1>1. CASE UNCHANGED vars
  BY <1>1 DEF vars, GInv, TypeOK, Past, Honest
<1>2. CASE Next
  BY <1>2, GRunCheck, GRunHeartbeat, GWorkerStep, GOthers, GNewProcess DEF Next
<1> QED BY <1>1, <1>2

(* The states are well formed and every check that finds a target down     *)
(* that is up was made while the process was stopping.                     *)
THEOREM StatusInvariant == StatusAssumption => (Spec => []GInv)
<1> SUFFICES ASSUME StatusAssumption PROVE Spec => []GInv
  OBVIOUS
<1>1. Init => GInv
  BY GInit
<1>2. GInv /\ [Next]_vars => GInv'
  BY GStep
<1> QED BY <1>1, <1>2, PTL DEF Spec

(***************************************************************************)
(* The engine hears an event only of a process that goes on, and such a    *)
(* process has checked what it found.                                      *)
(***************************************************************************)
LEMMA ToldByPublish ==
  ASSUME [Next]_vars, told' # told PROVE \E v \in Workers : PublishEvent(v)
<1>1. CASE UNCHANGED vars
  BY <1>1 DEF vars
<1>2. ASSUME NEW v \in Workers, WorkerStep(v) PROVE PublishEvent(v)
  BY <1>2 DEF WorkerStep, ReadLast, Seed, WriteLast, LogTransition
<1>3. ~ \E w \in Workers, m \in Monitors : RunCheck(w, m) \/ RunHeartbeat(w, m)
  BY DEF RunCheck, RunHeartbeat
<1>4. ~ \E row \in pending : Flush(row)
  BY DEF Flush
<1>5. ~ \E m \in Monitors : Ping(m) \/ \E status \in Status : TargetChanges(m, status)
  BY DEF Ping, TargetChanges
<1>6. ~ (Shutdown \/ Restart \/ Crash)
  BY DEF Shutdown, Restart, Crash, NewProcess
<1> QED BY <1>1, <1>2, <1>3, <1>4, <1>5, <1>6 DEF Next

LEMMA TriggerIsHonest == ASSUME GInv, [Next]_vars PROVE ~FalseAlarm
<1> SUFFICES ASSUME NEW w \in Workers,
                    worker[w].pc = "publish", worker'[w].pc = "idle",
                    told[worker[w].monitor] # "trigger", told'[worker[w].monitor] = "trigger",
                    worker[w].real = "up"
             PROVE  FALSE
  BY DEF FalseAlarm
<1>1. PICK v \in Workers : PublishEvent(v)
  BY ToldByPublish
<1>2. v = w
  <2>1. worker' = [worker EXCEPT ![v] = Idle]
    BY <1>1 DEF PublishEvent
  <2>2. v # w => worker'[w] = worker[w]
    BY <2>1 DEF GInv, TypeOK
  <2> QED BY <2>2
<1> DEFINE event == EventFor(worker[w].prev, worker[w].result)
<1>3. told' = IF Heard(event) THEN [told EXCEPT ![worker[w].monitor] = event] ELSE told
  BY <1>1, <1>2 DEF PublishEvent
<1>4. Heard(event) /\ event = "trigger"
  <2> HIDE DEF event
  <2>1. worker[w].monitor \in Monitors
    BY StateOf DEF GInv, TypeOK
  <2> QED BY <1>3, <2>1 DEF GInv, TypeOK
<1>5. worker[w].result # "up"
  BY <1>4 DEF EventFor
<1>6. stopping
  BY <1>5 DEF GInv, Honest
<1> QED BY <1>4, <1>6 DEF Heard

(* No alert is raised for a target that was up when it was checked.        *)
THEOREM AlarmsAreTrue == StatusAssumption => (Spec => NoFalseAlarm)
<1> SUFFICES ASSUME StatusAssumption PROVE Spec => NoFalseAlarm
  OBVIOUS
<1>1. GInv /\ [Next]_vars => [~FalseAlarm]_vars
  BY TriggerIsHonest
<1>2. Spec => []GInv
  BY StatusInvariant
<1> QED BY <1>1, <1>2, PTL DEF Spec, NoFalseAlarm

(***************************************************************************)
(* Undisturbed: one monitor at a time.                                     *)
(***************************************************************************)
\* Of the workers, what is said of m stays as it is.
SameWorkers(m) ==
  \A v \in Workers : (Busy(v, m)' <=> Busy(v, m)) /\ (Busy(v, m) => worker'[v] = worker[v])

LEMMA OtherMonitor ==
  ASSUME NEW w \in Workers, NEW m, NEW r, Becomes(w, r), ~Busy(w, m),
         r.pc = "idle" \/ r.monitor # m
  PROVE  SameWorkers(m)
BY DEF SameWorkers, Busy, Becomes

LEMMA StillWorkers == ASSUME UNCHANGED worker, NEW m PROVE SameWorkers(m)
BY DEF SameWorkers, Busy

LEMMA Sole ==
  ASSUME Undisturbed, NEW m \in Monitors, NEW w \in Workers, Busy(w, m)
  PROVE  \A v \in Workers : Busy(v, m) <=> v = w
BY DEF Undisturbed

\* The worker of m goes on: it is the only one before and after.
LEMMA SoleAfter ==
  ASSUME Undisturbed, NEW m \in Monitors, NEW w \in Workers, Busy(w, m),
         NEW r, Becomes(w, r), r.pc # "idle", r.monitor = m
  PROVE  \A v \in Workers : Busy(v, m)' <=> v = w
<1>1. \A v \in Workers : Busy(v, m) <=> v = w
  BY Sole
<1> QED BY <1>1 DEF Busy, Becomes

LEMMA NoneAfter ==
  ASSUME Undisturbed, NEW m \in Monitors, NEW w \in Workers, Busy(w, m), Done(w)
  PROVE  \A v \in Workers : ~Busy(v, m)'
<1>1. \A v \in Workers : Busy(v, m) <=> v = w
  BY Sole
<1> QED BY <1>1 DEF Busy, Becomes, Done

\* The worker that takes m up is the only one.
LEMMA NoneBefore ==
  ASSUME Undisturbed', NEW m \in Monitors, NEW w \in Workers, worker[w].pc = "idle",
         NEW r, Becomes(w, r), r.pc # "idle", r.monitor = m
  PROVE  /\ \A v \in Workers : ~Busy(v, m)
         /\ \A v \in Workers : Busy(v, m)' <=> v = w
<1>1. Busy(w, m)'
  BY DEF Busy, Becomes
<1>2. \A v \in Workers : Busy(v, m)' <=> v = w
  BY <1>1 DEF Undisturbed
<1>3. \A v \in Workers : ~Busy(v, m)
  BY <1>2 DEF Busy, Becomes
<1> QED BY <1>2, <1>3

LEMMA FollowFrame ==
  ASSUME NEW m \in Monitors, FollowAt(m), SameWorkers(m), RowsOf(m)' = RowsOf(m),
         lastStatus'[m] = lastStatus[m], told'[m] = told[m], baseline'[m] = baseline[m]
  PROVE  FollowAt(m)'
<1>1. NoneYet(m) => NoneYet(m)'
  BY DEF NoneYet, SameWorkers
<1>2. Reported(m)' => Reported(m)
  BY DEF Reported, SameWorkers
<1>3. ASSUME NEW v \in Workers, Busy(v, m)' PROVE ToReport(v, m)'
  <2>1. Busy(v, m) /\ worker'[v] = worker[v]
    BY <1>3 DEF SameWorkers
  <2>2. ToReport(v, m)
    BY <2>1 DEF FollowAt
  <2> QED BY <2>1, <2>2 DEF ToReport
<1>4. lastStatus'[m] # NoStatus =>
        baseline'[m] # NoStatus
        /\ (Reported(m)' => Agrees(told'[m], lastStatus'[m], baseline'[m]))
  BY <1>2 DEF FollowAt
<1>5. lastStatus'[m] = NoStatus => NoneYet(m)'
  BY <1>1 DEF FollowAt
<1> QED BY <1>3, <1>4, <1>5 DEF FollowAt

\* A step about another monitor.
LEMMA RowsElsewhere ==
  ASSUME NEW m, NEW row, row.monitor # m, (stored \cup pending)' \subseteq stored \cup pending \cup {row},
         stored \cup pending \subseteq (stored \cup pending)'
  PROVE  RowsOf(m)' = RowsOf(m)
BY DEF RowsOf

LEMMA SameRows ==
  ASSUME NEW m, UNCHANGED <<stored, pending>> PROVE RowsOf(m)' = RowsOf(m)
BY DEF RowsOf

LEMMA FRunCheck ==
  ASSUME StatusAssumption, GInv, Undisturbed', NEW m \in Monitors, FollowAt(m),
         NEW w \in Workers, NEW k \in Monitors, RunCheck(w, k)
  PROVE  FollowAt(m)'
<1> DEFINE row == NewRow(k, Result(k), clock')
<1>1. PICK r \in WorkerState : Becomes(w, r) /\ Fresh(r, k, Result(k), target[k], 0)
  BY RunCheckDoes DEF GInv
<1>2. row.monitor = k /\ row.status = Result(k) /\ row \in Row
  BY Clockwork, NewRowIsRow, ResultIsStatus DEF GInv, RunCheck
<1>3. pending' \subseteq pending \cup {row} /\ pending \subseteq pending' /\ stored' = stored
  <2>1. Enqueue(row) /\ stored' = stored
    BY DEF RunCheck
  <2> HIDE DEF row
  <2> QED BY <1>2, <2>1, Enqueued DEF GInv
<1> HIDE DEF row
<1>4. worker[w].pc = "idle" /\ UNCHANGED <<lastStatus, told, baseline>> /\ k \notin Heartbeats
  BY DEF RunCheck
<1>5. CASE k # m
  <2>1. SameWorkers(m)
    BY <1>1, <1>4, <1>5, OtherMonitor DEF Busy, Fresh
  <2>2. RowsOf(m)' = RowsOf(m)
    BY <1>2, <1>3, <1>5, RowsElsewhere
  <2> QED BY <1>4, <2>1, <2>2, FollowFrame
<1>6. CASE k = m
  <2>1. r.pc = "read" /\ r.monitor = m /\ r.result = Result(m)
    BY <1>1, <1>6 DEF Fresh
  <2>2. (\A v \in Workers : ~Busy(v, m)) /\ (\A v \in Workers : Busy(v, m)' <=> v = w)
    BY <1>1, <1>4, <2>1, NoneBefore
  <2>3. NoneYet(m) => NoneYet(m)'
    <3> SUFFICES ASSUME NoneYet(m), NEW x \in RowsOf(m)'
                 PROVE  \E v \in Workers : Busy(v, m)' /\ worker'[v].result = x.status
      BY <1>4, <1>6 DEF NoneYet
    <3>1. x \notin RowsOf(m)
      BY <1>4, <1>6, <2>2 DEF NoneYet
    <3>2. x = row
      BY <1>3, <3>1 DEF RowsOf
    <3> QED BY <1>1, <1>2, <1>6, <2>1, <2>2, <3>2 DEF Becomes
  <2>4. Reported(m)
    BY <2>2 DEF Reported
  <2>5. \A v \in Workers : Busy(v, m)' => ToReport(v, m)'
    BY <1>1, <2>1, <2>2 DEF ToReport, Becomes
  <2> QED BY <1>4, <2>3, <2>4, <2>5 DEF FollowAt
<1> QED BY <1>5, <1>6

LEMMA FRunHeartbeat ==
  ASSUME StatusAssumption, GInv, Undisturbed', NEW m \in Monitors, FollowAt(m),
         NEW w \in Workers, NEW k \in Monitors, RunHeartbeat(w, k)
  PROVE  FollowAt(m)'
<1>1. PICK r \in WorkerState : Becomes(w, r) /\ Fresh(r, k, target[k], target[k], clock')
  BY RunHeartbeatDoes DEF GInv
<1>2. worker[w].pc = "idle" /\ UNCHANGED <<stored, pending, lastStatus, told, baseline>>
      /\ k \in Heartbeats
  BY DEF RunHeartbeat
<1>3. RowsOf(m)' = RowsOf(m)
  BY <1>2, SameRows
<1>5. CASE k # m
  <2>1. SameWorkers(m)
    BY <1>1, <1>2, <1>5, OtherMonitor DEF Busy, Fresh
  <2> QED BY <1>2, <1>3, <2>1, FollowFrame
<1>6. CASE k = m
  <2>1. r.pc = "read" /\ r.monitor = m
    BY <1>1, <1>6 DEF Fresh
  <2>2. (\A v \in Workers : ~Busy(v, m)) /\ (\A v \in Workers : Busy(v, m)' <=> v = w)
    BY <1>1, <1>2, <2>1, NoneBefore
  <2>3. NoneYet(m) => NoneYet(m)'
    BY <1>2, <1>3, <1>6 DEF NoneYet
  <2>4. Reported(m)
    BY <2>2 DEF Reported
  <2>5. \A v \in Workers : Busy(v, m)' => ToReport(v, m)'
    BY <1>1, <2>1, <2>2 DEF ToReport, Becomes
  <2> QED BY <1>2, <2>3, <2>4, <2>5 DEF FollowAt
<1> QED BY <1>5, <1>6

\* A step of a worker at work on another monitor.
LEMMA FElsewhere ==
  ASSUME GInv, NEW m \in Monitors, FollowAt(m), NEW w \in Workers, worker[w].monitor # m,
         NEW r, Becomes(w, r), r.pc = "idle" \/ r.monitor = worker[w].monitor,
         RowsOf(m)' = RowsOf(m),
         lastStatus'[m] = lastStatus[m], told'[m] = told[m], baseline'[m] = baseline[m]
  PROVE  FollowAt(m)'
<1>1. SameWorkers(m)
  BY OtherMonitor DEF Busy
<1> QED BY <1>1, FollowFrame

\* w reads or seeds: a check of m goes on.
LEMMA FGoesOn ==
  ASSUME GInv, Undisturbed, NEW m \in Monitors, FollowAt(m), NEW w \in Workers, Busy(w, m),
         NEW r \in WorkerState, Becomes(w, r), SameCheck(worker[w], r),
         worker[w].pc \in {"read", "seed"}, r.pc \in {"seed", "write"}, ToReport(w, m)',
         UNCHANGED <<stored, pending, lastStatus, told, baseline>>
  PROVE  FollowAt(m)'
<1>1. r.monitor = m /\ r.pc # "idle"
  BY DEF SameCheck, Busy
<1>2. (\A v \in Workers : Busy(v, m) <=> v = w) /\ (\A v \in Workers : Busy(v, m)' <=> v = w)
  BY <1>1, Sole, SoleAfter
<1>3. NoneYet(m) => NoneYet(m)'
  <2>1. RowsOf(m)' = RowsOf(m)
    BY SameRows
  <2>2. worker'[w].result = worker[w].result
    BY DEF Becomes, SameCheck
  <2> QED BY <1>2, <2>1, <2>2 DEF NoneYet
<1>4. Reported(m)
  BY <1>2 DEF Reported
<1>5. \A v \in Workers : Busy(v, m)' => ToReport(v, m)'
  BY <1>2
<1> QED BY <1>3, <1>4, <1>5 DEF FollowAt

LEMMA FReadLast ==
  ASSUME GInv, Undisturbed, NEW m \in Monitors, FollowAt(m), NEW w \in Workers, ReadLast(w)
  PROVE  FollowAt(m)'
<1>1. PICK r \in WorkerState :
        /\ Becomes(w, r) /\ SameCheck(worker[w], r)
        /\ r.prev = lastStatus[worker[w].monitor]
        /\ r.pc = IF r.prev = NoStatus THEN "seed" ELSE "write"
  BY ReadLastDoes DEF GInv
<1>2. UNCHANGED <<stored, pending, lastStatus, told, baseline>> /\ worker[w].pc = "read"
  BY DEF ReadLast
<1>3. CASE worker[w].monitor # m
  BY <1>1, <1>2, <1>3, SameRows, FElsewhere DEF SameCheck
<1>4. CASE worker[w].monitor = m
  <2>1. Busy(w, m)
    BY <1>2, <1>4 DEF Busy
  <2>2. ToReport(w, m)'
    BY <1>1, <1>2, <1>4 DEF ToReport, Becomes
  <2> QED BY <1>1, <1>2, <2>1, <2>2, FGoesOn
<1> QED BY <1>3, <1>4

LEMMA FSeed ==
  ASSUME GInv, Undisturbed, NEW m \in Monitors, FollowAt(m), NEW w \in Workers, Seed(w)
  PROVE  FollowAt(m)'
<1>1. PICK r \in WorkerState :
        /\ Becomes(w, r) /\ SameCheck(worker[w], r) /\ r.pc = "write"
        /\ r.prev = SeedOf(worker[w].monitor, worker[w].result)
  BY SeedDoes DEF GInv
<1>2. UNCHANGED <<stored, pending, lastStatus, told, baseline>> /\ worker[w].pc = "seed"
  BY DEF Seed
<1>3. CASE worker[w].monitor # m
  BY <1>1, <1>2, <1>3, SameRows, FElsewhere DEF SameCheck
<1>4. CASE worker[w].monitor = m
  <2>1. Busy(w, m)
    BY <1>2, <1>4 DEF Busy
  <2>2. lastStatus[m] = NoStatus /\ NoneYet(m)
    BY <1>2, <2>1 DEF FollowAt, ToReport
  <2>3. Untold(m, SeedOf(m, worker[w].result), worker[w].result)
    <3>1. ~stopping
      BY DEF Undisturbed
    <3>2. CASE Latest(m) = NoStatus
      BY <3>1, <3>2 DEF SeedOf, Untold
    <3>3. CASE Latest(m) # NoStatus
      <4>1. PICK x \in stored : x.monitor = m /\ Latest(m) = x.status
        BY <3>3, LatestIsStored DEF GInv
      <4>2. x \in RowsOf(m)
        BY <4>1 DEF RowsOf
      <4>3. CASE m \in Heartbeats
        BY <2>2, <3>1, <3>3, <4>1, <4>2, <4>3 DEF NoneYet, SeedOf, Untold
      <4>4. CASE m \notin Heartbeats
        <5>1. x.status = worker[w].result
          BY <2>1, <2>2, <4>2, <4>4, Sole DEF NoneYet
        <5> QED BY <3>1, <4>1, <4>4, <5>1 DEF SeedOf, Untold
      <4> QED BY <4>3, <4>4
    <3> QED BY <3>2, <3>3
  <2>4. ToReport(w, m)'
    <3>1. worker'[w].pc = "write" /\ worker'[w].result = worker[w].result
          /\ worker'[w].prev = SeedOf(m, worker[w].result) /\ lastStatus'[m] = NoStatus
      BY <1>1, <1>2, <1>4, <2>2 DEF Becomes, SameCheck
    <3>2. Untold(m, worker'[w].prev, worker'[w].result)
      BY <2>3, <3>1
    <3> QED BY <3>1, <3>2 DEF ToReport, Untold
  <2> QED BY <1>1, <1>2, <2>1, <2>4, FGoesOn
<1> QED BY <1>3, <1>4

LEMMA StatusOf ==
  ASSUME StatusAssumption, GInv, NEW w \in Workers
  PROVE  /\ worker[w].monitor \in Monitors
         /\ worker[w].result \in Status /\ worker[w].result # NoStatus
BY Bounds, StateOf DEF GInv, TypeOK

\* The memory of the last and of the first status, and what is told.
LEMMA Written ==
  ASSUME StatusAssumption, GInv, NEW w \in Workers, WriteLast(w), NEW m \in Monitors
  PROVE  /\ worker[w].monitor # m =>
              lastStatus'[m] = lastStatus[m] /\ baseline'[m] = baseline[m]
         /\ worker[w].monitor = m =>
              /\ lastStatus'[m] = worker[w].result
              /\ baseline'[m] = IF baseline[m] = NoStatus THEN worker[w].result ELSE baseline[m]
BY StatusOf DEF GInv, TypeOK, WriteLast

LEMMA FWriteLast ==
  ASSUME StatusAssumption, GInv, Undisturbed, NEW m \in Monitors, FollowAt(m),
         NEW w \in Workers, WriteLast(w)
  PROVE  FollowAt(m)'
<1>1. UNCHANGED <<stored, pending, told>> /\ worker[w].pc = "write"
  BY DEF WriteLast
<1>2. RowsOf(m)' = RowsOf(m)
  BY <1>1, SameRows
<1>3. worker[w].result # NoStatus
  BY StatusOf
<1>4. \/ Uneventful(w) /\ Done(w)
      \/ Goes(w, IF worker[w].monitor \in Heartbeats THEN "log" ELSE "publish")
  BY WriteLastDoes DEF GInv
<1>5. CASE worker[w].monitor # m
  <2>1. lastStatus'[m] = lastStatus[m] /\ baseline'[m] = baseline[m]
    BY <1>5, Written
  <2>2. PICK r \in WorkerState : Becomes(w, r) /\ (r.pc = "idle" \/ r.monitor = worker[w].monitor)
    BY <1>4 DEF Done, Goes, SameCheck
  <2> QED BY <1>1, <1>2, <1>5, <2>1, <2>2, FElsewhere
<1>6. CASE worker[w].monitor = m
  <2>1. Busy(w, m) /\ \A v \in Workers : Busy(v, m) <=> v = w
    BY <1>1, <1>6, Sole DEF Busy
  <2> DEFINE res == worker[w].result
             prev == worker[w].prev
  <2>2. lastStatus'[m] = res
        /\ baseline'[m] = IF baseline[m] = NoStatus THEN res ELSE baseline[m]
    BY <1>6, Written
  <2>3. lastStatus[m] = NoStatus =>
          told[m] = "nothing" /\ baseline[m] = NoStatus /\ Untold(m, prev, res)
    BY <1>1, <2>1 DEF FollowAt, NoneYet, ToReport
  <2>4. lastStatus[m] # NoStatus =>
          /\ prev = lastStatus[m] /\ baseline[m] # NoStatus
          /\ Agrees(told[m], prev, baseline[m])
    BY <1>1, <2>1 DEF FollowAt, Reported, ToReport
  <2>5. CASE Uneventful(w) /\ Done(w)
    <3>1. \A v \in Workers : ~Busy(v, m)'
      BY <2>1, <2>5, NoneAfter
    <3>2. Agrees(told[m], res, baseline'[m])
      BY <2>2, <2>3, <2>4, <2>5 DEF Agrees, Uneventful
    <3> QED BY <1>1, <1>3, <2>2, <3>1, <3>2 DEF FollowAt
  <2>6. CASE Goes(w, IF m \in Heartbeats THEN "log" ELSE "publish")
    <3>1. PICK r \in WorkerState :
            /\ Becomes(w, r) /\ SameCheck(worker[w], r) /\ r.prev = prev
            /\ r.pc \in {"log", "publish"}
      BY <2>6 DEF Goes
    <3>2. \A v \in Workers : Busy(v, m)' <=> v = w
      BY <1>6, <2>1, <3>1, SoleAfter DEF SameCheck
    <3>3. worker'[w].pc \in {"log", "publish"} /\ worker'[w].prev = prev
          /\ worker'[w].result = res
      BY <3>1 DEF Becomes, SameCheck
    <3>4. \/ prev # NoStatus /\ Agrees(told[m], prev, baseline'[m])
          \/ told[m] = "nothing" /\ baseline'[m] = res /\ Untold(m, prev, res)
      BY <2>2, <2>3, <2>4
    <3>5. ToReport(w, m)'
      <4> HIDE DEF res, prev
      <4> QED BY <1>1, <2>2, <3>3, <3>4 DEF ToReport, Untold
    <3>6. ~Reported(m)'
      BY <3>2, <3>3 DEF Reported
    <3> QED BY <1>3, <2>2, <3>2, <3>5, <3>6 DEF FollowAt
  <2> QED BY <1>4, <1>6, <2>5, <2>6
<1> QED BY <1>5, <1>6

LEMMA FLogTransition ==
  ASSUME StatusAssumption, GInv, Undisturbed, NEW m \in Monitors, FollowAt(m),
         NEW w \in Workers, LogTransition(w)
  PROVE  FollowAt(m)'
<1> DEFINE k == worker[w].monitor
           row == NewRow(k, worker[w].result, worker[w].at)
<1>1. UNCHANGED <<stored, lastStatus, told, baseline>> /\ worker[w].pc = "log" /\ Enqueue(row)
  BY DEF LogTransition
<1>2. PICK r \in WorkerState :
        Becomes(w, r) /\ SameCheck(worker[w], r) /\ r.prev = worker[w].prev /\ r.pc = "publish"
  BY LogTransitionDoes DEF GInv, Goes
<1>3. row \in Row /\ row.monitor = k
  BY StateOf, NewRowIsRow DEF GInv, TypeOK
<1>4. pending' \subseteq pending \cup {row} /\ pending \subseteq pending'
  <2> HIDE DEF row
  <2> QED BY <1>1, <1>3, Enqueued DEF GInv
<1> HIDE DEF row
<1>5. CASE k # m
  <2>1. RowsOf(m)' = RowsOf(m)
    BY <1>1, <1>3, <1>4, <1>5, RowsElsewhere
  <2> QED BY <1>1, <1>2, <1>5, <2>1, FElsewhere DEF SameCheck
<1>6. CASE k = m
  <2>1. Busy(w, m) /\ \A v \in Workers : Busy(v, m)' <=> v = w
    BY <1>1, <1>2, <1>6, SoleAfter DEF Busy, SameCheck
  <2>2. worker'[w].pc = "publish" /\ worker'[w].prev = worker[w].prev
        /\ worker'[w].result = worker[w].result
    BY <1>2 DEF Becomes, SameCheck
  <2>3. ToReport(w, m) /\ lastStatus[m] # NoStatus
    BY <1>1, <2>1, StatusOf DEF FollowAt, ToReport
  <2>4. ToReport(w, m)'
    BY <1>1, <2>2, <2>3 DEF ToReport, Untold
  <2>5. ~Reported(m)'
    BY <2>1, <2>2 DEF Reported
  <2> QED BY <1>1, <2>1, <2>3, <2>4, <2>5 DEF FollowAt
<1> QED BY <1>5, <1>6

(* The event for a change of status tells the engine of it.                *)
LEMMA EventTells ==
  ASSUME StatusAssumption, NEW prev \in Status, NEW result \in Status,
         NEW event, NEW first, Agrees(event, prev, first)
  PROVE  LET e == EventFor(prev, result)
         IN  Agrees(IF e # "nothing" THEN e ELSE event, result, first)
<1> DEFINE e == EventFor(prev, result)
<1>1. CASE result # "up" /\ (prev = "up" \/ (result = "down" /\ prev = "degraded"))
  BY <1>1 DEF EventFor, Agrees
<1>2. CASE result = "up" /\ prev \in {"down", "degraded"}
  BY <1>2 DEF EventFor, Agrees
<1>3. CASE (result = "up" /\ prev = "up")
           \/ (result # "up" /\ prev # "up" /\ ~(result = "down" /\ prev = "degraded"))
  <2>1. e = "nothing"
    BY <1>3 DEF EventFor, Status
  <2> QED BY <1>3, <2>1 DEF Agrees
<1> QED BY <1>1, <1>2, <1>3 DEF Status

LEMMA FirstEventTells ==
  ASSUME StatusAssumption, NEW m, NEW prev, NEW result \in Status, Untold(m, prev, result)
  PROVE  LET e == EventFor(prev, result)
         IN  Agrees(IF e # "nothing" THEN e ELSE "nothing", result, result)
<1> DEFINE e == EventFor(prev, result)
<1>1. CASE prev = NoStatus \/ prev = result
  <2>1. NoStatus \notin Status
    BY Bounds
  <2>2. e = "nothing"
    BY <1>1, <2>1 DEF EventFor, Status
  <2> QED BY <2>2 DEF Agrees
<1>2. CASE prev = "up" /\ result # "up"
  BY <1>2 DEF EventFor, Agrees
<1> QED BY <1>1, <1>2 DEF Untold

LEMMA FPublishEvent ==
  ASSUME StatusAssumption, GInv, Undisturbed, NEW m \in Monitors, FollowAt(m),
         NEW w \in Workers, PublishEvent(w)
  PROVE  FollowAt(m)'
<1> DEFINE k == worker[w].monitor
           e == EventFor(worker[w].prev, worker[w].result)
<1>1. UNCHANGED <<stored, pending, lastStatus, baseline>> /\ worker[w].pc = "publish"
      /\ told' = IF Heard(e) THEN [told EXCEPT ![k] = e] ELSE told
  BY DEF PublishEvent
<1>2. PICK r \in WorkerState : Becomes(w, r) /\ r.pc = "idle"
  BY PublishEventDoes DEF GInv, Done
<1>3. k \in Monitors /\ told \in [Monitors -> {"nothing", "trigger", "recover"}]
  BY StatusOf DEF GInv, TypeOK
<1>4. Heard(e) <=> e # "nothing"
  BY DEF Heard, Undisturbed
<1>5. CASE k # m
  <2>1. told'[m] = told[m]
    <3> HIDE DEF k, e
    <3> QED BY <1>1, <1>3, <1>5
  <2> QED BY <1>1, <1>2, <1>5, <2>1, SameRows, FElsewhere
<1>6. CASE k = m
  <2>1. told'[m] = IF e # "nothing" THEN e ELSE told[m]
    <3> HIDE DEF k, e
    <3> QED BY <1>1, <1>3, <1>4, <1>6
  <2>2. Busy(w, m)
    BY <1>1, <1>6 DEF Busy
  <2>3. \A v \in Workers : ~Busy(v, m)'
    BY <2>2, PublishEventDoes, NoneAfter DEF GInv
  <2>4. ToReport(w, m) /\ lastStatus[m] = worker[w].result /\ lastStatus[m] # NoStatus
    BY <1>1, <2>2, StatusOf DEF FollowAt, ToReport
  <2>5. Agrees(told'[m], lastStatus[m], baseline[m])
    <3>1. CASE worker[w].prev # NoStatus /\ Agrees(told[m], worker[w].prev, baseline[m])
      <4>1. worker[w].prev \in Status /\ worker[w].result \in Status
        BY <3>1, StateOf DEF GInv, TypeOK
      <4> QED BY <2>1, <2>4, <3>1, <4>1, EventTells
    <3>2. CASE /\ told[m] = "nothing" /\ baseline[m] = worker[w].result
               /\ Untold(m, worker[w].prev, worker[w].result)
      <4>1. worker[w].result \in Status
        BY StatusOf
      <4> QED BY <2>1, <2>4, <3>2, <4>1, FirstEventTells
    <3> QED BY <1>1, <2>4, <3>1, <3>2 DEF ToReport
  <2>6. baseline[m] # NoStatus
    BY <2>4 DEF FollowAt
  <2> QED BY <1>1, <2>3, <2>4, <2>5, <2>6 DEF FollowAt
<1> QED BY <1>5, <1>6

LEMMA FOthers ==
  ASSUME StatusAssumption, GInv, NEW m \in Monitors, FollowAt(m),
         \/ \E row \in pending : Flush(row)
         \/ \E k \in Monitors : Ping(k) \/ \E status \in Status : TargetChanges(k, status)
  PROVE  FollowAt(m)'
<1>1. UNCHANGED <<worker, lastStatus, told, baseline>>
  BY DEF Flush, Ping, TargetChanges
<1>2. SameWorkers(m)
  BY <1>1, StillWorkers
<1>3. CASE RowsOf(m)' = RowsOf(m)
  BY <1>1, <1>2, <1>3, FollowFrame
<1>4. ASSUME NEW row \in pending, Flush(row) PROVE RowsOf(m)' = RowsOf(m)
  <2>1. (stored \cup pending)' = stored \cup pending
    BY <1>4 DEF Flush
  <2> QED BY <2>1 DEF RowsOf
<1>5. ASSUME NEW k \in Monitors, NEW status \in Status, TargetChanges(k, status)
      PROVE  RowsOf(m)' = RowsOf(m)
  BY <1>5, SameRows DEF TargetChanges
<1>6. ASSUME NEW k \in Monitors, Ping(k) PROVE FollowAt(m)'
  <2> DEFINE row == [monitor |-> k, status |-> "up", at |-> clock']
  <2>1. stored' = stored \cup {row} /\ pending' = pending /\ k \in Heartbeats
        /\ row.monitor = k /\ row.status = "up"
    BY <1>6 DEF Ping
  <2> HIDE DEF row
  <2>2. CASE k # m
    BY <1>3, <2>1, <2>2, RowsElsewhere
  <2>3. CASE k = m
    <3>1. RowsOf(m)' = RowsOf(m) \cup {row}
      BY <2>1, <2>3 DEF RowsOf
    <3>2. NoneYet(m) => NoneYet(m)'
      BY <1>1, <2>1, <2>3, <3>1 DEF NoneYet
    <3>3. Reported(m)' = Reported(m)
      BY <1>1 DEF Reported, Busy
    <3>4. ASSUME NEW v \in Workers, Busy(v, m)' PROVE ToReport(v, m)'
      <4>1. Busy(v, m)
        BY <1>1, <3>4 DEF Busy
      <4>2. ToReport(v, m)
        BY <4>1 DEF FollowAt
      <4> QED BY <1>1, <4>2 DEF ToReport, Untold
    <3> QED BY <1>1, <3>2, <3>3, <3>4 DEF FollowAt
  <2> QED BY <2>2, <2>3
<1> QED BY <1>3, <1>4, <1>5, <1>6

\* The process does not stop.
LEMMA GoesOn ==
  ASSUME GInv, Undisturbed, Undisturbed' PROVE ~(Shutdown \/ Restart \/ Crash)
BY DEF GInv, TypeOK, Undisturbed, Shutdown, Restart, Crash, NewProcess

LEMMA FStep ==
  ASSUME StatusAssumption, GInv, Undisturbed, Undisturbed', NEW m \in Monitors, FollowAt(m),
         [Next]_vars
  PROVE  FollowAt(m)'
<1>1. CASE UNCHANGED vars
  BY <1>1, SameRows, StillWorkers, FollowFrame DEF vars
<1>2. ASSUME NEW w \in Workers, WorkerStep(w) PROVE FollowAt(m)'
  BY <1>2, FReadLast, FSeed, FWriteLast, FLogTransition, FPublishEvent DEF WorkerStep
<1>3. CASE Next
  BY <1>2, <1>3, FRunCheck, FRunHeartbeat, FOthers, GoesOn DEF Next
<1> QED BY <1>1, <1>3

LEMMA FInit ==
  ASSUME StatusAssumption, EmptyAtFirst, Init, NEW m \in Monitors PROVE FollowAt(m)
<1>1. lastStatus[m] = NoStatus /\ told[m] = "nothing" /\ baseline[m] = NoStatus
  <2>1. OldStatus[m] = NoStatus /\ NoStatus \notin {"degraded", "down"}
    BY Bounds DEF EmptyAtFirst, Status
  <2> QED BY <2>1 DEF Init
<1>2. RowsOf(m) = {}
  BY DEF Init, RowsOf, EmptyAtFirst
<1>3. \A w \in Workers : ~Busy(w, m)
  BY IdleState DEF Init, Busy
<1> QED BY <1>1, <1>2, <1>3 DEF FollowAt, NoneYet

LEMMA FollowIsKnown ==
  ASSUME \A m \in Monitors : FollowAt(m) PROVE EventsFollowStatus
<1> SUFFICES ASSUME NEW m \in Monitors, Rest(m), lastStatus[m] # NoStatus
             PROVE  Agrees(told[m], lastStatus[m], baseline[m])
  BY DEF EventsFollowStatus, Agrees
<1>1. Reported(m)
  BY DEF Rest, Reported, Busy
<1> QED BY <1>1 DEF FollowAt

(* What the engine was told last agrees with the remembered status, in     *)
(* every behaviour in which the checks of a monitor do not overlap and the *)
(* process is not stopped.                                                 *)
THEOREM EventsFollow ==
  StatusAssumption /\ EmptyAtFirst => (Spec /\ []Undisturbed => []EventsFollowStatus)
<1> SUFFICES ASSUME StatusAssumption, EmptyAtFirst
             PROVE  Spec /\ []Undisturbed => []EventsFollowStatus
  OBVIOUS
<1> DEFINE All == \A m \in Monitors : FollowAt(m)
<1>1. Init => All
  BY FInit
<1>2. GInv /\ Undisturbed /\ Undisturbed' /\ All /\ [Next]_vars => All'
  BY FStep
<1>3. All => EventsFollowStatus
  BY FollowIsKnown
<1>4. Spec => []GInv
  BY StatusInvariant
<1> HIDE DEF All
<1> QED BY <1>1, <1>2, <1>3, <1>4, PTL DEF Spec

(***************************************************************************)
(* Outages: sets of rows.                                                  *)
(***************************************************************************)
LEMMA RowsTyped ==
  ASSUME GInv, NEW m
  PROVE  RowsOf(m) \subseteq Row /\ \A r \in RowsOf(m) : r.at \in Nat /\ r.at <= clock
BY DEF GInv, TypeOK, Past, Row, RowsOf

LEMMA AnsweredLater ==
  ASSUME NEW rows \in SUBSET Row, NEW n \in Nat, NEW k \in Nat, n <= k, Answered(rows, n)
  PROVE  Answered(rows, k)
<1> SUFFICES ASSUME NEW d \in rows, d.status = "down"
             PROVE  \E u \in rows : u.status = "up" /\ d.at < u.at /\ u.at < k
  BY DEF Answered
<1>1. PICK u \in rows : u.status = "up" /\ d.at < u.at /\ u.at < n
  BY DEF Answered
<1>2. u.at \in Nat
  BY DEF Row
<1>3. u.at < k
  BY <1>1, <1>2
<1> QED BY <1>1, <1>3

\* An up row more.
LEMMA WithUp ==
  ASSUME NEW rows, NEW row, row.status = "up"
  PROVE  /\ Between(rows) => Between(rows \cup {row})
         /\ \A n : Answered(rows, n) => Answered(rows \cup {row}, n)
<1>1. ASSUME Between(rows) PROVE Between(rows \cup {row})
  <2> SUFFICES ASSUME NEW first \in rows \cup {row}, NEW second \in rows \cup {row},
                      first.status = "down", second.status = "down", first.at < second.at
               PROVE  \E u \in rows : u.status = "up" /\ first.at < u.at /\ u.at < second.at
    BY DEF Between
  <2>1. first \in rows /\ second \in rows
    OBVIOUS
  <2> QED BY <1>1, <2>1 DEF Between
<1>2. ASSUME NEW n, Answered(rows, n) PROVE Answered(rows \cup {row}, n)
  BY <1>2 DEF Answered
<1> QED BY <1>1, <1>2

\* A down row more, after the up row that answers the one before.
LEMMA BetweenWithDown ==
  ASSUME NEW rows \in SUBSET Row, NEW row \in Row, Between(rows), Answered(rows, row.at)
  PROVE  Between(rows \cup {row})
<1> SUFFICES ASSUME NEW first \in rows \cup {row}, NEW second \in rows \cup {row},
                    first.status = "down", second.status = "down", first.at < second.at
             PROVE  \E u \in rows : u.status = "up" /\ first.at < u.at /\ u.at < second.at
  BY DEF Between
<1>0. first.at \in Nat /\ second.at \in Nat /\ row.at \in Nat
  BY DEF Row
<1>1. CASE first \in rows /\ second \in rows
  BY <1>1 DEF Between
<1>2. CASE first \in rows /\ second = row
  BY <1>2 DEF Answered
<1>3. CASE first = row /\ second \in rows
  <2>1. PICK u \in rows : second.at < u.at /\ u.at < row.at
    BY <1>3 DEF Answered
  <2>2. u.at \in Nat
    BY DEF Row
  <2> QED BY <1>0, <1>3, <2>1, <2>2
<1>4. CASE first = row /\ second = row
  BY <1>0, <1>4
<1> QED BY <1>1, <1>2, <1>3, <1>4

LEMMA AnsweredWithDown ==
  ASSUME NEW rows, NEW row, NEW n, Answered(rows, n),
         \E u \in rows : u.status = "up" /\ row.at < u.at /\ u.at < n
  PROVE  Answered(rows \cup {row}, n)
BY DEF Answered

LEMMA Successors ==
  ASSUME NEW a \in Nat, NEW b \in Nat, a <= b
  PROVE  a + 1 \in Nat /\ b + 1 \in Nat /\ a + 1 <= b + 1
OBVIOUS

LEMMA OutageFrame ==
  ASSUME GInv, NEW m \in Heartbeats, OutageAt(m), SameWorkers(m), RowsOf(m)' = RowsOf(m),
         lastStatus'[m] = lastStatus[m], target'[m] = target[m],
         clock' \in Nat, clock <= clock'
  PROVE  OutageAt(m)'
<1>0. clock \in Nat
  BY DEF GInv, TypeOK
<1>1. clock \in Nat /\ clock + 1 \in Nat /\ clock' + 1 \in Nat /\ clock + 1 <= clock' + 1
  BY <1>0, Successors
<1>2. Answered(RowsOf(m), clock + 1) => Answered(RowsOf(m), clock' + 1)
  BY <1>1, RowsTyped, AnsweredLater
<1>3. ASSUME NEW v \in Workers, Busy(v, m)' PROVE Seen(v, m)'
  <2>1. Busy(v, m) /\ worker'[v] = worker[v]
    BY <1>3 DEF SameWorkers
  <2>2. Seen(v, m)
    BY <2>1 DEF OutageAt
  <2> QED BY <2>1, <2>2 DEF Seen
<1>4. (target[m] = "up" \/ lastStatus[m] = "up") => Answered(RowsOf(m), clock' + 1)
  BY <1>2 DEF OutageAt
<1>5. /\ target'[m] \in {"up", "down"} /\ lastStatus'[m] \in {NoStatus, "up", "down"}
      /\ Between(RowsOf(m)')
  BY DEF OutageAt
<1> QED BY <1>3, <1>4, <1>5 DEF OutageAt

\* A step of a worker at work on another monitor.
LEMMA OElsewhere ==
  ASSUME GInv, NEW m \in Heartbeats, OutageAt(m), NEW w \in Workers, ~Busy(w, m),
         NEW r, Becomes(w, r), r.pc = "idle" \/ r.monitor # m,
         RowsOf(m)' = RowsOf(m),
         lastStatus'[m] = lastStatus[m], target'[m] = target[m],
         clock' \in Nat, clock <= clock'
  PROVE  OutageAt(m)'
BY OtherMonitor, OutageFrame

LEMMA SameClock == ASSUME GInv, UNCHANGED clock PROVE clock' \in Nat /\ clock <= clock'
BY DEF GInv, TypeOK

LEMMA ORunCheck ==
  ASSUME StatusAssumption, GInv, NEW m \in Heartbeats, OutageAt(m),
         NEW w \in Workers, NEW k \in Monitors, RunCheck(w, k)
  PROVE  OutageAt(m)'
<1> DEFINE row == NewRow(k, Result(k), clock')
<1>1. PICK r \in WorkerState : Becomes(w, r) /\ Fresh(r, k, Result(k), target[k], 0)
  BY RunCheckDoes DEF GInv
<1>2. clock' = clock + 1 /\ clock' \in Nat /\ clock \in Nat
  BY Clockwork DEF GInv, RunCheck
<1>3. row.monitor = k /\ row \in Row
  BY <1>2, NewRowIsRow, ResultIsStatus DEF GInv
<1>4. pending' \subseteq pending \cup {row} /\ pending \subseteq pending' /\ stored' = stored
  <2>1. Enqueue(row) /\ stored' = stored
    BY DEF RunCheck
  <2> HIDE DEF row
  <2> QED BY <1>3, <2>1, Enqueued DEF GInv
<1> HIDE DEF row
<1>5. worker[w].pc = "idle" /\ UNCHANGED <<lastStatus, target>> /\ k # m
  BY DEF RunCheck
<1>6. RowsOf(m)' = RowsOf(m)
  BY <1>3, <1>4, <1>5, RowsElsewhere
<1>7. ~Busy(w, m) /\ r.monitor # m /\ clock <= clock'
  BY <1>1, <1>2, <1>5 DEF Busy, Fresh
<1> QED BY <1>1, <1>2, <1>5, <1>6, <1>7, OElsewhere

LEMMA ORunHeartbeat ==
  ASSUME StatusAssumption, GInv, Undisturbed', NEW m \in Heartbeats, OutageAt(m),
         NEW w \in Workers, NEW k \in Monitors, RunHeartbeat(w, k)
  PROVE  OutageAt(m)'
<1>1. PICK r \in WorkerState : Becomes(w, r) /\ Fresh(r, k, target[k], target[k], clock')
  BY RunHeartbeatDoes DEF GInv
<1>2. worker[w].pc = "idle" /\ UNCHANGED <<stored, pending, lastStatus, target>>
  BY DEF RunHeartbeat
<1>3. RowsOf(m)' = RowsOf(m)
  BY <1>2, SameRows
<1>4. clock' = clock + 1 /\ clock' \in Nat /\ clock \in Nat /\ clock <= clock'
  BY Clockwork DEF GInv, RunHeartbeat
<1>5. CASE k # m
  <2>1. ~Busy(w, m) /\ r.monitor # m
    BY <1>1, <1>2, <1>5 DEF Busy, Fresh
  <2> QED BY <1>1, <1>2, <1>3, <1>4, <2>1, OElsewhere
<1>6. CASE k = m
  <2>0. m \in Monitors
    BY Bounds
  <2>1. r.pc = "read" /\ r.monitor = m /\ r.result = target[m] /\ r.at = clock + 1
    BY <1>1, <1>4, <1>6 DEF Fresh
  <2>2. \A v \in Workers : Busy(v, m)' <=> v = w
    BY <1>1, <1>2, <2>0, <2>1, NoneBefore
  <2>3. worker'[w] = r
    BY <1>1 DEF Becomes
  <2>4. (target[m] = "up" \/ lastStatus[m] = "up") => Answered(RowsOf(m), clock + 1)
    BY DEF OutageAt
  <2>5. Seen(w, m)'
    <3>1. target[m] \in {"up", "down"}
      BY DEF OutageAt
    <3> QED BY <1>2, <1>3, <2>1, <2>3, <2>4, <3>1 DEF Seen
  <2>6. Answered(RowsOf(m), clock + 1) => Answered(RowsOf(m), clock' + 1)
    BY <1>4, RowsTyped, AnsweredLater
  <2>7. /\ target'[m] \in {"up", "down"} /\ lastStatus'[m] \in {NoStatus, "up", "down"}
        /\ Between(RowsOf(m)')
    BY <1>2, <1>3 DEF OutageAt
  <2> QED BY <1>2, <1>3, <2>2, <2>4, <2>5, <2>6, <2>7 DEF OutageAt
<1> QED BY <1>5, <1>6

\* w goes on with its check of m, or is done with it.
LEMMA OGoesOn ==
  ASSUME StatusAssumption, GInv, Undisturbed, NEW m \in Heartbeats, OutageAt(m),
         NEW w \in Workers, Busy(w, m),
         NEW r \in WorkerState, Becomes(w, r),
         r.pc = "idle" \/ (r.monitor = m /\ Seen(w, m)'),
         UNCHANGED <<stored, pending, target, clock>>,
         lastStatus'[m] \in {NoStatus, "up", "down"},
         lastStatus'[m] = "up" => Answered(RowsOf(m), clock + 1)
  PROVE  OutageAt(m)'
<1>1. m \in Monitors /\ RowsOf(m)' = RowsOf(m)
  BY Bounds, SameRows
<1>2. \A v \in Workers : Busy(v, m)' => v = w /\ r.pc # "idle"
  BY <1>1, Sole DEF Busy, Becomes
<1> QED BY <1>1, <1>2 DEF OutageAt

LEMMA ORead ==
  ASSUME StatusAssumption, GInv, Undisturbed, NEW m \in Heartbeats, OutageAt(m),
         NEW w \in Workers, ReadLast(w) \/ Seed(w)
  PROVE  OutageAt(m)'
<1>1. PICK r \in WorkerState :
        Becomes(w, r) /\ SameCheck(worker[w], r) /\ r.pc \in {"seed", "write"}
  <2>1. CASE ReadLast(w)
    BY <2>1, ReadLastDoes DEF GInv
  <2>2. CASE Seed(w)
    BY <2>2, SeedDoes DEF GInv
  <2> QED BY <2>1, <2>2
<1>2. UNCHANGED <<stored, pending, lastStatus, target, clock>>
      /\ worker[w].pc \in {"read", "seed"}
  BY DEF ReadLast, Seed
<1>3. RowsOf(m)' = RowsOf(m)
  BY <1>2, SameRows
<1>4. CASE worker[w].monitor # m
  <2>1. ~Busy(w, m) /\ r.monitor # m
    BY <1>1, <1>4 DEF Busy, SameCheck
  <2> QED BY <1>1, <1>2, <1>3, <2>1, SameClock, OElsewhere
<1>5. CASE worker[w].monitor = m
  <2>1. Busy(w, m) /\ r.monitor = m
    BY <1>1, <1>2, <1>5 DEF Busy, SameCheck
  <2>2. worker'[w] = r
    BY <1>1 DEF Becomes
  <2>3. Seen(w, m)
    BY <2>1 DEF OutageAt
  <2>4. Seen(w, m)'
    <3>1. r.result = worker[w].result /\ r.at = worker[w].at
      BY <1>1 DEF SameCheck
    <3>2. r.pc # "log" /\ worker[w].pc \in {"read", "seed", "write"}
      BY <1>1, <1>2
    <3> QED BY <1>2, <1>3, <2>2, <2>3, <3>1, <3>2 DEF Seen
  <2>5. lastStatus'[m] \in {NoStatus, "up", "down"}
        /\ (lastStatus'[m] = "up" => Answered(RowsOf(m), clock + 1))
    BY <1>2 DEF OutageAt
  <2> QED BY <1>1, <1>2, <2>1, <2>4, <2>5, OGoesOn
<1> QED BY <1>4, <1>5

LEMMA OWriteLast ==
  ASSUME StatusAssumption, GInv, Undisturbed, NEW m \in Heartbeats, FollowAt(m), OutageAt(m),
         NEW w \in Workers, WriteLast(w)
  PROVE  OutageAt(m)'
<1>0. m \in Monitors
  BY Bounds
<1>1. UNCHANGED <<stored, pending, target, clock>> /\ worker[w].pc = "write"
  BY DEF WriteLast
<1>2. RowsOf(m)' = RowsOf(m)
  BY <1>1, SameRows
<1>3. \/ Uneventful(w) /\ Done(w)
      \/ ~Uneventful(w) /\ Goes(w, IF worker[w].monitor \in Heartbeats THEN "log" ELSE "publish")
  BY WriteLastDoes DEF GInv
<1>4. CASE worker[w].monitor # m
  <2>1. lastStatus'[m] = lastStatus[m]
    BY <1>0, <1>4, Written
  <2>2. PICK r \in WorkerState : Becomes(w, r) /\ (r.pc = "idle" \/ r.monitor = worker[w].monitor)
    BY <1>3 DEF Done, Goes, SameCheck
  <2>3. ~Busy(w, m) /\ (r.pc = "idle" \/ r.monitor # m)
    BY <1>4, <2>2 DEF Busy
  <2> QED BY <1>1, <1>2, <2>1, <2>2, <2>3, SameClock, OElsewhere
<1>5. CASE worker[w].monitor = m
  <2>1. Busy(w, m)
    BY <1>1, <1>5 DEF Busy
  <2>2. Seen(w, m) /\ ToReport(w, m)
    BY <2>1 DEF OutageAt, FollowAt
  <2>3. lastStatus'[m] = worker[w].result
    BY <1>0, <1>5, Written
  <2>4. lastStatus'[m] \in {NoStatus, "up", "down"}
    BY <2>2, <2>3 DEF Seen
  <2>5. lastStatus'[m] = "up" => Answered(RowsOf(m), clock + 1)
    <3> SUFFICES ASSUME worker[w].result = "up" PROVE Answered(RowsOf(m), clock + 1)
      BY <2>3
    <3>1. Answered(RowsOf(m), worker[w].at)
      BY <2>2 DEF Seen
    <3>2. worker[w].at \in Nat /\ clock \in Nat /\ worker[w].at <= clock
      BY StateOf DEF GInv, TypeOK, Past
    <3>3. clock + 1 \in Nat /\ worker[w].at <= clock + 1
      BY <3>2
    <3> QED BY <3>1, <3>2, <3>3, RowsTyped, AnsweredLater
  <2>6. CASE Done(w)
    <3>1. PICK r \in WorkerState : Becomes(w, r) /\ r.pc = "idle"
      BY <2>6 DEF Done
    <3> QED BY <1>1, <2>1, <2>4, <2>5, <3>1, OGoesOn
  <2>7. CASE ~Uneventful(w) /\ Goes(w, "log")
    <3>1. PICK r \in WorkerState :
            Becomes(w, r) /\ SameCheck(worker[w], r) /\ r.prev = worker[w].prev /\ r.pc = "log"
      BY <2>7 DEF Goes
    <3>2. worker'[w] = r /\ r.result = worker[w].result /\ r.at = worker[w].at /\ r.monitor = m
      BY <1>5, <3>1 DEF Becomes, SameCheck
    <3>3. worker[w].result = "down" => Answered(RowsOf(m), worker[w].at)
      <4> SUFFICES ASSUME worker[w].result = "down" PROVE Answered(RowsOf(m), worker[w].at)
        OBVIOUS
      <4>1. worker[w].prev # "down"
        BY <1>5, <2>7 DEF Uneventful
      <4>2. CASE lastStatus[m] = NoStatus
        <5>1. \A x \in RowsOf(m) : x.status = "up"
          BY <4>2 DEF FollowAt, NoneYet
        <5> QED BY <5>1 DEF Answered
      <4>3. CASE lastStatus[m] # NoStatus
        <5>1. lastStatus[m] # "down"
          BY <1>1, <2>2, <4>1, <4>3 DEF ToReport
        <5>2. lastStatus[m] = "up"
          BY <4>3, <5>1 DEF OutageAt
        <5> QED BY <1>1, <2>2, <5>2 DEF Seen
      <4> QED BY <4>2, <4>3
    <3>4. Seen(w, m)'
      BY <1>1, <1>2, <2>2, <3>1, <3>2, <3>3 DEF Seen
    <3> QED BY <1>1, <2>1, <2>4, <2>5, <3>1, <3>2, <3>4, OGoesOn
  <2> QED BY <1>3, <1>5, <2>6, <2>7
<1> QED BY <1>4, <1>5

LEMMA OLogTransition ==
  ASSUME StatusAssumption, GInv, Undisturbed, NEW m \in Heartbeats, FollowAt(m), OutageAt(m),
         NEW w \in Workers, LogTransition(w)
  PROVE  OutageAt(m)'
<1> DEFINE k == worker[w].monitor
           row == NewRow(k, worker[w].result, worker[w].at)
<1>0. m \in Monitors
  BY Bounds
<1>1. UNCHANGED <<stored, lastStatus, target, clock>> /\ worker[w].pc = "log" /\ Enqueue(row)
  BY DEF LogTransition
<1>2. PICK r \in WorkerState :
        Becomes(w, r) /\ SameCheck(worker[w], r) /\ r.prev = worker[w].prev /\ r.pc = "publish"
  BY LogTransitionDoes DEF GInv, Goes
<1>3. row \in Row /\ row.monitor = k /\ row.status = worker[w].result /\ row.at = worker[w].at
  BY StateOf, NewRowIsRow DEF GInv, TypeOK
<1>4. pending' = pending \cup {row} \/ pending' = pending
  BY <1>1 DEF Enqueue
<1> HIDE DEF row
<1>5. CASE k # m
  <2>1. RowsOf(m)' = RowsOf(m)
    BY <1>1, <1>3, <1>4, <1>5, RowsElsewhere
  <2>2. ~Busy(w, m) /\ r.monitor # m
    BY <1>2, <1>5 DEF Busy, SameCheck
  <2> QED BY <1>1, <1>2, <2>1, <2>2, SameClock, OElsewhere
<1>6. CASE k = m
  <2>1. Busy(w, m) /\ \A v \in Workers : Busy(v, m)' <=> v = w
    BY <1>0, <1>1, <1>2, <1>6, SoleAfter DEF Busy, SameCheck
  <2>2. worker'[w].pc = "publish" /\ worker'[w].at = worker[w].at
        /\ worker'[w].result = worker[w].result
    BY <1>2 DEF Becomes, SameCheck
  <2>3. Seen(w, m) /\ lastStatus[m] = worker[w].result
    BY <1>1, <2>1 DEF OutageAt, FollowAt, ToReport
  <2> DEFINE R == RowsOf(m)
  <2>4. RowsOf(m)' = R \/ RowsOf(m)' = R \cup {row}
    BY <1>1, <1>3, <1>4, <1>6 DEF RowsOf
  <2>5. R \in SUBSET Row /\ \A x \in R : x.at \in Nat /\ x.at <= clock
    BY RowsTyped
  <2>6. Between(R) /\ ((target[m] = "up" \/ lastStatus[m] = "up") => Answered(R, clock + 1))
    BY DEF OutageAt
  <2>7. target'[m] \in {"up", "down"} /\ lastStatus'[m] \in {NoStatus, "up", "down"}
    BY <1>1 DEF OutageAt
  <2> HIDE DEF R
  <2>8. CASE worker[w].result = "up"
    <3>1. /\ Between(R \cup {row})
          /\ \A n : Answered(R, n) => Answered(R \cup {row}, n)
      BY <1>3, <2>6, <2>8, WithUp
    <3>2. Between(RowsOf(m)') /\ \A n : Answered(R, n) => Answered(RowsOf(m)', n)
      BY <2>4, <2>6, <3>1
    <3>3. Answered(R, worker[w].at)
      BY <2>3, <2>8 DEF Seen, R
    <3>4. Seen(w, m)'
      BY <2>2, <2>8, <3>2, <3>3 DEF Seen
    <3> QED BY <1>1, <2>1, <2>6, <2>7, <3>2, <3>4 DEF OutageAt
  <2>9. CASE worker[w].result = "down"
    <3>1. Answered(R, row.at)
      BY <1>1, <1>3, <2>3, <2>9 DEF Seen, R
    <3>2. Between(R \cup {row})
      BY <1>3, <2>5, <2>6, <3>1, BetweenWithDown
    <3>3. Between(RowsOf(m)')
      BY <2>4, <2>6, <3>2
    <3>4. ASSUME target[m] = "up"
          PROVE  \E u \in R : u.status = "up" /\ row.at < u.at /\ u.at < clock + 1
      <4>1. PICK u \in R : u.status = "up" /\ row.at < u.at
        BY <1>3, <2>3, <2>9, <3>4 DEF Seen, R
      <4>2. u.at < clock + 1
        <5>1. u.at \in Nat /\ u.at <= clock /\ clock \in Nat
          BY <2>5 DEF GInv, TypeOK
        <5> QED BY <5>1
      <4> QED BY <4>1, <4>2
    <3>5. (target[m] = "up" \/ lastStatus[m] = "up") => Answered(RowsOf(m)', clock + 1)
      <4>1. lastStatus[m] # "up"
        BY <2>3, <2>9
      <4>2. ASSUME target[m] = "up" PROVE Answered(R \cup {row}, clock + 1)
        BY <2>6, <3>4, <4>2, AnsweredWithDown
      <4> QED BY <2>4, <2>6, <4>1, <4>2
    <3>6. Seen(w, m)'
      <4>1. target[m] = "up" =>
              \E u \in RowsOf(m)' : u.status = "up" /\ worker[w].at < u.at
        BY <1>3, <2>4, <3>4
      <4> QED BY <1>1, <2>2, <2>9, <4>1 DEF Seen
    <3> QED BY <1>1, <2>1, <2>7, <3>3, <3>5, <3>6 DEF OutageAt
  <2> QED BY <2>3, <2>8, <2>9 DEF Seen
<1> QED BY <1>5, <1>6

LEMMA OPublishEvent ==
  ASSUME StatusAssumption, GInv, Undisturbed, NEW m \in Heartbeats, OutageAt(m),
         NEW w \in Workers, PublishEvent(w)
  PROVE  OutageAt(m)'
<1>1. UNCHANGED <<stored, pending, lastStatus, target, clock>> /\ worker[w].pc = "publish"
  BY DEF PublishEvent
<1>2. PICK r \in WorkerState : Becomes(w, r) /\ r.pc = "idle"
  BY PublishEventDoes DEF GInv, Done
<1>3. CASE Busy(w, m)
  <2>1. lastStatus'[m] \in {NoStatus, "up", "down"}
        /\ (lastStatus'[m] = "up" => Answered(RowsOf(m), clock + 1))
    BY <1>1 DEF OutageAt
  <2> QED BY <1>1, <1>2, <1>3, <2>1, OGoesOn
<1>4. CASE ~Busy(w, m)
  BY <1>1, <1>2, <1>4, SameRows, SameClock, OElsewhere
<1> QED BY <1>3, <1>4

LEMMA OPing ==
  ASSUME StatusAssumption, GInv, NEW m \in Heartbeats, OutageAt(m), Ping(m)
  PROVE  OutageAt(m)'
<1> DEFINE row == [monitor |-> m, status |-> "up", at |-> clock']
           R == RowsOf(m)
<1>1. /\ stored' = stored \cup {row} /\ UNCHANGED <<pending, worker, lastStatus>>
      /\ row.monitor = m /\ row.status = "up" /\ row.at = clock'
  BY DEF Ping
<1>2. clock' = clock + 1 /\ clock' \in Nat /\ clock \in Nat
  BY Clockwork DEF GInv, Ping
<1>3. target'[m] = "up"
  BY Bounds DEF Ping, GInv, TypeOK
<1> HIDE DEF row
<1>4. RowsOf(m)' = R \cup {row}
  BY <1>1 DEF RowsOf
<1>5. R \subseteq Row /\ \A x \in R : x.at \in Nat /\ x.at <= clock
  BY RowsTyped
<1>6. Between(R)
  BY DEF OutageAt
<1> HIDE DEF R
<1>7. Between(RowsOf(m)') /\ \A n : Answered(R, n) => Answered(RowsOf(m)', n)
  BY <1>1, <1>4, <1>6, WithUp
<1>8. Answered(RowsOf(m)', clock' + 1)
  <2> SUFFICES ASSUME NEW d \in R \cup {row}, d.status = "down"
               PROVE  row.status = "up" /\ d.at < row.at /\ row.at < clock' + 1
    BY <1>4 DEF Answered
  <2>1. d \in R
    BY <1>1
  <2>2. d.at \in Nat /\ d.at <= clock
    BY <1>5, <2>1
  <2>3. d.at < row.at /\ row.at < clock' + 1
    BY <1>1, <1>2, <2>2
  <2> QED BY <1>1, <2>3
<1>9. ASSUME NEW v \in Workers, Busy(v, m)' PROVE Seen(v, m)'
  <2>1. worker'[v] = worker[v] /\ Busy(v, m)
    BY <1>1, <1>9 DEF Busy
  <2>2. Seen(v, m)
    BY <2>1 DEF OutageAt
  <2>3. worker[v].at < row.at /\ row \in RowsOf(m)'
    <3>1. worker[v].at \in Nat /\ worker[v].at <= clock
      BY StateOf DEF GInv, TypeOK, Past
    <3> QED BY <1>1, <1>2, <1>4, <3>1
  <2> QED BY <1>1, <1>7, <2>1, <2>2, <2>3 DEF Seen, R
<1>10. lastStatus'[m] \in {NoStatus, "up", "down"}
  BY <1>1 DEF OutageAt
<1> QED BY <1>3, <1>7, <1>8, <1>9, <1>10 DEF OutageAt

LEMMA OOthers ==
  ASSUME StatusAssumption, GInv, NEW m \in Heartbeats, OutageAt(m),
         \/ \E row \in pending : Flush(row)
         \/ \E k \in Monitors : Ping(k) \/ \E status \in Status : TargetChanges(k, status)
  PROVE  OutageAt(m)'
<1>0. m \in Monitors
  BY Bounds
<1>1. UNCHANGED <<worker, lastStatus>>
  BY DEF Flush, Ping, TargetChanges
<1>2. SameWorkers(m)
  BY <1>1, StillWorkers
<1>3. ASSUME NEW row \in pending, Flush(row) PROVE OutageAt(m)'
  <2>1. RowsOf(m)' = RowsOf(m)
    <3>1. (stored \cup pending)' = stored \cup pending
      BY <1>3 DEF Flush
    <3> QED BY <3>1 DEF RowsOf
  <2>2. UNCHANGED <<target, clock>>
    BY <1>3 DEF Flush
  <2> QED BY <1>1, <1>2, <2>1, <2>2, SameClock, OutageFrame
<1>4. ASSUME NEW k \in Monitors, k # m, Ping(k) PROVE OutageAt(m)'
  <2> DEFINE row == [monitor |-> k, status |-> "up", at |-> clock']
  <2>1. stored' = stored \cup {row} /\ pending' = pending /\ row.monitor = k
    BY <1>4 DEF Ping
  <2> HIDE DEF row
  <2>2. RowsOf(m)' = RowsOf(m)
    BY <1>4, <2>1, RowsElsewhere
  <2>3. clock' \in Nat /\ clock <= clock'
    BY <1>4, Clockwork DEF GInv, Ping
  <2>4. target'[m] = target[m]
    BY <1>0, <1>4 DEF Ping, GInv, TypeOK
  <2> QED BY <1>1, <1>2, <2>2, <2>3, <2>4, OutageFrame
<1>5. ASSUME NEW k \in Monitors, NEW status \in Status, TargetChanges(k, status)
      PROVE  OutageAt(m)'
  <2>1. UNCHANGED <<stored, pending, clock>>
    BY <1>5 DEF TargetChanges
  <2>2. RowsOf(m)' = RowsOf(m)
    BY <2>1, SameRows
  <2>3. CASE k # m
    <3>1. target'[m] = target[m]
      BY <1>0, <1>5, <2>3 DEF TargetChanges, GInv, TypeOK
    <3> QED BY <1>1, <1>2, <2>1, <2>2, <3>1, SameClock, OutageFrame
  <2>4. CASE k = m
    <3>1. target'[m] = "down"
      BY <1>0, <1>5, <2>4 DEF TargetChanges, GInv, TypeOK
    <3>2. ASSUME NEW v \in Workers, Busy(v, m)' PROVE Seen(v, m)'
      <4>1. Busy(v, m)
        BY <1>1, <3>2 DEF Busy
      <4>2. Seen(v, m)
        BY <4>1 DEF OutageAt
      <4> QED BY <1>1, <2>2, <3>1, <4>2 DEF Seen
    <3> QED BY <1>1, <2>1, <2>2, <3>1, <3>2 DEF OutageAt
  <2> QED BY <2>3, <2>4
<1> QED BY <1>3, <1>4, <1>5, OPing

LEMMA OStep ==
  ASSUME StatusAssumption, GInv, Undisturbed, Undisturbed', NEW m \in Heartbeats,
         FollowAt(m), OutageAt(m), [Next]_vars
  PROVE  OutageAt(m)'
<1>1. CASE UNCHANGED vars
  BY <1>1, SameRows, SameClock, StillWorkers, OutageFrame DEF vars
<1>2. ASSUME NEW w \in Workers, WorkerStep(w) PROVE OutageAt(m)'
  BY <1>2, ORead, OWriteLast, OLogTransition, OPublishEvent DEF WorkerStep
<1>3. CASE Next
  BY <1>2, <1>3, ORunCheck, ORunHeartbeat, OOthers, GoesOn DEF Next
<1> QED BY <1>1, <1>3

LEMMA OInit ==
  ASSUME StatusAssumption, EmptyAtFirst, Init, NEW m \in Heartbeats PROVE OutageAt(m)
<1>0. m \in Monitors
  BY Bounds
<1>1. target[m] = "down" /\ lastStatus[m] = NoStatus
  BY <1>0 DEF Init, EmptyAtFirst
<1>2. RowsOf(m) = {}
  BY DEF Init, RowsOf, EmptyAtFirst
<1>3. \A w \in Workers : ~Busy(w, m)
  BY IdleState DEF Init, Busy
<1> QED BY <1>1, <1>2, <1>3, Bounds DEF OutageAt, Between, Answered

LEMMA OutagesAreOnce ==
  ASSUME \A m \in Heartbeats : OutageAt(m) PROVE OncePerOutage
<1> SUFFICES ASSUME NEW first \in stored \cup pending, NEW second \in stored \cup pending,
                    first.monitor = second.monitor, first.monitor \in Heartbeats,
                    first.status = "down", second.status = "down", first.at < second.at
             PROVE  \E up \in stored \cup pending :
                      /\ up.monitor = first.monitor /\ up.status = "up"
                      /\ first.at < up.at /\ up.at < second.at
  BY DEF OncePerOutage
<1>1. PICK m \in Heartbeats : m = first.monitor
  OBVIOUS
<1>2. first \in RowsOf(m) /\ second \in RowsOf(m) /\ Between(RowsOf(m))
  BY <1>1 DEF RowsOf, OutageAt
<1>3. PICK u \in RowsOf(m) : u.status = "up" /\ first.at < u.at /\ u.at < second.at
  BY <1>2 DEF Between
<1> QED BY <1>1, <1>3 DEF RowsOf

(* One down row for each outage of a pinged monitor, in every behaviour in *)
(* which its evaluations do not overlap and the process is not stopped.    *)
THEOREM OneRowPerOutage ==
  StatusAssumption /\ EmptyAtFirst => (Spec /\ []Undisturbed => []OncePerOutage)
<1> SUFFICES ASSUME StatusAssumption, EmptyAtFirst
             PROVE  Spec /\ []Undisturbed => []OncePerOutage
  OBVIOUS
<1> DEFINE All == (\A m \in Monitors : FollowAt(m)) /\ \A m \in Heartbeats : OutageAt(m)
<1>1. Init => All
  BY FInit, OInit
<1>2. GInv /\ Undisturbed /\ Undisturbed' /\ All /\ [Next]_vars => All'
  BY FStep, OStep, Bounds
<1>3. All => OncePerOutage
  BY OutagesAreOnce
<1>4. Spec => []GInv
  BY StatusInvariant
<1> HIDE DEF All
<1> QED BY <1>1, <1>2, <1>3, <1>4, PTL DEF Spec

(* A process that stays up and has one worker is undisturbed.              *)
THEOREM OneWorkerIsUndisturbed ==
  StatusAssumption /\ MaxRestarts = 0 /\ (\A v, w \in Workers : v = w) =>
    (Spec => []Undisturbed)
<1> SUFFICES ASSUME StatusAssumption, MaxRestarts = 0, \A v, w \in Workers : v = w
             PROVE  Spec => []Undisturbed
  OBVIOUS
<1> DEFINE Running == restarts = 0 /\ stopping = FALSE
<1>1. Init => Running
  BY DEF Init
<1>2. Running /\ [Next]_vars => Running'
  <2> SUFFICES ASSUME Running, [Next]_vars PROVE Running'
    OBVIOUS
  <2>1. ~Shutdown /\ ~Restart /\ ~Crash
    BY DEF Shutdown, Restart, Crash
  <2>2. ASSUME NEW w \in Workers, WorkerStep(w) PROVE Running'
    BY <2>2 DEF WorkerStep, ReadLast, Seed, WriteLast, LogTransition, PublishEvent
  <2>3. CASE UNCHANGED vars
    BY <2>3 DEF vars
  <2> QED
    BY <2>1, <2>2, <2>3
       DEF Next, RunCheck, RunHeartbeat, Flush, Ping, TargetChanges
<1>3. Running => Undisturbed
  BY DEF Undisturbed
<1> QED BY <1>1, <1>2, <1>3, PTL DEF Spec

=============================================================================
