---------------------------- MODULE CheckStatus ----------------------------
(***************************************************************************)
(* From check results to alert events: executeCheck and                    *)
(* executeHeartbeatCheck of internal/checker/scheduler.go.  Every worker   *)
(* compares its result with lastStatus, a map in memory that is seeded     *)
(* from the newest stored row, and publishes alert.trigger or              *)
(* alert.recover when the status has changed.  Rows reach the database     *)
(* later, through the batch writer; the read and the write of lastStatus   *)
(* are two critical sections.                                              *)
(***************************************************************************)
EXTENDS Integers, FiniteSets

CONSTANTS
  Monitors,
  Heartbeats,     \* monitors that are pinged instead of checked
  Workers,        \* goroutines of the worker pool
  OldStatus,      \* status of the row stored by an earlier process, or NoStatus
  NoStatus,       \* no row, no entry in lastStatus
  MaxRows,        \* bound: checks and pings
  MaxChanges,     \* bound: changes of a target
  MaxRestarts     \* bound: shutdowns and crashes

Status == {"up", "degraded", "down"}

StatusAssumption ==
  /\ Monitors # {} /\ Heartbeats \subseteq Monitors
  /\ NoStatus \notin Status
  /\ OldStatus \in [Monitors -> Status \cup {NoStatus}]
  /\ MaxRows \in Nat /\ MaxChanges \in Nat /\ MaxRestarts \in Nat

VARIABLES
  target,      \* what a check of each monitor finds; for a heartbeat monitor,
               \* whether a ping has come within the grace period
  stored,      \* rows of monitor_checks
  pending,     \* rows in the batch writer
  lastStatus,  \* the scheduler's map
  worker,      \* the workers: program counter and local variables
  stopping,    \* whether the scheduler's context is cancelled
  told,        \* history: the last alert event published for each monitor
  baseline,    \* history: the first status of each monitor
  clock,       \* orders rows (checked_at), counts checks and pings
  changes, restarts

vars == <<target, stored, pending, lastStatus, worker, stopping, told, baseline,
          clock, changes, restarts>>

Row == [monitor : Monitors, status : Status, at : Nat]

(***************************************************************************)
(* read, seed, write: the three accesses to the previous status; log: the  *)
(* heartbeat evaluator enqueues its row; publish: the alert event.         *)
(***************************************************************************)
WorkerState ==
  [pc : {"idle", "read", "seed", "write", "log", "publish"},
   monitor : Monitors,
   result : Status,
   real : Status,        \* history: what the target was when it was checked
   at : Nat,             \* now: when the evaluation began
   prev : Status \cup {NoStatus}]

TypeOK ==
  /\ target \in [Monitors -> Status]
  /\ stored \subseteq Row /\ pending \subseteq Row
  /\ lastStatus \in [Monitors -> Status \cup {NoStatus}]
  /\ worker \in [Workers -> WorkerState]
  /\ stopping \in BOOLEAN
  /\ told \in [Monitors -> {"nothing", "trigger", "recover"}]
  /\ baseline \in [Monitors -> Status \cup {NoStatus}]
  /\ clock \in Nat /\ changes \in Nat /\ restarts \in Nat

Idle == [pc |-> "idle", monitor |-> CHOOSE m \in Monitors : TRUE, result |-> "up",
         real |-> "up", at |-> 0, prev |-> NoStatus]

\* An earlier process has told the engine of the status it left behind.
Init ==
  /\ target = [m \in Monitors |->
       IF OldStatus[m] # NoStatus THEN OldStatus[m]
       ELSE IF m \in Heartbeats THEN "down" ELSE "up"]
  /\ stored = {[monitor |-> m, status |-> OldStatus[m], at |-> 0] :
                 m \in {n \in Monitors : OldStatus[n] # NoStatus}}
  /\ pending = {}
  /\ lastStatus = [m \in Monitors |-> NoStatus]
  /\ worker = [w \in Workers |-> Idle]
  /\ stopping = FALSE
  /\ told = [m \in Monitors |->
       IF OldStatus[m] \in {"degraded", "down"} THEN "trigger" ELSE "nothing"]
  /\ baseline = OldStatus
  /\ clock = 0 /\ changes = 0 /\ restarts = 0

---------------------------------------------------------------------------
\* GetLatest: ORDER BY checked_at DESC LIMIT 1.
Latest(m) ==
  LET rows == {r \in stored : r.monitor = m} IN
  IF rows = {} THEN NoStatus
  ELSE (CHOOSE r \in rows : \A other \in rows : other.at <= r.at).status

NewRow(m, status, at) == [monitor |-> m, status |-> status, at |-> at]

\* Enqueue never blocks: with a full buffer the row is dropped.
Enqueue(row) == pending' = pending \cup {row} \/ UNCHANGED pending

Tick == clock < MaxRows /\ clock' = clock + 1

\* The result of a check.  Once the context is cancelled every request fails.
Result(m) == IF stopping THEN "down" ELSE target[m]

\* runCheck of an ordinary monitor, up to and including the enqueued row.
RunCheck(w, m) ==
  /\ worker[w].pc = "idle" /\ m \notin Heartbeats
  /\ Tick
  /\ Enqueue(NewRow(m, Result(m), clock'))
  /\ worker' = [worker EXCEPT ![w] =
       [Idle EXCEPT !.pc = "read", !.monitor = m, !.result = Result(m),
                    !.real = target[m]]]
  /\ UNCHANGED <<target, stored, lastStatus, stopping, told, baseline, changes, restarts>>

\* A monitor that has never been pinged is down as well as one whose last ping
\* is older than the grace period.
HeartbeatResult(m) == target[m]

\* runCheck of a heartbeat monitor: look at the last ping.  With a cancelled
\* context the query fails and the check is given up.
RunHeartbeat(w, m) ==
  /\ worker[w].pc = "idle" /\ m \in Heartbeats /\ ~stopping
  /\ Tick
  /\ worker' = [worker EXCEPT ![w] =
       [Idle EXCEPT !.pc = "read", !.monitor = m, !.result = HeartbeatResult(m),
                    !.real = target[m], !.at = clock']]
  /\ UNCHANGED <<target, stored, pending, lastStatus, stopping, told, baseline,
                 changes, restarts>>

\* First critical section on lastStatus.
ReadLast(w) ==
  LET last == lastStatus[worker[w].monitor] IN
  /\ worker[w].pc = "read"
  /\ worker' = [worker EXCEPT ![w].prev = last,
                              ![w].pc = IF last = NoStatus THEN "seed" ELSE "write"]
  /\ UNCHANGED <<target, stored, pending, lastStatus, stopping, told, baseline,
                 clock, changes, restarts>>

\* The query for the seed; it fails when the context is cancelled.
SeedOf(m, result) ==
  LET latest == IF stopping THEN NoStatus ELSE Latest(m) IN
  IF m \in Heartbeats /\ latest = NoStatus THEN result ELSE latest

Seed(w) ==
  /\ worker[w].pc = "seed"
  /\ worker' = [worker EXCEPT ![w].pc = "write",
                              ![w].prev = SeedOf(worker[w].monitor, worker[w].result)]
  /\ UNCHANGED <<target, stored, pending, lastStatus, stopping, told, baseline,
                 clock, changes, restarts>>

\* Second critical section.  The heartbeat evaluator is done unless the status
\* has changed.
BugUneventful(w) == FALSE
Uneventful(w) ==
  worker[w].monitor \in Heartbeats /\ worker[w].prev = worker[w].result

WriteLast(w) ==
  LET m == worker[w].monitor IN
  /\ worker[w].pc = "write"
  /\ lastStatus' = [lastStatus EXCEPT ![m] = worker[w].result]
  /\ baseline' = [baseline EXCEPT ![m] = IF @ = NoStatus THEN worker[w].result ELSE @]
  /\ \/ Uneventful(w) /\ worker' = [worker EXCEPT ![w] = Idle]
     \/ /\ ~Uneventful(w)
        /\ worker' = [worker EXCEPT ![w].pc = IF m \in Heartbeats THEN "log" ELSE "publish"]
  /\ UNCHANGED <<target, stored, pending, stopping, told, clock, changes, restarts>>

\* The evaluator's row of a transition.
LogTransition(w) ==
  /\ worker[w].pc = "log"
  /\ Enqueue(NewRow(worker[w].monitor, worker[w].result, worker[w].at))
  /\ worker' = [worker EXCEPT ![w].pc = "publish"]
  /\ UNCHANGED <<target, stored, lastStatus, stopping, told, baseline, clock, changes,
                 restarts>>

\* Which event a change of status calls for.
BugEventFor(prev, result) ==
  CASE result # "up" /\ prev = "up"            -> "trigger"
    [] result = "down" /\ prev = "degraded"    -> "trigger"
    [] result = "up" /\ prev = "down"          -> "recover"
    [] OTHER                                   -> "nothing"
EventFor(prev, result) ==
  CASE result # "up" /\ prev = "up"                     -> "trigger"
    [] result = "down" /\ prev = "degraded"             -> "trigger"
    [] result = "up" /\ prev \in {"down", "degraded"}   -> "recover"
    [] OTHER                                            -> "nothing"

\* The event is published with the scheduler's context: once that is
\* cancelled the engine's queries fail and the event has no effect.
BugHeard(event) == event # "nothing"
Heard(event) == event # "nothing" /\ ~stopping

PublishEvent(w) ==
  LET m     == worker[w].monitor
      event == EventFor(worker[w].prev, worker[w].result)
  IN
  /\ worker[w].pc = "publish"
  /\ told' = IF Heard(event) THEN [told EXCEPT ![m] = event] ELSE told
  /\ worker' = [worker EXCEPT ![w] = Idle]
  /\ UNCHANGED <<target, stored, pending, lastStatus, stopping, baseline, clock, changes,
                 restarts>>

---------------------------------------------------------------------------
\* The batch writer stores a row.
Flush(row) ==
  /\ row \in pending
  /\ pending' = pending \ {row}
  /\ stored' = stored \cup {row}
  /\ UNCHANGED <<target, lastStatus, worker, stopping, told, baseline, clock, changes,
                 restarts>>

\* The target changes.  A heartbeat monitor goes down by silence only.
TargetChanges(m, status) ==
  /\ changes < MaxChanges /\ status # target[m]
  /\ m \in Heartbeats => status = "down"
  /\ changes' = changes + 1
  /\ target' = [target EXCEPT ![m] = status]
  /\ UNCHANGED <<stored, pending, lastStatus, worker, stopping, told, baseline, clock, restarts>>

\* POST of a heartbeat: the handler stores an up row itself.
Ping(m) ==
  /\ m \in Heartbeats
  /\ Tick
  /\ target' = [target EXCEPT ![m] = "up"]
  /\ stored' = stored \cup
       {[monitor |-> m, status |-> "up", at |-> clock']}
  /\ UNCHANGED <<pending, lastStatus, worker, stopping, told, baseline, changes, restarts>>

\* SIGTERM: the context is cancelled, queued checks still run.
Shutdown ==
  /\ ~stopping /\ restarts < MaxRestarts
  /\ stopping' = TRUE
  /\ UNCHANGED <<target, stored, pending, lastStatus, worker, told, baseline, clock, changes,
                 restarts>>

NewProcess ==
  /\ lastStatus' = [m \in Monitors |-> NoStatus]
  /\ worker' = [w \in Workers |-> Idle]
  /\ stopping' = FALSE
  /\ pending' = {}
  /\ restarts' = restarts + 1
  /\ UNCHANGED <<target, told, baseline, clock, changes>>

\* The end of an orderly stop (the pool drained, the writer flushed) and the
\* next start.
Restart ==
  /\ stopping
  /\ \A w \in Workers : worker[w].pc = "idle"
  /\ stored' = stored \cup pending
  /\ NewProcess

\* The process dies: what the batch writer holds is lost.
Crash ==
  /\ restarts < MaxRestarts
  /\ UNCHANGED stored
  /\ NewProcess

---------------------------------------------------------------------------
WorkerStep(w) ==
  \/ ReadLast(w) \/ Seed(w) \/ WriteLast(w) \/ LogTransition(w) \/ PublishEvent(w)

Next ==
  \/ \E w \in Workers, m \in Monitors : RunCheck(w, m) \/ RunHeartbeat(w, m)
  \/ \E w \in Workers : WorkerStep(w)
  \/ \E row \in pending : Flush(row)
  \/ \E m \in Monitors : Ping(m) \/ \E status \in Status : TargetChanges(m, status)
  \/ Shutdown \/ Restart \/ Crash

Spec == Init /\ [][Next]_vars

---------------------------------------------------------------------------
\* No worker is at work on m.
Rest(m) == \A w \in Workers : worker[w].pc = "idle" \/ worker[w].monitor # m

\* Between checks, what the engine was told last agrees with the status that
\* the scheduler remembers: no transition is missed, invented or reported the
\* wrong way round, whether or not rows are dropped or delayed.  It takes one
\* worker per monitor and an empty database (README, section 3).
EventsFollowStatus ==
  \A m \in Monitors : Rest(m) /\ lastStatus[m] # NoStatus =>
    CASE told[m] = "trigger" -> lastStatus[m] # "up"
      [] told[m] = "recover" -> lastStatus[m] = "up"
      [] OTHER               -> lastStatus[m] = "up" <=> baseline[m] = "up"

\* "Up checks are written by the POST ingest handler; Down checks come from us
\* here, exactly once per outage": between two down rows of a heartbeat
\* monitor there is an up row.
OncePerOutage ==
  \A first, second \in stored \cup pending :
    /\ first.monitor = second.monitor /\ first.monitor \in Heartbeats
    /\ first.status = "down" /\ second.status = "down" /\ first.at < second.at
    => \E up \in stored \cup pending :
         /\ up.monitor = first.monitor /\ up.status = "up"
         /\ first.at < up.at /\ up.at < second.at

\* The engine is alarmed only by a check whose target was not up at the time:
\* neither a shutdown, which makes every queued check fail, nor a crash, nor
\* checks of one monitor that overlap raise an alert on their own.
FalseAlarm ==
  \E w \in Workers : LET m == worker[w].monitor IN
    /\ worker[w].pc = "publish" /\ worker'[w].pc = "idle"
    /\ told[m] # "trigger" /\ told'[m] = "trigger"
    /\ worker[w].real = "up"

NoFalseAlarm == [][~FalseAlarm]_vars
=============================================================================
