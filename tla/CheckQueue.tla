----------------------------- MODULE CheckQueue -----------------------------
(***************************************************************************)
(* The scheduler's dispatch of due checks (internal/checker/scheduler.go): *)
(* tickers publish check.due messages, dispatchCheckDue puts each into one *)
(* of two bounded channels, a pool of workers takes them out, priority     *)
(* first, and Stop drains the pool.                                        *)
(***************************************************************************)
EXTENDS Integers, Sequences, FiniteSets

CONSTANTS
  Monitors,
  Fast,           \* monitors whose interval is at most the priority threshold
  Workers,        \* goroutines of the worker pool
  PrioritySize, RegularSize,   \* capacities of the two channels
  MaxTicks        \* bound: check.due messages

QueueAssumption ==
  /\ Fast \subseteq Monitors
  /\ Workers # {} /\ IsFiniteSet(Workers)
  /\ PrioritySize \in Nat \ {0} /\ RegularSize \in Nat \ {0}
  /\ MaxTicks \in Nat

VARIABLES
  phase,       \* how far Stop has come
  due,         \* check.due messages on the bus, per monitor
  sending,     \* dispatchers that have chosen a channel, per <<channel, monitor>>
  queue,       \* contents of the two channels
  worker,      \* the workers: program counter and the check they run
  panicked,    \* a dispatcher sent on a closed channel: the process dies
  ticks,       \* counts check.due messages
  overtaken    \* history: regular checks taken past waiting priority checks

vars == <<phase, due, sending, queue, worker, panicked, ticks, overtaken>>

Channels == {"priority", "regular"}

(***************************************************************************)
(* running; tickers stopped and the runners forgotten; priorityCh closed;  *)
(* both channels closed; the workers have returned.                        *)
(***************************************************************************)
Phases == {"running", "cancelled", "closing", "closed", "stopped"}

Closed(c) ==
  \/ phase \in {"closed", "stopped"}
  \/ c = "priority" /\ phase = "closing"

(***************************************************************************)
(* poll: the select with a default; wait: the blocking select; drain: the  *)
(* loop over the channel that is left once the other one is closed; run:   *)
(* runCheck, after which the worker goes back to where it came from.       *)
(***************************************************************************)
WorkerState ==
  [pc : {"poll", "wait", "drain", "run", "exited"},
   back : {"poll", "drain"},
   from : Channels]      \* the channel it drains

TypeOK ==
  /\ phase \in Phases
  /\ due \in [Monitors -> Nat]
  /\ sending \in [Channels \X Monitors -> Nat]
  /\ queue \in [Channels -> Seq(Monitors)]
  /\ Len(queue["priority"]) <= PrioritySize /\ Len(queue["regular"]) <= RegularSize
  /\ worker \in [Workers -> WorkerState]
  /\ panicked \in BOOLEAN
  /\ ticks \in Nat /\ overtaken \in Nat

Init ==
  /\ phase = "running"
  /\ due = [m \in Monitors |-> 0]
  /\ sending = [x \in Channels \X Monitors |-> 0]
  /\ queue = [c \in Channels |-> <<>>]
  /\ worker = [w \in Workers |-> [pc |-> "poll", back |-> "poll", from |-> "regular"]]
  /\ panicked = FALSE
  /\ ticks = 0 /\ overtaken = 0

Capacity(c) == IF c = "priority" THEN PrioritySize ELSE RegularSize

---------------------------------------------------------------------------
\* A runner's ticker fires.
Tick(m) ==
  /\ ~panicked /\ phase = "running" /\ ticks < MaxTicks
  /\ ticks' = ticks + 1
  /\ due' = [due EXCEPT ![m] = @ + 1]
  /\ UNCHANGED <<phase, sending, queue, worker, panicked, overtaken>>

\* dispatchCheckDue looks the runner up.  Once Stop has removed it the
\* message takes the regular channel.
ChannelOf(m) == IF m \in Fast /\ phase = "running" THEN "priority" ELSE "regular"

Route(m) ==
  /\ ~panicked /\ due[m] > 0
  /\ due' = [due EXCEPT ![m] = @ - 1]
  /\ sending' = [sending EXCEPT ![<<ChannelOf(m), m>>] = @ + 1]
  /\ UNCHANGED <<phase, queue, worker, panicked, ticks, overtaken>>

\* A send that never blocks: a full channel drops the message, a closed one
\* panics.
HasRoom(c) == Len(queue[c]) < Capacity(c)

Send(c, m) ==
  /\ ~panicked /\ sending[<<c, m>>] > 0
  /\ sending' = [sending EXCEPT ![<<c, m>>] = @ - 1]
  /\ \/ Closed(c) /\ panicked' = TRUE /\ UNCHANGED queue
     \/ /\ ~Closed(c) /\ HasRoom(c)
        /\ queue' = [queue EXCEPT ![c] = Append(@, m)]
        /\ UNCHANGED panicked
     \/ ~Closed(c) /\ ~HasRoom(c) /\ UNCHANGED <<queue, panicked>>
  /\ UNCHANGED <<phase, due, worker, ticks, overtaken>>

---------------------------------------------------------------------------
(***************************************************************************)
(* checkWorker.                                                            *)
(***************************************************************************)
Move(w, pc, from) ==
  worker' = [worker EXCEPT ![w] = [pc |-> pc, back |-> @.back, from |-> from]]

\* The worker receives from c and runs the check.
Receive(w, c, back) ==
  /\ queue[c] # <<>>
  /\ queue' = [queue EXCEPT ![c] = Tail(@)]
  /\ worker' = [worker EXCEPT ![w] = [pc |-> "run", back |-> back, from |-> @.from]]
  /\ overtaken' = IF c = "regular" /\ queue["priority"] # <<>> THEN overtaken + 1 ELSE 0
  /\ UNCHANGED <<phase, due, sending, panicked, ticks>>

\* A channel that is closed and empty: go on with the other one.
Exhausted(c) == Closed(c) /\ queue[c] = <<>>

BugLeave(w, c) ==
  /\ Exhausted(c)
  /\ Move(w, "poll", worker[w].from)
  /\ UNCHANGED <<phase, due, sending, queue, panicked, ticks, overtaken>>
Leave(w, c) ==
  /\ Exhausted(c)
  /\ Move(w, "drain", IF c = "priority" THEN "regular" ELSE "priority")
  /\ UNCHANGED <<phase, due, sending, queue, panicked, ticks, overtaken>>

\* Nothing is ready on the priority channel: the select takes its default.
BugPollMisses(w) == ~Exhausted("priority")
PollMisses(w) == ~Exhausted("priority") /\ queue["priority"] = <<>>

Poll(w) ==
  /\ ~panicked /\ worker[w].pc = "poll"
  /\ \/ Receive(w, "priority", "poll")
     \/ Leave(w, "priority")
     \/ /\ PollMisses(w)
        /\ Move(w, "wait", worker[w].from)
        /\ UNCHANGED <<phase, due, sending, queue, panicked, ticks, overtaken>>

\* Go's select picks at random among the channels that are ready.
Wait(w) ==
  /\ ~panicked /\ worker[w].pc = "wait"
  /\ \E c \in Channels : Receive(w, c, "poll") \/ Leave(w, c)

Drain(w) ==
  /\ ~panicked /\ worker[w].pc = "drain"
  /\ \/ Receive(w, worker[w].from, "drain")
     \/ /\ Exhausted(worker[w].from)
        /\ Move(w, "exited", worker[w].from)
        /\ UNCHANGED <<phase, due, sending, queue, panicked, ticks, overtaken>>

\* runCheck returns; a check has a timeout, so it does return.
RunEnds(w) ==
  /\ ~panicked /\ worker[w].pc = "run"
  /\ Move(w, worker[w].back, worker[w].from)
  /\ UNCHANGED <<phase, due, sending, queue, panicked, ticks, overtaken>>

---------------------------------------------------------------------------
(***************************************************************************)
(* Stop: cancel and forget the runners, close one channel, then the other, *)
(* wait for the workers.                                                   *)
(***************************************************************************)
StopStep(from, to) ==
  /\ ~panicked /\ phase = from
  /\ phase' = to
  /\ UNCHANGED <<due, sending, queue, worker, panicked, ticks, overtaken>>

StopRunners   == StopStep("running", "cancelled")
ClosePriority == StopStep("cancelled", "closing")
CloseRegular  == StopStep("closing", "closed")

StopReturns ==
  /\ \A w \in Workers : worker[w].pc = "exited"
  /\ StopStep("closed", "stopped")

WorkerStep(w) == Poll(w) \/ Wait(w) \/ Drain(w) \/ RunEnds(w)

StopNext == ClosePriority \/ CloseRegular \/ StopReturns

Next ==
  \/ \E m \in Monitors : Tick(m) \/ Route(m)
  \/ \E c \in Channels, m \in Monitors : Send(c, m)
  \/ \E w \in Workers : WorkerStep(w)
  \/ StopRunners \/ StopNext

Spec == Init /\ [][Next]_vars

---------------------------------------------------------------------------
\* What the two selects of checkWorker guarantee: each worker takes at most
\* one regular check past priority checks that are waiting, whatever the
\* moment they arrive.
OvertakingBounded == overtaken <= Cardinality(Workers)

\* When Stop returns, no accepted check is left behind, whichever channel each
\* worker happened to find closed first.
StopDrains ==
  phase = "stopped" =>
    /\ \A c \in Channels : queue[c] = <<>>
    /\ \A w \in Workers : worker[w].pc = "exited"
=============================================================================
