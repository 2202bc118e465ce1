------------------------------- MODULE Notify -------------------------------
(***************************************************************************)
(* The notification dispatcher and one worker pool                         *)
(* (internal/notify/dispatcher.go, worker.go): jobs from the bus are       *)
(* deduplicated, submitted to a bounded channel and sent with retries;     *)
(* what cannot be sent is dead-lettered.  Each delivery of the bus runs    *)
(* Dispatch in a goroutine of its own.                                     *)
(***************************************************************************)
EXTENDS Integers, Sequences, FiniteSets

CONSTANTS
  Jobs,          \* notification jobs
  Keys,          \* deduplication keys
  Key,           \* Key[j]: DedupeKey of j (alert, step, recipient)
  Routable,      \* jobs whose channel has a registered provider
  Workers,       \* the pool's goroutines (MaxConcurrency of them)
  QueueSize,     \* capacity of the job channel
  MaxAttempts,   \* maxRetries
  NoJob,
  MaxExpiries    \* bound: expiries of deduplication entries

ASSUME NotifyAssumption ==
  /\ Key \in [Jobs -> Keys]
  /\ Routable \subseteq Jobs
  /\ NoJob \notin Jobs
  /\ Workers # {}
  /\ QueueSize \in Nat \ {0}
  /\ MaxAttempts \in Nat \ {0}
  /\ MaxExpiries \in Nat

VARIABLES
  stage,      \* where each job is
  seen,       \* keys seen within dedupeTTL
  queue,      \* the job channel
  closed,     \* whether the channel is closed
  worker,     \* the workers: program counter, job, failed attempts
  stopped,    \* the pool's stopped flag
  cancelled,  \* whether the context of the workers is cancelled
  returned,   \* whether Stop has returned
  accepted,   \* history: jobs that passed deduplication since their key last expired
  failures,   \* history: failed attempts of each job
  expiries

vars == <<stage, seen, queue, closed, worker, stopped, cancelled, returned,
          accepted, failures, expiries>>

(***************************************************************************)
(* unsent; published: on the bus; checked: has passed the test of stopped; *)
(* queued; sending; and the five ends of a job.                            *)
(***************************************************************************)
Ends == {"duplicate", "unroutable", "discarded", "sent", "dead"}

Stages == {"unsent", "published", "submitting", "checked", "queued", "sending"} \cup Ends

WorkerState ==
  [pc : {"receive", "send", "backoff", "exited"}, job : Jobs \cup {NoJob},
   attempt : Nat]

TypeOK ==
  /\ stage \in [Jobs -> Stages]
  /\ seen \subseteq Keys
  /\ queue \in Seq(Jobs) /\ Len(queue) <= QueueSize
  /\ worker \in [Workers -> WorkerState]
  /\ \A w \in Workers : worker[w].attempt < MaxAttempts
  /\ closed \in BOOLEAN /\ stopped \in BOOLEAN /\ cancelled \in BOOLEAN
  /\ returned \in BOOLEAN
  /\ accepted \subseteq Jobs
  /\ failures \in [Jobs -> Nat]
  /\ expiries \in Nat

Sending(j, n) == [pc |-> "send", job |-> j, attempt |-> n]
Receiving == [pc |-> "receive", job |-> NoJob, attempt |-> 0]

Init ==
  /\ stage = [j \in Jobs |-> "unsent"]
  /\ seen = {} /\ queue = <<>>
  /\ worker = [w \in Workers |-> Receiving]
  /\ closed = FALSE /\ stopped = FALSE /\ cancelled = FALSE /\ returned = FALSE
  /\ accepted = {} /\ failures = [j \in Jobs |-> 0] /\ expiries = 0

Enter(j, s) == stage' = [stage EXCEPT ![j] = s]

---------------------------------------------------------------------------
\* notifyStep publishes a job.
Publish(j) ==
  /\ stage[j] = "unsent"
  /\ Enter(j, "published")
  /\ UNCHANGED <<seen, queue, closed, worker, stopped, cancelled, returned,
                 accepted, failures, expiries>>

\* markSeen: the entry is made before anything is known of the job's fate.
BugMarked(j) == seen
Marked(j) == seen \cup {Key[j]}

\* Dispatch up to Submit.  A job without a provider is an error to the bus,
\* which drops it.
Dispatch(j) ==
  /\ stage[j] = "published"
  /\ \/ /\ Key[j] \in seen
        /\ Enter(j, "duplicate")
        /\ UNCHANGED <<seen, accepted>>
     \/ /\ Key[j] \notin seen
        /\ seen' = Marked(j)
        /\ accepted' = accepted \cup {j}
        /\ Enter(j, IF j \in Routable THEN "submitting" ELSE "unroutable")
  /\ UNCHANGED <<queue, closed, worker, stopped, cancelled, returned, failures, expiries>>

\* Submit: the test of the stopped flag.
TestStopped(j) ==
  /\ stage[j] = "submitting"
  /\ Enter(j, IF stopped THEN "discarded" ELSE "checked")
  /\ UNCHANGED <<seen, queue, closed, worker, stopped, cancelled, returned,
                 accepted, failures, expiries>>

\* Submit: the send blocks while the channel is full; on a closed channel it
\* panics, and the panic is recovered.
MayEnqueue == ~closed /\ Len(queue) < QueueSize

BugEnqueue(j) ==
  /\ stage[j] = "checked" /\ MayEnqueue
  /\ queue' = Append(queue, j)
  /\ Enter(j, "queued")
  /\ UNCHANGED <<seen, closed, worker, stopped, cancelled, returned, accepted,
                 failures, expiries>>
Enqueue(j) ==
  /\ stage[j] = "checked"
  /\ \/ /\ MayEnqueue
        /\ queue' = Append(queue, j)
        /\ Enter(j, "queued")
     \/ closed /\ Enter(j, "discarded") /\ UNCHANGED queue
  /\ UNCHANGED <<seen, closed, worker, stopped, cancelled, returned, accepted,
                 failures, expiries>>

\* dedupeTTL has passed.
Expire(k) ==
  /\ expiries < MaxExpiries /\ k \in seen
  /\ expiries' = expiries + 1
  /\ seen' = seen \ {k}
  /\ accepted' = {j \in accepted : Key[j] # k}
  /\ UNCHANGED <<stage, queue, closed, worker, stopped, cancelled, returned, failures>>

---------------------------------------------------------------------------
(***************************************************************************)
(* worker and sendWithRetry.                                               *)
(***************************************************************************)
Take(w) ==
  /\ worker[w].pc = "receive" /\ queue # <<>>
  /\ queue' = Tail(queue)
  /\ worker' = [worker EXCEPT ![w] = Sending(Head(queue), 0)]
  /\ Enter(Head(queue), "sending")
  /\ UNCHANGED <<seen, closed, stopped, cancelled, returned, accepted, failures, expiries>>

\* The job is over: sent, or handed to the dead letter handler.
Settle(w, end) ==
  /\ Enter(worker[w].job, end)
  /\ worker' = [worker EXCEPT ![w] = Receiving]

LastAttempt(w) == worker[w].attempt = MaxAttempts - 1

\* The provider is called; it has a timeout, and may fail at any time.
Attempt(w) ==
  /\ worker[w].pc = "send"
  /\ \/ Settle(w, "sent") /\ UNCHANGED failures
     \/ /\ failures' = [failures EXCEPT ![worker[w].job] = @ + 1]
        /\ \/ LastAttempt(w) /\ Settle(w, "dead")
           \/ /\ ~LastAttempt(w)
              /\ worker' = [worker EXCEPT ![w].pc = "backoff"]
              /\ UNCHANGED stage
  /\ UNCHANGED <<seen, queue, closed, stopped, cancelled, returned, accepted, expiries>>

\* The wait before the next attempt ends, or the context is cancelled.
MayGiveUp == cancelled

Backoff(w) ==
  /\ worker[w].pc = "backoff"
  /\ \/ MayGiveUp /\ Settle(w, "dead")
     \/ /\ worker' = [worker EXCEPT ![w] = Sending(@.job, @.attempt + 1)]
        /\ UNCHANGED stage
  /\ UNCHANGED <<seen, queue, closed, stopped, cancelled, returned, accepted,
                 failures, expiries>>

\* The loop over the channel ends when it is closed and empty.
BugLoopEnds(w) == closed
LoopEnds(w) == closed /\ queue = <<>>

Exit(w) ==
  /\ worker[w].pc = "receive" /\ LoopEnds(w)
  /\ worker' = [worker EXCEPT ![w].pc = "exited"]
  /\ UNCHANGED <<stage, seen, queue, closed, stopped, cancelled, returned,
                 accepted, failures, expiries>>

---------------------------------------------------------------------------
(***************************************************************************)
(* Shutdown: main cancels the context, then calls Stop, which sets the     *)
(* flag, closes the channel and waits for the workers.                     *)
(***************************************************************************)
Cancel ==
  /\ ~cancelled
  /\ cancelled' = TRUE
  /\ UNCHANGED <<stage, seen, queue, closed, worker, stopped, returned, accepted,
                 failures, expiries>>

SetStopped ==
  /\ cancelled /\ ~stopped
  /\ stopped' = TRUE
  /\ UNCHANGED <<stage, seen, queue, closed, worker, cancelled, returned, accepted,
                 failures, expiries>>

Close ==
  /\ stopped /\ ~closed
  /\ closed' = TRUE
  /\ UNCHANGED <<stage, seen, queue, worker, stopped, cancelled, returned, accepted,
                 failures, expiries>>

StopReturns ==
  /\ closed /\ ~returned
  /\ \A w \in Workers : worker[w].pc = "exited"
  /\ returned' = TRUE
  /\ UNCHANGED <<stage, seen, queue, closed, worker, stopped, cancelled, accepted,
                 failures, expiries>>

---------------------------------------------------------------------------
WorkerStep(w) == Take(w) \/ Attempt(w) \/ Backoff(w) \/ Exit(w)

SubmitStep(j) == Dispatch(j) \/ TestStopped(j) \/ Enqueue(j)

StopStep == SetStopped \/ Close \/ StopReturns

Next ==
  \/ \E j \in Jobs : Publish(j) \/ SubmitStep(j)
  \/ \E k \in Keys : Expire(k)
  \/ \E w \in Workers : WorkerStep(w)
  \/ Cancel \/ StopStep

Spec == Init /\ [][Next]_vars

\* Goroutines run, a call of the provider ends and so does a backoff.  A send
\* on a channel goes ahead once there is room again and again: Go queues
\* blocked senders, which takes strong fairness here.
Fairness ==
  /\ \A w \in Workers : WF_vars(WorkerStep(w))
  /\ \A j \in Jobs : SF_vars(SubmitStep(j))
  /\ WF_vars(StopStep)

FairSpec == Spec /\ Fairness

---------------------------------------------------------------------------
\* However deliveries interleave, one job per key gets past deduplication
\* until the key expires.
OnePerKey ==
  \A i, j \in accepted : Key[i] = Key[j] => i = j

\* A job is given up only when every attempt has failed or the process is
\* shutting down.
DeadMeansExhausted ==
  \A j \in Jobs : stage[j] = "dead" => failures[j] = MaxAttempts \/ cancelled

\* When Stop returns no job is left in the channel or in a worker, whatever
\* submitters were blocked on the channel when it was closed.
StopDrains ==
  returned => \A j \in Jobs : stage[j] \notin {"queued", "sending"}

\* No job is stuck on its way: not behind a full queue, a failing provider or
\* a shutdown.  In the end every job published has come to one of its ends, and
\* Stop has returned, although workers may be backing off and submitters blocked.
JobsSettle ==
  /\ <>[](\A j \in Jobs : stage[j] \in Ends \cup {"unsent"})
  /\ stopped ~> returned
=============================================================================
