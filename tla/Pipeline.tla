------------------------------ MODULE Pipeline ------------------------------
(***************************************************************************)
(* Checks from their ticker to their row: the worker pool of CheckQueue    *)
(* hands what it has measured to the BatchWriter, and Scheduler.Stop ends  *)
(* one after the other (internal/checker/scheduler.go).                    *)
(***************************************************************************)
EXTENDS BatchWriter, Sequences

CONSTANTS Monitors, Fast, Workers, PrioritySize, RegularSize, MaxTicks

VARIABLES phase, due, sending, queue, worker, panicked, ticks, overtaken

Pool == INSTANCE CheckQueue

pool == <<phase, due, sending, queue, worker, panicked, ticks, overtaken>>

\* Results are numbered; the bound on them is smaller than that on checks.
ASSUME PipelineAssumption ==
  Pool!QueueAssumption /\ Results = 1..Cardinality(Results)

PInit == Init /\ Pool!Init

NextResult == Cardinality(pending \cup stored \cup failed \cup dropped) + 1

\* runCheck: a check whose monitor is gone, or that Stop finds in a channel
\* (its context is cancelled), has no result.
RunCheck(w) ==
  /\ Pool!RunEnds(w)
  /\ (NextResult \in Results /\ Enqueue(NextResult)) \/ UNCHANGED vars

\* A worker's steps but for the end of a check.
Work(w) == (Pool!Poll(w) \/ Pool!Wait(w) \/ Pool!Drain(w)) /\ UNCHANGED vars

Ticker(m) == (Pool!Tick(m) \/ Pool!Route(m)) /\ UNCHANGED vars
SendTo(c, m) == Pool!Send(c, m) /\ UNCHANGED vars
StopPool == (Pool!StopRunners \/ Pool!StopNext) /\ UNCHANGED vars

WriterStep(l) == ~panicked /\ LoopStep(l) /\ UNCHANGED pool

BugMayStop == phase \in {"closed", "stopped"}
MayStop == phase = "stopped"

\* The writer is stopped when wg.Wait has returned.
StopWriter ==
  /\ ~panicked
  /\ (MayStop /\ Stop) \/ StopReturns
  /\ UNCHANGED pool

PNext ==
  \/ \E m \in Monitors : Ticker(m)
  \/ \E c \in Pool!Channels, m \in Monitors : SendTo(c, m)
  \/ \E w \in Workers : RunCheck(w) \/ Work(w)
  \/ \E l \in Loops : WriterStep(l)
  \/ StopPool \/ StopWriter

pvars == <<vars, pool>>

PSpec == PInit /\ [][PNext]_pvars

\* As in both parts; when to begin to stop is the operator's choice.
PFairSpec ==
  /\ PSpec
  /\ \A w \in Workers : WF_pvars(Work(w) \/ RunCheck(w))
  /\ \A l \in Loops : WF_pvars(WriterStep(l))
  /\ WF_pvars(Pool!StopNext /\ UNCHANGED vars) /\ WF_pvars(StopWriter)

---------------------------------------------------------------------------
\* However fast checks fall due and however slow the database is, the two
\* channels, the buffer and the batches hold no more than they are made for.
WithinCapacity == TypeOK /\ BacklogBounded /\ Pool!TypeOK

\* Each worker takes at most one regular check past waiting priority checks.
OvertakingBounded == Pool!OvertakingBounded

\* The writer is open as long as a check may end; and when Scheduler.Stop
\* returns no accepted check has been left in a channel, and no result in the
\* buffer or in a batch, whichever channel each worker found closed first.
CleanStop ==
  /\ closed => \A w \in Workers : worker[w].pc = "exited"
  /\ stopped => Pool!StopDrains /\ phase = "stopped" /\ pending = {}

\* No result waits for its batch to fill up, unless the process dies: once the
\* bounded supply of checks is used up the buffer and the batches are empty.
ResultIsWritten == <>[](pending = {} \/ panicked)

\* Scheduler.Stop returns, unless a dispatcher has brought the process down.
SchedulerStops == phase = "cancelled" ~> (stopped \/ panicked)
=============================================================================
