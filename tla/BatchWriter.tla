---------------------------- MODULE BatchWriter ----------------------------
(***************************************************************************)
(* The batch writer of check results (internal/checker/batchwriter.go):    *)
(* a bounded channel and several loops that collect batches and flush them *)
(* when they are full, when the ticker fires and when the channel is       *)
(* closed.                                                                 *)
(*                                                                         *)
(* The channel and the batches are sets: rows carry their own checked_at,  *)
(* so the order of writing shows nowhere, and the goroutines of a flush    *)
(* finish their writes in no particular order anyhow.                      *)
(***************************************************************************)
EXTENDS Integers, FiniteSets

CONSTANTS
  Results,        \* check results, each enqueued at most once
  Loops,          \* the drain loops (BatchWriters of them)
  ChannelSize,    \* capacity of the channel
  BatchSize,      \* a batch of this size is flushed
  MaxFailures     \* bound: inserts that the database refuses or times out

ASSUME WriterAssumption ==
  /\ Loops # {} /\ IsFiniteSet(Loops)
  /\ ChannelSize \in Nat \ {0}
  /\ BatchSize \in Nat \ {0}
  /\ MaxFailures \in Nat

VARIABLES
  ch,       \* the channel's contents
  closed,   \* whether the channel is closed
  loop,     \* the drain loops: program counter and batch
  stored, failed, dropped,
  stopped   \* whether Stop has returned

vars == <<ch, closed, loop, stored, failed, dropped, stopped>>

\* collect: the select of loop(); flush and last: flush() called from it and
\* from its last iteration, of which batch is what is still to be written.
LoopState == [pc : {"collect", "flush", "last", "done"}, batch : SUBSET Results]

TypeOK ==
  /\ ch \subseteq Results /\ Cardinality(ch) <= ChannelSize
  /\ closed \in BOOLEAN /\ stopped \in BOOLEAN
  /\ loop \in [Loops -> LoopState]
  /\ stored \subseteq Results /\ failed \subseteq Results /\ dropped \subseteq Results

pending == ch \cup UNION {loop[l].batch : l \in Loops}

Init ==
  /\ ch = {} /\ closed = FALSE /\ stopped = FALSE
  /\ loop = [l \in Loops |-> [pc |-> "collect", batch |-> {}]]
  /\ stored = {} /\ failed = {} /\ dropped = {}

BugHasRoom == Cardinality(ch) <= ChannelSize
HasRoom == Cardinality(ch) < ChannelSize

\* Enqueue never blocks.  Nobody calls it once the channel is closed: the
\* scheduler stops its workers first.
Enqueue(c) ==
  /\ ~closed
  /\ c \notin pending \cup stored \cup failed \cup dropped
  /\ IF HasRoom
     THEN ch' = ch \cup {c} /\ UNCHANGED dropped
     ELSE dropped' = dropped \cup {c} /\ UNCHANGED ch
  /\ UNCHANGED <<closed, loop, stored, failed, stopped>>

\* A batch is full.
Full(batch) == Cardinality(batch) >= BatchSize

Collect(l, c) ==
  LET batch == loop[l].batch \cup {c} IN
  /\ loop[l].pc = "collect"
  /\ c \in ch
  /\ ch' = ch \ {c}
  /\ loop' = [loop EXCEPT ![l] =
       [pc |-> IF Full(batch) THEN "flush" ELSE "collect", batch |-> batch]]
  /\ UNCHANGED <<closed, stored, failed, dropped, stopped>>

\* The flush ticker fires.
BugFlushTick(l) == FALSE /\ UNCHANGED vars
FlushTick(l) ==
  /\ loop[l].pc = "collect" /\ loop[l].batch # {}
  /\ loop' = [loop EXCEPT ![l].pc = "flush"]
  /\ UNCHANGED <<ch, closed, stored, failed, dropped, stopped>>

AtEnd(l) == closed /\ ch = {}

\* The channel is closed and empty: what is left is flushed, the loop returns.
BugLastBatch(l) ==
  /\ loop[l].pc = "collect" /\ AtEnd(l)
  /\ loop' = [loop EXCEPT ![l] = [pc |-> "done", batch |-> {}]]
  /\ UNCHANGED <<ch, closed, stored, failed, dropped, stopped>>
LastBatch(l) ==
  /\ loop[l].pc = "collect" /\ AtEnd(l)
  /\ loop' = [loop EXCEPT ![l].pc = IF loop[l].batch = {} THEN "done" ELSE "last"]
  /\ UNCHANGED <<ch, closed, stored, failed, dropped, stopped>>

\* One insert of a flush; an error is logged and the row forgotten.
Write(l, c) ==
  /\ loop[l].pc \in {"flush", "last"}
  /\ c \in loop[l].batch
  /\ \/ stored' = stored \cup {c} /\ UNCHANGED failed
     \/ /\ Cardinality(failed) < MaxFailures
        /\ failed' = failed \cup {c}
        /\ UNCHANGED stored
  /\ loop' = [loop EXCEPT ![l].batch = @ \ {c}]
  /\ UNCHANGED <<ch, closed, dropped, stopped>>

\* flush returns when its inserts have.
FlushDone(l) ==
  /\ loop[l].pc \in {"flush", "last"} /\ loop[l].batch = {}
  /\ loop' = [loop EXCEPT ![l].pc = IF @ = "flush" THEN "collect" ELSE "done"]
  /\ UNCHANGED <<ch, closed, stored, failed, dropped, stopped>>

\* Stop closes the channel and waits for the loops.
Stop ==
  /\ ~closed
  /\ closed' = TRUE
  /\ UNCHANGED <<ch, loop, stored, failed, dropped, stopped>>

StopReturns ==
  /\ closed /\ ~stopped
  /\ \A l \in Loops : loop[l].pc = "done"
  /\ stopped' = TRUE
  /\ UNCHANGED <<ch, closed, loop, stored, failed, dropped>>

LoopStep(l) ==
  \/ \E c \in Results : Collect(l, c) \/ Write(l, c)
  \/ FlushTick(l) \/ LastBatch(l) \/ FlushDone(l)

Next ==
  \/ \E c \in Results : Enqueue(c)
  \/ \E l \in Loops : LoopStep(l)
  \/ Stop \/ StopReturns

Spec == Init /\ [][Next]_vars

---------------------------------------------------------------------------
\* The writer keeps the promise of CheckLog: no batch is forgotten on any of
\* the ways through loop(), no row is written twice, and Stop returns only
\* when everything accepted has been written.
Log == INSTANCE CheckLog WITH open <- ~stopped
ImplementsLog == Log!LogSpec

\* However slow the database is, the writer holds no more than its channel
\* and one batch per loop.
BacklogBounded ==
  /\ Cardinality(ch) <= ChannelSize
  /\ \A l \in Loops : Cardinality(loop[l].batch) <= BatchSize
=============================================================================
