--------------------------- MODULE PipelineProofs ---------------------------
(***************************************************************************)
(* The scheduler's Stop, for any number of workers, loops and monitors and *)
(* any capacities: the writer is open as long as a check may end, nothing  *)
(* accepted is left anywhere, no worker overtakes more than once, and the  *)
(* pipeline keeps the promise of CheckLog.                                 *)
(*                                                                         *)
(* First the batch writer alone: it implements CheckLog.  Then the pool:   *)
(* a worker that has left a channel has found it closed and empty, which   *)
(* it stays.  Regular checks overtake only in the blocking select, which a *)
(* worker enters when no priority check is waiting.                        *)
(***************************************************************************)
EXTENDS Pipeline, FiniteSetTheorems, TLAPS

---------------------------------------------------------------------------
(***************************************************************************)
(* The batch writer.                                                       *)
(***************************************************************************)
\* The shape of the state, without the sizes that TypeOK bounds.
Shape ==
  /\ ch \subseteq Results
  /\ closed \in BOOLEAN /\ stopped \in BOOLEAN
  /\ loop \in [Loops -> LoopState]
  /\ stored \subseteq Results /\ failed \subseteq Results /\ dropped \subseteq Results

\* A result is in one place only: the channel, one batch, or settled.
Settled == stored \cup failed \cup dropped

OnePlace ==
  /\ \A c \in ch : c \notin Settled /\ \A l \in Loops : c \notin loop[l].batch
  /\ \A l \in Loops : \A c \in loop[l].batch :
       /\ c \notin Settled
       /\ \A k \in Loops \ {l} : c \notin loop[k].batch

\* What a loop that has returned, and Stop when it has, may rely on.
Drained ==
  /\ \A l \in Loops : loop[l].pc \in {"last", "done"} => closed /\ ch = {}
  /\ \A l \in Loops : loop[l].pc = "done" => loop[l].batch = {}
  /\ stopped => closed /\ \A l \in Loops : loop[l].pc = "done"

WInv == Shape /\ OnePlace /\ Drained

---------------------------------------------------------------------------
\* A result is pending in the channel or in the batch of a loop.
LEMMA PendingMember ==
  ASSUME NEW c
  PROVE  c \in pending <=> c \in ch \/ \E l \in Loops : c \in loop[l].batch
  BY DEF pending

\* The same of the next state.
LEMMA PendingMemberNext ==
  ASSUME NEW c
  PROVE  c \in pending' <=> c \in ch' \/ \E l \in Loops : c \in loop'[l].batch
  BY DEF pending

\* A step of one loop changes that loop alone.
LEMMA OneLoop ==
  ASSUME Shape, NEW l \in Loops, NEW s \in LoopState,
         loop' = [loop EXCEPT ![l] = s]
  PROVE  /\ loop' \in [Loops -> LoopState]
         /\ loop'[l] = s
         /\ \A k \in Loops \ {l} : loop'[k] = loop[k]
  BY DEF Shape

\* A record with one field changed is the record of its fields.
LEMMA PcEdit ==
  ASSUME NEW r \in LoopState, NEW pc
  PROVE  [r EXCEPT !.pc = pc] = [pc |-> pc, batch |-> r.batch]
  BY DEF LoopState

LEMMA BatchEdit ==
  ASSUME NEW r \in LoopState, NEW batch
  PROVE  [r EXCEPT !.batch = batch] = [pc |-> r.pc, batch |-> batch]
  BY DEF LoopState

LEMMA WInit == Init => WInv
  <1> SUFFICES ASSUME Init PROVE WInv
    OBVIOUS
  <1> DEFINE s == [pc |-> "collect", batch |-> {}]
  <1>1. s \in LoopState /\ s.pc = "collect" /\ s.batch = {}
    BY DEF LoopState
  <1>2. loop = [l \in Loops |-> s]
    BY DEF Init
  <1> HIDE DEF s
  <1>3. loop \in [Loops -> LoopState]
        /\ \A l \in Loops : loop[l].pc = "collect" /\ loop[l].batch = {}
    BY <1>1, <1>2
  <1>4. Shape
    BY <1>3 DEF Init, Shape
  <1>5. OnePlace
    BY <1>3 DEF Init, OnePlace
  <1>6. Drained
    BY <1>3 DEF Init, Drained
  <1> QED
    BY <1>4, <1>5, <1>6 DEF WInv

---------------------------------------------------------------------------
\* Enqueue comes before Stop, so no loop has drained the channel yet.
LEMMA EnqueueKeeps ==
  ASSUME WInv, NEW c \in Results, Enqueue(c)
  PROVE  WInv'
  <1>1. c \notin ch /\ c \notin Settled /\ \A l \in Loops : c \notin loop[l].batch
    BY PendingMember DEF Enqueue, Settled
  <1>2. Shape'
    BY DEF Enqueue, WInv, Shape
  <1>3. OnePlace'
    BY <1>1 DEF Enqueue, WInv, OnePlace, Settled
  <1>4. Drained'
    BY DEF Enqueue, WInv, Drained
  <1> QED
    BY <1>2, <1>3, <1>4 DEF WInv

LEMMA CollectKeeps ==
  ASSUME WInv, NEW l \in Loops, NEW c \in Results, Collect(l, c)
  PROVE  WInv'
  <1> DEFINE s == [pc |-> IF Full(loop[l].batch \cup {c}) THEN "flush" ELSE "collect",
                   batch |-> loop[l].batch \cup {c}]
  <1>1. loop' = [loop EXCEPT ![l] = s]
    BY DEF Collect
  <1>2. s \in LoopState
    BY DEF WInv, Shape, LoopState
  <1>3. s.pc \in {"flush", "collect"} /\ s.batch = loop[l].batch \cup {c}
    OBVIOUS
  <1> HIDE DEF s
  <1>4. /\ loop' \in [Loops -> LoopState]
        /\ loop'[l] = s
        /\ \A k \in Loops \ {l} : loop'[k] = loop[k]
    BY <1>1, <1>2, OneLoop DEF WInv
  <1>5. c \in ch /\ ch' = ch \ {c}
        /\ UNCHANGED <<closed, stored, failed, dropped, stopped>>
    BY DEF Collect
  <1>6. Shape'
    BY <1>4, <1>5 DEF WInv, Shape
  <1>7. OnePlace'
    BY <1>3, <1>4, <1>5 DEF WInv, OnePlace, Settled
  <1>8. Drained'
    BY <1>3, <1>4, <1>5 DEF WInv, Drained
  <1> QED
    BY <1>6, <1>7, <1>8 DEF WInv

LEMMA WriteKeeps ==
  ASSUME WInv, NEW l \in Loops, NEW c \in Results, Write(l, c)
  PROVE  WInv'
  <1> DEFINE s == [pc |-> loop[l].pc, batch |-> loop[l].batch \ {c}]
  <1>0. loop[l] \in LoopState
    BY DEF WInv, Shape
  <1>1. loop' = [loop EXCEPT ![l] = s]
    BY <1>0, BatchEdit DEF Write
  <1>2. s \in LoopState
    BY DEF WInv, Shape, LoopState
  <1>3. s.pc = loop[l].pc /\ s.batch = loop[l].batch \ {c}
    OBVIOUS
  <1> HIDE DEF s
  <1>4. /\ loop' \in [Loops -> LoopState]
        /\ loop'[l] = s
        /\ \A k \in Loops \ {l} : loop'[k] = loop[k]
    BY <1>1, <1>2, OneLoop DEF WInv
  <1>5. /\ c \in loop[l].batch /\ UNCHANGED <<ch, closed, dropped, stopped>>
        /\ loop[l].pc \in {"flush", "last"}
        /\ \/ stored' = stored \cup {c} /\ failed' = failed
           \/ stored' = stored /\ failed' = failed \cup {c}
    BY DEF Write
  <1>6. Shape'
    BY <1>4, <1>5 DEF WInv, Shape
  <1>7. OnePlace'
    BY <1>3, <1>4, <1>5 DEF WInv, OnePlace, Settled
  <1>8. Drained'
    BY <1>3, <1>4, <1>5 DEF WInv, Drained
  <1> QED
    BY <1>6, <1>7, <1>8 DEF WInv

\* The steps that move a loop's program counter and nothing else.
LEMMA MoveKeeps ==
  ASSUME WInv, NEW l \in Loops, NEW pc,
         pc \in {"collect", "flush", "last", "done"},
         pc \in {"last", "done"} => closed /\ ch = {},
         pc = "done" => loop[l].batch = {},
         loop[l].pc # "done",
         loop' = [loop EXCEPT ![l].pc = pc],
         UNCHANGED <<ch, closed, stored, failed, dropped, stopped>>
  PROVE  WInv'
  <1> DEFINE s == [pc |-> pc, batch |-> loop[l].batch]
  <1>0. loop[l] \in LoopState
    BY DEF WInv, Shape
  <1>1. loop' = [loop EXCEPT ![l] = s]
    BY <1>0, PcEdit
  <1>2. s \in LoopState
    BY DEF WInv, Shape, LoopState
  <1>3. s.pc = pc /\ s.batch = loop[l].batch
    OBVIOUS
  <1> HIDE DEF s
  <1>4. /\ loop' \in [Loops -> LoopState]
        /\ loop'[l] = s
        /\ \A k \in Loops \ {l} : loop'[k] = loop[k]
    BY <1>1, <1>2, OneLoop DEF WInv
  <1>6. Shape'
    BY <1>4 DEF WInv, Shape
  <1>7. OnePlace'
    BY <1>3, <1>4 DEF WInv, OnePlace, Settled
  <1>8. Drained'
    BY <1>3, <1>4 DEF WInv, Drained
  <1> QED
    BY <1>6, <1>7, <1>8 DEF WInv

LEMMA FlushTickKeeps ==
  ASSUME WInv, NEW l \in Loops, FlushTick(l)
  PROVE  WInv'
  BY MoveKeeps, "flush" # "done" DEF FlushTick

LEMMA LastBatchKeeps ==
  ASSUME WInv, NEW l \in Loops, LastBatch(l)
  PROVE  WInv'
  <1> DEFINE pc == IF loop[l].batch = {} THEN "done" ELSE "last"
  <1>1. pc \in {"last", "done"} /\ (pc = "done" => loop[l].batch = {})
    OBVIOUS
  <1>2. /\ closed /\ ch = {} /\ loop[l].pc # "done"
        /\ loop' = [loop EXCEPT ![l].pc = pc]
        /\ UNCHANGED <<ch, closed, stored, failed, dropped, stopped>>
    BY DEF LastBatch, AtEnd
  <1> HIDE DEF pc
  <1> QED
    BY <1>1, <1>2, MoveKeeps

LEMMA FlushDoneKeeps ==
  ASSUME WInv, NEW l \in Loops, FlushDone(l)
  PROVE  WInv'
  <1> DEFINE pc == IF loop[l].pc = "flush" THEN "collect" ELSE "done"
  <1>1. /\ pc \in {"collect", "done"} /\ loop[l].batch = {} /\ loop[l].pc # "done"
        /\ pc = "done" => loop[l].pc = "last"
        /\ loop' = [loop EXCEPT ![l].pc = pc]
        /\ UNCHANGED <<ch, closed, stored, failed, dropped, stopped>>
    BY DEF FlushDone
  <1>2. loop[l].pc = "last" => closed /\ ch = {}
    BY DEF WInv, Drained
  <1> HIDE DEF pc
  <1> QED
    BY <1>1, <1>2, MoveKeeps

LEMMA StopKeeps ==
  ASSUME WInv, Stop \/ StopReturns \/ UNCHANGED vars
  PROVE  WInv'
  <1>1. UNCHANGED <<ch, loop, stored, failed, dropped>>
    BY DEF Stop, StopReturns, vars
  <1>2. \/ closed' = TRUE /\ stopped' = stopped
        \/ closed' = closed /\ stopped' = stopped
        \/ /\ closed' = closed /\ stopped' = TRUE
           /\ closed /\ \A l \in Loops : loop[l].pc = "done"
    BY DEF Stop, StopReturns, vars
  <1>3. Shape'
    BY <1>1, <1>2 DEF WInv, Shape
  <1>4. OnePlace'
    BY <1>1 DEF WInv, OnePlace, Settled
  <1>5. Drained'
    BY <1>1, <1>2 DEF WInv, Drained
  <1> QED
    BY <1>3, <1>4, <1>5 DEF WInv

LEMMA WStep == WInv /\ [Next]_vars => WInv'
  <1> SUFFICES ASSUME WInv, [Next]_vars PROVE WInv'
    OBVIOUS
  <1>1. CASE \E c \in Results : Enqueue(c)
    BY <1>1, EnqueueKeeps
  <1>2. CASE \E l \in Loops : LoopStep(l)
    BY <1>2, CollectKeeps, WriteKeeps, FlushTickKeeps, LastBatchKeeps, FlushDoneKeeps
       DEF LoopStep
  <1>3. CASE Stop \/ StopReturns \/ UNCHANGED vars
    BY <1>3, StopKeeps
  <1> QED
    BY <1>1, <1>2, <1>3 DEF Next

\* Nothing the writer has accepted is in two places, and what has ended has
\* left nothing behind.
THEOREM WriterInvariant == Spec => []WInv
  BY WInit, WStep, PTL DEF Spec

---------------------------------------------------------------------------
(***************************************************************************)
(* Sizes.  A batch is flushed when it is full, so that the one a loop      *)
(* collects has room for another result.                                   *)
(***************************************************************************)
Sizes ==
  /\ IsFiniteSet(ch) /\ Cardinality(ch) <= ChannelSize
  /\ \A l \in Loops :
       /\ IsFiniteSet(loop[l].batch) /\ Cardinality(loop[l].batch) <= BatchSize
       /\ loop[l].pc = "collect" => Cardinality(loop[l].batch) < BatchSize

LEMMA SizesStart == ASSUME Init PROVE Sizes
<1>1. ch = {} /\ \A l \in Loops : loop[l].batch = {}
  BY DEF Init
<1> QED BY <1>1, FS_EmptySet, WriterAssumption DEF Sizes

\* What a loop that changes its record must keep.
LEMMA LoopSizes ==
  ASSUME Shape, Sizes, NEW l \in Loops, NEW s \in LoopState,
         loop' = [loop EXCEPT ![l] = s],
         IsFiniteSet(s.batch), Cardinality(s.batch) <= BatchSize,
         s.pc = "collect" => Cardinality(s.batch) < BatchSize,
         IsFiniteSet(ch'), Cardinality(ch') <= ChannelSize
  PROVE  Sizes'
<1>1. loop'[l] = s /\ \A k \in Loops \ {l} : loop'[k] = loop[k]
  BY OneLoop
<1> QED BY <1>1 DEF Sizes

LEMMA EnqueueSizes ==
  ASSUME Sizes, NEW c \in Results, Enqueue(c)
  PROVE  Sizes'
<1>1. loop' = loop
  BY DEF Enqueue
<1>2. IsFiniteSet(ch') /\ Cardinality(ch') <= ChannelSize
  <2>1. CASE HasRoom
    <3>1. ch' = ch \cup {c} /\ c \notin ch
      BY <2>1, PendingMember DEF Enqueue
    <3>2. IsFiniteSet(ch') /\ Cardinality(ch') = Cardinality(ch) + 1
      BY <3>1, FS_AddElement DEF Sizes
    <3>3. Cardinality(ch) \in Nat
      BY FS_CardinalityType DEF Sizes
    <3> QED BY <2>1, <3>2, <3>3, WriterAssumption DEF HasRoom
  <2>2. CASE ~ HasRoom
    BY <2>2 DEF Enqueue, Sizes
  <2> QED BY <2>1, <2>2
<1> QED BY <1>1, <1>2 DEF Sizes

LEMMA CollectSizes ==
  ASSUME Shape, Sizes, NEW l \in Loops, NEW c \in Results, Collect(l, c)
  PROVE  Sizes'
<1> DEFINE b == loop[l].batch \cup {c}
           s == [pc |-> IF Full(b) THEN "flush" ELSE "collect", batch |-> b]
<1>1. /\ loop[l].batch \subseteq Results /\ IsFiniteSet(loop[l].batch)
      /\ loop[l].pc = "collect" /\ Cardinality(loop[l].batch) < BatchSize
      /\ Cardinality(loop[l].batch) \in Nat
  BY FS_CardinalityType DEF Shape, LoopState, Sizes, Collect
<1>2. /\ IsFiniteSet(b) /\ Cardinality(b) \in Nat /\ b \subseteq Results
      /\ Cardinality(b) <= Cardinality(loop[l].batch) + 1
  <2>1. IsFiniteSet(b) /\ (Cardinality(b) = Cardinality(loop[l].batch)
                            \/ Cardinality(b) = Cardinality(loop[l].batch) + 1)
    BY <1>1, FS_AddElement
  <2> QED BY <2>1, <1>1
<1> HIDE DEF b
<1>3. Cardinality(b) <= BatchSize /\ (~ Full(b) => Cardinality(b) < BatchSize)
  BY <1>1, <1>2, WriterAssumption DEF Full
<1>4. s \in LoopState /\ s.batch = b /\ (s.pc = "collect" => ~ Full(b))
  BY <1>2 DEF LoopState
<1>5. loop' = [loop EXCEPT ![l] = s]
  BY DEF Collect, b
<1>6. IsFiniteSet(ch') /\ Cardinality(ch') <= ChannelSize
  <2>1. ch' \in SUBSET ch
    BY DEF Collect
  <2>2. IsFiniteSet(ch') /\ Cardinality(ch') <= Cardinality(ch)
    BY <2>1, FS_Subset DEF Sizes
  <2>3. Cardinality(ch') \in Nat /\ Cardinality(ch) \in Nat
    BY <2>2, FS_CardinalityType DEF Sizes
  <2> QED BY <2>2, <2>3, WriterAssumption DEF Sizes
<1> HIDE DEF s
<1> QED BY <1>2, <1>3, <1>4, <1>5, <1>6, LoopSizes

LEMMA WriteSizes ==
  ASSUME Shape, Sizes, NEW l \in Loops, NEW c \in Results, Write(l, c)
  PROVE  Sizes'
<1> DEFINE b == loop[l].batch \ {c}
           s == [pc |-> loop[l].pc, batch |-> b]
<1>1. loop[l] \in LoopState /\ loop[l].pc \in {"flush", "last"} /\ ch' = ch
  BY DEF Shape, Write
<1>2. b \in SUBSET loop[l].batch
  OBVIOUS
<1> HIDE DEF b
<1>3. IsFiniteSet(b) /\ Cardinality(b) <= BatchSize
  <2>1. IsFiniteSet(b) /\ Cardinality(b) <= Cardinality(loop[l].batch)
    BY <1>2, FS_Subset DEF Sizes
  <2>2. Cardinality(b) \in Nat /\ Cardinality(loop[l].batch) \in Nat
    BY <2>1, FS_CardinalityType DEF Sizes
  <2> QED BY <2>1, <2>2, WriterAssumption DEF Sizes
<1>4. s \in LoopState /\ s.batch = b /\ s.pc # "collect"
  BY <1>1, <1>2 DEF LoopState
<1>5. loop' = [loop EXCEPT ![l] = s]
  BY <1>1, BatchEdit DEF Write, b
<1> HIDE DEF s
<1> QED BY <1>1, <1>3, <1>4, <1>5, LoopSizes DEF Sizes

LEMMA MoveSizes ==
  ASSUME Shape, Sizes, NEW l \in Loops, NEW pc \in {"collect", "flush", "last", "done"},
         loop' = [loop EXCEPT ![l].pc = pc], ch' = ch,
         pc = "collect" => loop[l].batch = {}
  PROVE  Sizes'
<1> DEFINE s == [pc |-> pc, batch |-> loop[l].batch]
<1>1. loop[l] \in LoopState
  BY DEF Shape
<1>2. s \in LoopState /\ s.batch = loop[l].batch /\ s.pc = pc
  BY <1>1 DEF LoopState
<1>3. loop' = [loop EXCEPT ![l] = s]
  BY <1>1, PcEdit
<1>4. pc = "collect" => Cardinality(loop[l].batch) < BatchSize
  BY FS_EmptySet, WriterAssumption
<1> HIDE DEF s
<1> QED BY <1>2, <1>3, <1>4, LoopSizes DEF Sizes

LEMMA SizesStep ==
  ASSUME Shape, Sizes, [Next]_vars
  PROVE  Sizes'
<1>1. ASSUME NEW l \in Loops, LoopStep(l) PROVE Sizes'
  <2>1. CASE FlushTick(l)
    BY <2>1, MoveSizes DEF FlushTick
  <2>2. CASE LastBatch(l)
    <3>1. PICK pc \in {"done", "last"} : loop' = [loop EXCEPT ![l].pc = pc] /\ ch' = ch
      BY <2>2 DEF LastBatch
    <3> QED BY <3>1, MoveSizes
  <2>3. CASE FlushDone(l)
    <3>1. PICK pc \in {"collect", "done"} : loop' = [loop EXCEPT ![l].pc = pc] /\ ch' = ch
      BY <2>3 DEF FlushDone
    <3>2. loop[l].batch = {}
      BY <2>3 DEF FlushDone
    <3> QED BY <3>1, <3>2, MoveSizes
  <2> QED BY <1>1, <2>1, <2>2, <2>3, CollectSizes, WriteSizes DEF LoopStep
<1>2. CASE Stop \/ StopReturns \/ UNCHANGED vars
  BY <1>2 DEF Stop, StopReturns, vars, Sizes
<1> QED BY <1>1, <1>2, EnqueueSizes DEF Next

\* However slow the database is, the channel and the batches hold no more than
\* they are made for.
THEOREM CapacityHolds == Spec => [](TypeOK /\ BacklogBounded)
<1>1. Shape /\ Sizes => TypeOK /\ BacklogBounded
  BY DEF Shape, Sizes, TypeOK, BacklogBounded
<1>2. Init => Sizes
  BY SizesStart
<1>3. WInv /\ Sizes /\ [Next]_vars => Sizes'
  BY SizesStep DEF WInv
<1>4. WInv => Shape
  BY DEF WInv
<1> QED BY <1>1, <1>2, <1>3, <1>4, WriterInvariant, PTL DEF Spec

---------------------------------------------------------------------------
\* The steps of CheckLog, of the mapped state.
LEMMA LogStart == Init => Log!LogInit
  <1> SUFFICES ASSUME Init PROVE Log!LogInit
    OBVIOUS
  <1>1. \A l \in Loops : loop[l].batch = {}
    BY DEF Init
  <1>2. \A c : c \notin pending
    BY <1>1, PendingMember DEF Init
  <1> QED
    BY <1>2 DEF Init, Log!LogInit

\* An accepted result is pending; one that finds the channel full is dropped.
LEMMA EnqueueLogged ==
  ASSUME WInv, NEW c \in Results, Enqueue(c)
  PROVE  Log!Accept(c) \/ Log!Drop(c)
  <1>1. ~stopped /\ UNCHANGED <<stopped, stored, failed, loop>>
    BY DEF Enqueue, WInv, Drained
  <1>2. c \notin Log!Known
    BY DEF Enqueue, Log!Known
  <1>3. CASE ch' = ch \cup {c} /\ dropped' = dropped
    <2>1. pending' = pending \cup {c}
      BY <1>1, <1>3, PendingMember, PendingMemberNext
    <2> QED
      BY <1>1, <1>2, <1>3, <2>1 DEF Log!Accept
  <1>4. CASE ch' = ch /\ dropped' = dropped \cup {c}
    <2>1. pending' = pending
      BY <1>1, <1>4, PendingMember, PendingMemberNext
    <2> QED
      BY <1>1, <1>2, <1>4, <2>1 DEF Log!Drop
  <1> QED
    BY <1>3, <1>4 DEF Enqueue

\* A result moves from the channel to a batch: it stays pending.
LEMMA CollectLogged ==
  ASSUME WInv, NEW l \in Loops, NEW c \in Results, Collect(l, c)
  PROVE  UNCHANGED Log!logVars
  <1>1. /\ c \in ch /\ ch' = ch \ {c}
        /\ UNCHANGED <<stored, failed, dropped, stopped>>
    BY DEF Collect
  <1>2. /\ loop'[l].batch = loop[l].batch \cup {c}
        /\ \A k \in Loops \ {l} : loop'[k] = loop[k]
    BY DEF Collect, WInv, Shape
  <1>3. \A b : b \in pending' <=> b \in pending
    <2> SUFFICES ASSUME NEW b PROVE b \in pending' <=> b \in pending
      OBVIOUS
    <2>1. CASE b = c
      BY <1>1, <1>2, <2>1, PendingMember, PendingMemberNext
    <2>2. CASE b # c
      <3>1. \A k \in Loops : b \in loop'[k].batch <=> b \in loop[k].batch
        BY <1>2, <2>2
      <3> QED
        BY <1>1, <2>2, <3>1, PendingMember, PendingMemberNext
    <2> QED
      BY <2>1, <2>2
  <1>4. pending' = pending
    BY <1>3
  <1> QED
    BY <1>1, <1>4 DEF Log!logVars

\* The result written is in this batch alone, so it is pending no more.
LEMMA WriteLogged ==
  ASSUME WInv, NEW l \in Loops, NEW c \in Results, Write(l, c)
  PROVE  Log!Store(c) \/ Log!Refuse(c)
  <1>1. /\ c \in loop[l].batch
        /\ UNCHANGED <<ch, dropped, stopped>>
        /\ \/ stored' = stored \cup {c} /\ failed' = failed
           \/ stored' = stored /\ failed' = failed \cup {c}
    BY DEF Write
  <1>2. loop[l] \in LoopState
    BY DEF WInv, Shape
  <1>3. /\ loop'[l].batch = loop[l].batch \ {c}
        /\ \A k \in Loops \ {l} : loop'[k] = loop[k]
    BY <1>2 DEF Write, WInv, Shape
  <1>4. c \notin ch /\ \A k \in Loops \ {l} : c \notin loop[k].batch
    BY <1>1 DEF WInv, OnePlace
  <1>5. \A b : b \in pending' <=> b \in pending /\ b # c
    <2> SUFFICES ASSUME NEW b PROVE b \in pending' <=> b \in pending /\ b # c
      OBVIOUS
    <2>1. \A k \in Loops : b \in loop'[k].batch <=> b \in loop[k].batch /\ b # c
      BY <1>3, <1>4
    <2> QED
      BY <1>1, <1>4, <2>1, PendingMember, PendingMemberNext
  <1>6. c \in pending /\ pending' = pending \ {c}
    BY <1>1, <1>5, PendingMember
  <1> QED
    BY <1>1, <1>6 DEF Log!Store, Log!Refuse

\* The other steps of a loop, and Stop itself, change nothing CheckLog sees.
LEMMA SilentLogged ==
  ASSUME WInv,
         \/ Stop \/ UNCHANGED vars
         \/ \E l \in Loops : FlushTick(l) \/ LastBatch(l) \/ FlushDone(l)
  PROVE  UNCHANGED Log!logVars
  <1>1. UNCHANGED <<ch, stored, failed, dropped, stopped>>
    BY DEF Stop, vars, FlushTick, LastBatch, FlushDone
  <1>2. \A l \in Loops : loop[l] \in LoopState
    BY DEF WInv, Shape
  <1>3. \A l \in Loops : loop'[l].batch = loop[l].batch
    <2>1. CASE Stop \/ UNCHANGED vars
      BY <2>1 DEF Stop, vars
    <2>2. ASSUME NEW l \in Loops, FlushTick(l) \/ LastBatch(l) \/ FlushDone(l)
          PROVE  \A k \in Loops : loop'[k].batch = loop[k].batch
      <3>1. PICK pc : loop' = [loop EXCEPT ![l].pc = pc]
        BY <2>2 DEF FlushTick, LastBatch, FlushDone
      <3>2. loop' = [loop EXCEPT ![l] = [pc |-> pc, batch |-> loop[l].batch]]
        BY <1>2, <3>1, PcEdit
      <3> QED
        BY <3>2 DEF WInv, Shape
    <2> QED
      BY <2>1, <2>2
  <1>4. \A b : b \in pending' <=> b \in pending
    BY <1>1, <1>3, PendingMember, PendingMemberNext
  <1>5. pending' = pending
    BY <1>4
  <1> QED
    BY <1>1, <1>5 DEF Log!logVars

\* When Stop returns every loop has returned, so nothing is pending.
LEMMA StopLogged ==
  ASSUME WInv, StopReturns
  PROVE  Log!Finish
  <1>1. ch = {} /\ \A l \in Loops : loop[l].batch = {}
    BY WriterAssumption DEF StopReturns, WInv, Drained
  <1>2. \A b : b \notin pending
    BY <1>1, PendingMember
  <1>3. UNCHANGED <<ch, loop, stored, failed, dropped>> /\ ~stopped /\ stopped' = TRUE
    BY DEF StopReturns
  <1>4. pending' = pending
    BY <1>3 DEF pending
  <1> QED
    BY <1>2, <1>3, <1>4 DEF Log!Finish

LEMMA LogStep == WInv /\ [Next]_vars => [Log!LogNext]_(Log!logVars)
  <1> SUFFICES ASSUME WInv, [Next]_vars PROVE [Log!LogNext]_(Log!logVars)
    OBVIOUS
  <1>1. CASE \E c \in Results : Enqueue(c)
    BY <1>1, EnqueueLogged DEF Log!LogNext
  <1>2. ASSUME NEW l \in Loops, LoopStep(l)
        PROVE  [Log!LogNext]_(Log!logVars)
    <2>1. CASE \E c \in Results : Collect(l, c)
      BY <2>1, CollectLogged
    <2>2. CASE \E c \in Results : Write(l, c)
      BY <2>2, WriteLogged DEF Log!LogNext
    <2>3. CASE FlushTick(l) \/ LastBatch(l) \/ FlushDone(l)
      BY <2>3, SilentLogged
    <2> QED
      BY <1>2, <2>1, <2>2, <2>3 DEF LoopStep
  <1>3. CASE StopReturns
    BY <1>3, StopLogged DEF Log!LogNext
  <1>4. CASE Stop \/ UNCHANGED vars
    BY <1>4, SilentLogged
  <1> QED
    BY <1>1, <1>2, <1>3, <1>4 DEF Next

\* The writer keeps CheckLog's promise: what Enqueue accepts is neither lost
\* nor written twice, and Stop returns only when nothing is left to write.
THEOREM Refinement == Spec => ImplementsLog
  BY WriterInvariant, LogStart, LogStep, PTL
     DEF Spec, ImplementsLog, Log!LogSpec

---------------------------------------------------------------------------
(***************************************************************************)
(* The pool.                                                               *)
(***************************************************************************)
\* A worker has left the channels that it no longer looks at.
Draining(w) == worker[w].pc = "drain" \/ (worker[w].pc = "run" /\ worker[w].back = "drain")

Deserted ==
  \A w \in Workers : \A c \in Pool!Channels :
    (Draining(w) /\ c # worker[w].from) \/ worker[w].pc = "exited" => Pool!Exhausted(c)

Waiting == {w \in Workers : worker[w].pc = "wait"}

\* Each worker in the blocking select may still overtake once.
Tally ==
  /\ overtaken + Cardinality(Waiting) <= Cardinality(Workers)
  /\ queue["priority"] = <<>> => overtaken = 0

StoppedLast ==
  /\ phase = "stopped" => \A w \in Workers : worker[w].pc = "exited"
  /\ closed => phase = "stopped"

PoolInv == Pool!TypeOK /\ Deserted /\ Tally /\ StoppedLast

---------------------------------------------------------------------------
(***************************************************************************)
(* Facts about the pool.                                                   *)
(***************************************************************************)
\* What the assumption of CheckQueue says.
LEMMA PoolConstants ==
  /\ Fast \subseteq Monitors /\ Workers # {} /\ IsFiniteSet(Workers)
  /\ PrioritySize \in Nat \ {0} /\ RegularSize \in Nat \ {0} /\ MaxTicks \in Nat
<1>1. IsFiniteSet(Workers)
  BY PipelineAssumption DEF Pool!QueueAssumption, Pool!IsFiniteSet, IsFiniteSet
<1> QED BY <1>1, PipelineAssumption DEF Pool!QueueAssumption

\* There are at most as many waiting workers as workers.
LEMMA WaitingBounded ==
  /\ IsFiniteSet(Waiting) /\ Cardinality(Waiting) \in Nat
  /\ Cardinality(Workers) \in Nat /\ Cardinality(Waiting) <= Cardinality(Workers)
<1>1. Waiting \subseteq Workers
  BY DEF Waiting
<1> QED BY <1>1, PoolConstants, FS_Subset, FS_CardinalityType

\* What a step of one worker changes.
LEMMA OneWorker ==
  ASSUME Pool!TypeOK, NEW w \in Workers, NEW x \in Pool!WorkerState,
         worker' = [worker EXCEPT ![w] = x]
  PROVE  /\ worker' \in [Workers -> Pool!WorkerState] /\ worker'[w] = x
         /\ \A v \in Workers \ {w} : worker'[v] = worker[v]
  BY DEF Pool!TypeOK

\* A channel that is closed and empty stays so.
LEMMA StaysExhausted ==
  ASSUME NEW c \in Pool!Channels, Pool!Exhausted(c),
         Pool!Closed(c) => Pool!Closed(c)', queue'[c] = queue[c]
  PROVE  Pool!Exhausted(c)'
  BY DEF Pool!Exhausted

---------------------------------------------------------------------------
(***************************************************************************)
(* One lemma per kind of step.                                             *)
(***************************************************************************)
LEMMA PoolStarts ==
  ASSUME PInit
  PROVE  PoolInv
<1> USE PoolConstants DEF PInit, Pool!Init
<1>1. Pool!TypeOK
  <2>1. \A w \in Workers : worker[w] \in Pool!WorkerState
    BY DEF Pool!WorkerState, Pool!Channels
  <2>2. \A c \in Pool!Channels : queue[c] = <<>> /\ queue[c] \in Seq(Monitors)
    OBVIOUS
  <2>3. "priority" \in Pool!Channels /\ "regular" \in Pool!Channels
    BY DEF Pool!Channels
  <2>4. Len(queue["priority"]) <= PrioritySize /\ Len(queue["regular"]) <= RegularSize
    BY <2>2, <2>3
  <2>5. queue \in [Pool!Channels -> Seq(Monitors)] /\ worker \in [Workers -> Pool!WorkerState]
    BY <2>1, <2>2
  <2>6. due \in [Monitors -> Nat] /\ sending \in [Pool!Channels \X Monitors -> Nat]
    OBVIOUS
  <2> QED BY <2>4, <2>5, <2>6 DEF Pool!TypeOK, Pool!Phases
<1>2. Deserted /\ StoppedLast
  BY DEF Deserted, Draining, StoppedLast, Init
<1>3. Tally
  <2>1. overtaken = 0
    OBVIOUS
  <2> QED BY <2>1, WaitingBounded DEF Tally
<1> QED BY <1>1, <1>2, <1>3 DEF PoolInv

\* Ticks, routing and sends leave the workers alone.
LEMMA Outside ==
  ASSUME PoolInv, Pool!TypeOK',
         UNCHANGED <<phase, worker, overtaken, closed>>,
         \A c \in Pool!Channels : Pool!Closed(c) => queue'[c] = queue[c],
         queue'["priority"] = <<>> => queue["priority"] = <<>>
  PROVE  PoolInv'
<1>1. \A c \in Pool!Channels : Pool!Exhausted(c) => Pool!Exhausted(c)'
  BY DEF Pool!Exhausted, Pool!Closed
<1>2. Deserted'
  BY <1>1 DEF PoolInv, Deserted, Draining
<1>3. Tally'
  BY DEF PoolInv, Tally, Waiting
<1>4. StoppedLast'
  BY DEF PoolInv, StoppedLast
<1> QED BY <1>2, <1>3, <1>4 DEF PoolInv

LEMMA Ticking ==
  ASSUME PoolInv, NEW m \in Monitors, Pool!Tick(m) \/ Pool!Route(m), UNCHANGED closed
  PROVE  PoolInv'
<1>1. UNCHANGED <<phase, worker, overtaken, queue, panicked>>
  BY DEF Pool!Tick, Pool!Route
<1>2. ticks' \in Nat /\ due' \in [Monitors -> Nat] /\ sending' \in [Pool!Channels \X Monitors -> Nat]
  <2>1. CASE Pool!Tick(m)
    BY <2>1 DEF Pool!Tick, PoolInv, Pool!TypeOK
  <2>2. CASE Pool!Route(m)
    <3>1. <<Pool!ChannelOf(m), m>> \in Pool!Channels \X Monitors
      BY DEF Pool!ChannelOf, Pool!Channels
    <3>2. due[m] - 1 \in Nat
      BY <2>2 DEF Pool!Route, PoolInv, Pool!TypeOK
    <3> QED BY <2>2, <3>1, <3>2 DEF Pool!Route, PoolInv, Pool!TypeOK
  <2> QED BY <2>1, <2>2
<1>3. Pool!TypeOK'
  BY <1>1, <1>2 DEF PoolInv, Pool!TypeOK
<1> QED BY <1>1, <1>3, Outside

LEMMA Sending ==
  ASSUME PoolInv, NEW c \in Pool!Channels, NEW m \in Monitors, Pool!Send(c, m), UNCHANGED closed
  PROVE  PoolInv'
<1>0. /\ UNCHANGED <<phase, due, worker, ticks, overtaken>>
      /\ queue \in [Pool!Channels -> Seq(Monitors)] /\ sending \in [Pool!Channels \X Monitors -> Nat]
      /\ panicked \in BOOLEAN
  BY DEF Pool!Send, PoolInv, Pool!TypeOK
<1>1. sending' \in [Pool!Channels \X Monitors -> Nat]
  <2>1. sending[<<c, m>>] - 1 \in Nat
    BY <1>0 DEF Pool!Send
  <2> QED BY <1>0, <2>1 DEF Pool!Send
<1>2. panicked' \in BOOLEAN
  BY <1>0, Zenon DEF Pool!Send
<1>3. /\ queue' \in [Pool!Channels -> Seq(Monitors)]
      /\ Len(queue'["priority"]) <= PrioritySize /\ Len(queue'["regular"]) <= RegularSize
      /\ \A d \in Pool!Channels : Pool!Closed(d) => queue'[d] = queue[d]
      /\ queue'["priority"] = <<>> => queue["priority"] = <<>>
  <2>1. CASE UNCHANGED queue
    BY <2>1, <1>0 DEF PoolInv, Pool!TypeOK
  <2>2. CASE /\ ~ Pool!Closed(c) /\ Pool!HasRoom(c)
             /\ queue' = [queue EXCEPT ![c] = Append(@, m)]
    <3>1. /\ queue[c] \in Seq(Monitors) /\ Append(queue[c], m) \in Seq(Monitors)
          /\ Len(Append(queue[c], m)) = Len(queue[c]) + 1 /\ Len(queue[c]) \in Nat
          /\ Append(queue[c], m) # <<>>
      <4>1. queue[c] \in Seq(Monitors)
        BY <1>0
      <4> QED BY <4>1
    <3>2. /\ queue' \in [Pool!Channels -> Seq(Monitors)] /\ queue'[c] = Append(queue[c], m)
          /\ \A d \in Pool!Channels \ {c} : queue'[d] = queue[d]
      BY <2>2, <3>1, <1>0
    <3>3. Len(queue[c]) + 1 <= Pool!Capacity(c)
      BY <2>2, <3>1, PoolConstants DEF Pool!HasRoom, Pool!Capacity
    <3>4. Len(queue'["priority"]) <= PrioritySize /\ Len(queue'["regular"]) <= RegularSize
      BY <3>1, <3>2, <3>3 DEF Pool!Capacity, Pool!Channels, PoolInv, Pool!TypeOK
    <3> QED BY <2>2, <3>1, <3>2, <3>4 DEF Pool!Channels
  <2> QED BY <2>1, <2>2 DEF Pool!Send
<1>4. Pool!TypeOK'
  BY <1>0, <1>1, <1>2, <1>3 DEF PoolInv, Pool!TypeOK
<1> QED BY <1>0, <1>3, <1>4, Outside

\* A worker takes a check from a channel.
LEMMA Receiving ==
  ASSUME PoolInv, NEW w \in Workers, NEW c \in Pool!Channels, NEW back \in {"poll", "drain"},
         Pool!Receive(w, c, back), UNCHANGED closed,
         worker[w].pc \in {"poll", "wait", "drain"},
         back = "drain" => worker[w].pc = "drain" /\ c = worker[w].from,
         c = "regular" /\ queue["priority"] # <<>> => worker[w].pc = "wait"
  PROVE  PoolInv'
<1> DEFINE x == [pc |-> "run", back |-> back, from |-> worker[w].from]
<1>0. /\ worker' = [worker EXCEPT ![w] = x]
      /\ UNCHANGED <<phase, due, sending, panicked, ticks>>
      /\ queue[c] # <<>> /\ queue' = [queue EXCEPT ![c] = Tail(@)]
      /\ queue \in [Pool!Channels -> Seq(Monitors)] /\ worker[w] \in Pool!WorkerState
      /\ overtaken' = IF c = "regular" /\ queue["priority"] # <<>> THEN overtaken + 1 ELSE 0
      /\ overtaken \in Nat
  BY DEF Pool!Receive, PoolInv, Pool!TypeOK
<1>1. x \in Pool!WorkerState /\ x.pc = "run" /\ x.back = back /\ x.from = worker[w].from
  BY <1>0 DEF Pool!WorkerState
<1> HIDE DEF x
<1>2. /\ worker' \in [Workers -> Pool!WorkerState] /\ worker'[w] = x
      /\ \A v \in Workers \ {w} : worker'[v] = worker[v]
  BY <1>0, <1>1, OneWorker DEF PoolInv
<1>3. /\ queue[c] \in Seq(Monitors) /\ Tail(queue[c]) \in Seq(Monitors)
      /\ Len(Tail(queue[c])) <= Len(queue[c])
  <2>1. queue[c] \in Seq(Monitors) /\ queue[c] # <<>>
    BY <1>0
  <2> QED BY <2>1
<1>4. /\ queue' \in [Pool!Channels -> Seq(Monitors)] /\ queue'[c] = Tail(queue[c])
      /\ \A d \in Pool!Channels \ {c} : queue'[d] = queue[d]
  BY <1>0, <1>3
<1>5. Len(queue'["priority"]) <= PrioritySize /\ Len(queue'["regular"]) <= RegularSize
  <2>1. \A d \in Pool!Channels : Len(queue'[d]) <= Len(queue[d]) /\ Len(queue[d]) \in Nat
                                 /\ Len(queue'[d]) \in Nat
    BY <1>0, <1>3, <1>4
  <2> QED BY <2>1, PoolConstants DEF Pool!Channels, PoolInv, Pool!TypeOK
<1>6. Pool!TypeOK'
  BY <1>0, <1>2, <1>4, <1>5 DEF PoolInv, Pool!TypeOK
<1>7. \A d \in Pool!Channels : Pool!Exhausted(d) => Pool!Exhausted(d)'
  BY <1>0, <1>4 DEF Pool!Exhausted, Pool!Closed
<1>8. Deserted'
  <2> SUFFICES ASSUME NEW v \in Workers, NEW d \in Pool!Channels,
                      (Draining(v)' /\ d # worker'[v].from) \/ worker'[v].pc = "exited"
      PROVE  Pool!Exhausted(d)
    BY <1>7 DEF Deserted
  <2>1. CASE v = w
    <3>1. back = "drain" /\ d # worker[w].from /\ worker[w].pc = "drain"
      BY <2>1, <1>1, <1>2 DEF Draining
    <3> QED BY <3>1 DEF PoolInv, Deserted, Draining
  <2>2. CASE v # w
    BY <2>2, <1>2 DEF PoolInv, Deserted, Draining
  <2> QED BY <2>1, <2>2
<1>9. Tally'
  <2>1. Waiting' = Waiting \ {w}
    BY <1>1, <1>2 DEF Waiting
  <2>2. Cardinality(Waiting') = IF w \in Waiting THEN Cardinality(Waiting) - 1 ELSE Cardinality(Waiting)
    BY <2>1, WaitingBounded, FS_RemoveElement
  <2>3. CASE c = "regular" /\ queue["priority"] # <<>>
    <3>1. w \in Waiting /\ overtaken' = overtaken + 1
      BY <2>3, <1>0 DEF Waiting
    <3>2. queue'["priority"] # <<>>
      BY <2>3, <1>4 DEF Pool!Channels
    <3>3. overtaken' + Cardinality(Waiting') = overtaken + Cardinality(Waiting)
      BY <3>1, <2>2, <1>0, WaitingBounded
    <3> QED BY <3>2, <3>3 DEF PoolInv, Tally
  <2>4. CASE ~ (c = "regular" /\ queue["priority"] # <<>>)
    <3>1. overtaken' = 0
      BY <2>4, <1>0
    <3>2. Cardinality(Waiting') <= Cardinality(Workers)
      BY <2>2, WaitingBounded
    <3> QED BY <3>1, <3>2, <2>2, WaitingBounded DEF Tally
  <2> QED BY <2>3, <2>4
<1>10. StoppedLast'
  <2>1. worker[w].pc # "exited"
    OBVIOUS
  <2> QED BY <2>1, <1>0 DEF PoolInv, StoppedLast
<1> QED BY <1>6, <1>8, <1>9, <1>10 DEF PoolInv

\* A worker goes from one place of checkWorker to another.
LEMMA Moving ==
  ASSUME PoolInv, NEW w \in Workers, NEW pc \in {"poll", "wait", "drain", "exited"},
         NEW from \in Pool!Channels, Pool!Move(w, pc, from),
         UNCHANGED <<phase, due, sending, queue, panicked, ticks, overtaken, closed>>,
         worker[w].pc # "exited",
         \A c \in Pool!Channels :
           (pc = "drain" /\ c # from) \/ pc = "exited" => Pool!Exhausted(c),
         pc = "wait" => queue["priority"] = <<>>
  PROVE  PoolInv'
<1> DEFINE x == [pc |-> pc, back |-> worker[w].back, from |-> from]
<1>1. worker' = [worker EXCEPT ![w] = x] /\ worker[w] \in Pool!WorkerState
  BY DEF Pool!Move, PoolInv, Pool!TypeOK
<1>2. x \in Pool!WorkerState /\ x.pc = pc /\ x.from = from
  BY <1>1 DEF Pool!WorkerState
<1> HIDE DEF x
<1>3. /\ worker' \in [Workers -> Pool!WorkerState] /\ worker'[w] = x
      /\ \A v \in Workers \ {w} : worker'[v] = worker[v]
  BY <1>1, <1>2, OneWorker DEF PoolInv
<1>4. Pool!TypeOK'
  BY <1>3 DEF PoolInv, Pool!TypeOK
<1>5. \A d \in Pool!Channels : Pool!Exhausted(d) => Pool!Exhausted(d)'
  BY DEF Pool!Exhausted, Pool!Closed
<1>6. Deserted'
  <2> SUFFICES ASSUME NEW v \in Workers, NEW d \in Pool!Channels,
                      (Draining(v)' /\ d # worker'[v].from) \/ worker'[v].pc = "exited"
      PROVE  Pool!Exhausted(d)
    BY <1>5 DEF Deserted
  <2>1. CASE v = w
    BY <2>1, <1>2, <1>3 DEF Draining
  <2>2. CASE v # w
    BY <2>2, <1>3 DEF PoolInv, Deserted, Draining
  <2> QED BY <2>1, <2>2
<1>7. Tally'
  <2>1. CASE pc = "wait"
    <3>1. Cardinality(Waiting') <= Cardinality(Workers) /\ Cardinality(Waiting') \in Nat
      <4>1. Waiting' \in SUBSET Workers
        BY DEF Waiting
      <4> QED BY <4>1, PoolConstants, FS_Subset, FS_CardinalityType
    <3>2. overtaken' = 0
      BY <2>1 DEF PoolInv, Tally
    <3> QED BY <3>1, <3>2 DEF Tally
  <2>2. CASE pc # "wait"
    <3>1. Waiting' = Waiting \ {w}
      BY <2>2, <1>2, <1>3 DEF Waiting
    <3>2. Cardinality(Waiting') <= Cardinality(Waiting) /\ Cardinality(Waiting') \in Nat
      <4>1. /\ IsFiniteSet(Waiting')
            /\ Cardinality(Waiting') =
                 IF w \in Waiting THEN Cardinality(Waiting) - 1 ELSE Cardinality(Waiting)
        BY <3>1, WaitingBounded, FS_RemoveElement
      <4>2. Cardinality(Waiting') \in Nat
        BY <4>1, FS_CardinalityType
      <4> QED BY <4>1, <4>2, WaitingBounded
    <3>3. overtaken \in Nat
      BY DEF PoolInv, Pool!TypeOK
    <3> QED BY <3>2, <3>3, WaitingBounded DEF PoolInv, Tally
  <2> QED BY <2>1, <2>2
<1>8. StoppedLast'
  BY DEF PoolInv, StoppedLast
<1> QED BY <1>4, <1>6, <1>7, <1>8 DEF PoolInv

\* The steps of checkWorker.
LEMMA Leaving ==
  ASSUME PoolInv, NEW w \in Workers, NEW c \in Pool!Channels, Pool!Leave(w, c),
         UNCHANGED closed, worker[w].pc # "exited"
  PROVE  PoolInv'
<1> DEFINE from == IF c = "priority" THEN "regular" ELSE "priority"
<1>1. /\ Pool!Exhausted(c) /\ Pool!Move(w, "drain", from)
      /\ UNCHANGED <<phase, due, sending, queue, panicked, ticks, overtaken>>
  BY DEF Pool!Leave
<1>2. from \in Pool!Channels /\ \A d \in Pool!Channels : d # from => d = c
  BY DEF Pool!Channels
<1> HIDE DEF from
<1> QED BY <1>1, <1>2, Moving

LEMMA Working ==
  ASSUME PoolInv, NEW w \in Workers, Pool!WorkerStep(w), UNCHANGED closed
  PROVE  PoolInv'
<1>0. "priority" \in Pool!Channels /\ "regular" \in Pool!Channels
  BY DEF Pool!Channels
<1>s. /\ worker[w].from \in Pool!Channels /\ worker[w].back \in {"poll", "drain"}
  BY DEF PoolInv, Pool!TypeOK, Pool!WorkerState
<1>1. CASE Pool!Poll(w)
  <2>1. worker[w].pc = "poll"
    BY <1>1 DEF Pool!Poll
  <2>2. CASE Pool!Receive(w, "priority", "poll")
    BY <2>1, <2>2, <1>0, Receiving
  <2>3. CASE Pool!Leave(w, "priority")
    BY <2>1, <2>3, <1>0, Leaving
  <2>4. CASE /\ Pool!PollMisses(w) /\ Pool!Move(w, "wait", worker[w].from)
             /\ UNCHANGED <<phase, due, sending, queue, panicked, ticks, overtaken>>
    <3>1. queue["priority"] = <<>>
      BY <2>4 DEF Pool!PollMisses
    <3> QED BY <2>1, <2>4, <3>1, <1>s, Moving
  <2> QED BY <1>1, <2>2, <2>3, <2>4 DEF Pool!Poll
<1>2. CASE Pool!Wait(w)
  <2>1. worker[w].pc = "wait"
    BY <1>2 DEF Pool!Wait
  <2>2. PICK c \in Pool!Channels : Pool!Receive(w, c, "poll") \/ Pool!Leave(w, c)
    BY <1>2 DEF Pool!Wait
  <2> QED BY <2>1, <2>2, Receiving, Leaving
<1>3. CASE Pool!Drain(w)
  <2>1. worker[w].pc = "drain"
    BY <1>3 DEF Pool!Drain
  <2>2. \A c \in Pool!Channels : c # worker[w].from => Pool!Exhausted(c)
    BY <2>1 DEF PoolInv, Deserted, Draining
  <2>3. CASE Pool!Receive(w, worker[w].from, "drain")
    <3>1. worker[w].from = "regular" => queue["priority"] = <<>>
      BY <2>2, <1>0 DEF Pool!Exhausted
    <3> QED BY <2>1, <2>3, <3>1, <1>s, Receiving
  <2>4. CASE /\ Pool!Exhausted(worker[w].from) /\ Pool!Move(w, "exited", worker[w].from)
             /\ UNCHANGED <<phase, due, sending, queue, panicked, ticks, overtaken>>
    <3>1. \A c \in Pool!Channels : Pool!Exhausted(c)
      BY <2>2, <2>4
    <3> QED BY <2>1, <2>4, <3>1, <1>s, Moving
  <2> QED BY <1>3, <2>3, <2>4 DEF Pool!Drain
<1>4. CASE Pool!RunEnds(w)
  <2>1. /\ worker[w].pc = "run" /\ Pool!Move(w, worker[w].back, worker[w].from)
        /\ UNCHANGED <<phase, due, sending, queue, panicked, ticks, overtaken>>
    BY <1>4 DEF Pool!RunEnds
  <2>2. worker[w].back = "drain" =>
          \A c \in Pool!Channels : c # worker[w].from => Pool!Exhausted(c)
    BY <2>1 DEF PoolInv, Deserted, Draining
  <2> QED BY <2>1, <2>2, <1>s, Moving
<1> QED BY <1>1, <1>2, <1>3, <1>4 DEF Pool!WorkerStep

\* Stop closes one channel after the other and waits for the workers.
LEMMA Stopping ==
  ASSUME PoolInv, Pool!StopRunners \/ Pool!StopNext, UNCHANGED closed
  PROVE  PoolInv'
<1>1. /\ UNCHANGED <<due, sending, queue, worker, panicked, ticks, overtaken>>
      /\ \/ phase = "running" /\ phase' = "cancelled"
         \/ phase = "cancelled" /\ phase' = "closing"
         \/ phase = "closing" /\ phase' = "closed"
         \/ /\ phase = "closed" /\ phase' = "stopped"
            /\ \A w \in Workers : worker[w].pc = "exited"
  BY DEF Pool!StopRunners, Pool!StopNext, Pool!ClosePriority, Pool!CloseRegular,
    Pool!StopReturns, Pool!StopStep
<1>2. Pool!TypeOK'
  BY <1>1 DEF PoolInv, Pool!TypeOK, Pool!Phases
<1>3. \A c \in Pool!Channels : Pool!Exhausted(c) => Pool!Exhausted(c)'
  BY <1>1 DEF Pool!Exhausted, Pool!Closed
<1>4. Deserted'
  BY <1>1, <1>3 DEF PoolInv, Deserted, Draining
<1>5. Tally' /\ StoppedLast'
  BY <1>1 DEF PoolInv, Tally, Waiting, StoppedLast
<1> QED BY <1>2, <1>4, <1>5 DEF PoolInv

---------------------------------------------------------------------------
(***************************************************************************)
(* The composition.                                                        *)
(***************************************************************************)
\* Nothing of the pool changes when the writer or nobody takes a step.
LEMMA WriterSteps ==
  ASSUME PoolInv, UNCHANGED pool, closed' = closed \/ phase = "stopped"
  PROVE  PoolInv'
<1>1. UNCHANGED <<phase, due, sending, queue, worker, panicked, ticks, overtaken>>
  BY DEF pool
<1>2. Pool!TypeOK'
  BY <1>1 DEF PoolInv, Pool!TypeOK
<1>3. \A c \in Pool!Channels : Pool!Exhausted(c) => Pool!Exhausted(c)'
  BY <1>1 DEF Pool!Exhausted, Pool!Closed
<1>4. Deserted'
  BY <1>1, <1>3 DEF PoolInv, Deserted, Draining
<1>5. Tally' /\ StoppedLast'
  BY <1>1 DEF PoolInv, Tally, Waiting, StoppedLast
<1> QED BY <1>2, <1>4, <1>5 DEF PoolInv

LEMMA PoolStep ==
  ASSUME PoolInv, [PNext]_pvars
  PROVE  PoolInv'
<1>1. ASSUME NEW m \in Monitors, Ticker(m) PROVE PoolInv'
  BY <1>1, Ticking DEF Ticker, vars
<1>2. ASSUME NEW c \in Pool!Channels, NEW m \in Monitors, SendTo(c, m) PROVE PoolInv'
  BY <1>2, Sending DEF SendTo, vars
<1>3. ASSUME NEW w \in Workers, RunCheck(w) \/ Work(w) PROVE PoolInv'
  <2>1. Pool!WorkerStep(w) /\ UNCHANGED closed
    BY <1>3 DEF RunCheck, Work, Pool!WorkerStep, Enqueue, vars
  <2> QED BY <2>1, Working
<1>4. ASSUME NEW l \in Loops, WriterStep(l) PROVE PoolInv'
  <2>1. UNCHANGED pool /\ UNCHANGED closed
    BY <1>4 DEF WriterStep, LoopStep, Collect, Write, FlushTick, LastBatch, FlushDone
  <2> QED BY <2>1, WriterSteps
<1>5. CASE StopPool
  BY <1>5, Stopping DEF StopPool, vars
<1>6. CASE StopWriter
  <2>1. UNCHANGED pool /\ (closed' = closed \/ phase = "stopped")
    BY <1>6 DEF StopWriter, MayStop, StopReturns
  <2> QED BY <2>1, WriterSteps
<1>7. CASE UNCHANGED pvars
  BY <1>7, WriterSteps DEF pvars, vars
<1> QED BY <1>1, <1>2, <1>3, <1>4, <1>5, <1>6, <1>7 DEF PNext

\* Seen from the writer, the pipeline is one of its environments.
LEMMA WriterSees ==
  ASSUME [PNext]_pvars
  PROVE  [Next]_vars
<1>1. ASSUME NEW w \in Workers, RunCheck(w) PROVE [Next]_vars
  BY <1>1 DEF RunCheck, Next
<1>2. ASSUME NEW l \in Loops, WriterStep(l) PROVE Next
  BY <1>2 DEF WriterStep, Next
<1>3. CASE StopWriter
  BY <1>3 DEF StopWriter, Next
<1>4. CASE UNCHANGED pvars
  BY <1>4 DEF pvars
<1> QED BY <1>1, <1>2, <1>3, <1>4 DEF PNext, Ticker, SendTo, Work, StopPool

\* What runCheck and Stop do to the batch writer is what its own
\* specification allows, so that what is proved of the writer holds here.
THEOREM PipelineWrites == PSpec => Spec
  BY WriterSees, PTL DEF PSpec, PInit, Spec

\* What dispatchCheckDue and checkWorker rely on, whenever Stop begins.
THEOREM PoolInvariant == PSpec => []PoolInv
<1>1. PInit => PoolInv
  BY PoolStarts
<1>2. PoolInv /\ [PNext]_pvars => PoolInv'
  BY PoolStep
<1> QED BY <1>1, <1>2, PTL DEF PSpec

\* Seen from outside, the scheduler's checks end up in a log that neither
\* loses nor doubles what its Enqueue accepted, up to the end of Stop.
THEOREM PipelineImplementsLog == PSpec => ImplementsLog
  BY PipelineWrites, Refinement, PTL

\* The two selects of checkWorker let each worker overtake once.
THEOREM OvertakingIsBounded == PSpec => []OvertakingBounded
<1>1. PoolInv => OvertakingBounded
  <2> SUFFICES ASSUME PoolInv PROVE OvertakingBounded
    OBVIOUS
  <2>1. overtaken \in Nat
    BY DEF PoolInv, Pool!TypeOK
  <2>2. overtaken <= Cardinality(Workers)
    BY <2>1, WaitingBounded DEF PoolInv, Tally
  <2> QED BY <2>2 DEF OvertakingBounded, Pool!OvertakingBounded, Pool!Cardinality, Cardinality
<1> QED BY <1>1, PoolInvariant, PTL

\* The channels of the pool, the buffer and the batches keep their capacities.
THEOREM CapacityIsKept == PSpec => []WithinCapacity
<1>1. PoolInv /\ TypeOK /\ BacklogBounded => WithinCapacity
  BY DEF PoolInv, WithinCapacity
<1> QED BY <1>1, PoolInvariant, PipelineWrites, CapacityHolds, PTL

\* Scheduler.Stop drains the pool before it closes the writer, and when it
\* returns nothing that was accepted is left anywhere.
THEOREM StopIsClean == PSpec => []CleanStop
<1>1. PoolInv /\ WInv => CleanStop
  <2> SUFFICES ASSUME PoolInv, WInv PROVE CleanStop
    OBVIOUS
  <2>1. closed => \A w \in Workers : worker[w].pc = "exited"
    BY DEF PoolInv, StoppedLast
  <2>2. ASSUME stopped PROVE Pool!StopDrains /\ phase = "stopped" /\ pending = {}
    <3>1. closed /\ phase = "stopped"
      BY <2>2 DEF PoolInv, StoppedLast, WInv, Drained
    <3>2. \A w \in Workers : worker[w].pc = "exited"
      BY <2>1, <3>1
    <3>3. \A c \in Pool!Channels : queue[c] = <<>>
      BY <3>2, PoolConstants DEF PoolInv, Deserted, Pool!Exhausted
    <3>4. ch = {} /\ \A l \in Loops : loop[l].batch = {}
      BY <2>2, WriterAssumption DEF WInv, Drained
    <3>5. pending = {}
      BY <3>4, PendingMember
    <3> QED BY <3>1, <3>2, <3>3, <3>5 DEF Pool!StopDrains
  <2> QED BY <2>1, <2>2 DEF CleanStop
<1> QED BY <1>1, PoolInvariant, PipelineWrites, WriterInvariant, PTL
=============================================================================
