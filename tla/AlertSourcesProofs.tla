------------------------- MODULE AlertSourcesProofs -------------------------
(***************************************************************************)
(* What acts on alerts from outside the engine.  The reply path, for any   *)
(* events, replies, channels and workers: what the audit calls accepted    *)
(* has been done, a remediation is completed once, no row crosses          *)
(* organisations.  And checks, for any monitors, workers and bounds, from  *)
(* CheckStatusProofs.                                                      *)
(***************************************************************************)
EXTENDS AlertSources, FiniteSetTheorems, SequenceTheorems, WellFoundedInduction, TLAPS


---------------------------------------------------------------------------
(***************************************************************************)
(* The registry's operations.                                              *)
(***************************************************************************)
Entries == [event : Events, at : Nat]

\* No event is in reg twice.
Distinct(reg) == \A i, j \in 1..Len(reg) : reg[i].event = reg[j].event => i = j

LEMMA MadeSeq ==
  ASSUME NEW S, NEW n \in Nat, NEW f \in [1..n -> S]
  PROVE  f \in Seq(S) /\ Len(f) = n
<1>1. f \in Seq(S)
  BY SeqDef
<1>2. DOMAIN f = 1..Len(f) /\ Len(f) \in Nat
  BY <1>1, LenProperties
<1>3. 1..n = 1..Len(f)
  BY <1>2
<1> QED BY <1>1, <1>2, <1>3

LEMMA LeastExists ==
  ASSUME NEW T \in SUBSET Nat, T # {}
  PROVE  \E n \in T : \A m \in T : n <= m
<1>1. T \subseteq Nat
  OBVIOUS
<1>2. PICK n \in T : \A m \in T : ~ (<<m, n>> \in OpToRel(<, Nat))
  BY <1>1, WFMin, NatLessThanWellFounded
<1>3. \A m \in T : ~ (m < n)
  BY <1>1, <1>2 DEF OpToRel
<1> QED BY <1>1, <1>3

LEMMA Capacity == MaxEntries \in Nat \ {0} /\ TTL \in Nat \ {0} /\ Window \in Nat \ {0}
BY ReplyAssumption

(* What is as old as an entry past its time to live is past it too.        *)
LEMMA OlderIsPast ==
  ASSUME NEW a \in Nat, NEW b \in Nat, NEW t \in Nat, a <= b, t - b > TTL
  PROVE  t - a > TTL
BY Capacity

LEMMA EntryOf ==
  ASSUME NEW lg \in Seq(Entries), NEW i \in 1..Len(lg)
  PROVE  lg[i] \in Entries /\ lg[i].at \in Nat /\ lg[i].event \in Events
<1>1. lg[i] \in Entries
  BY ElementOfSeq
<1> QED BY <1>1 DEF Entries

LEMMA RemovedIs ==
  ASSUME NEW reg \in Seq(Entries), NEW i \in 1..Len(reg)
  PROVE  /\ Removed(reg, i) \in Seq(Entries) /\ Len(Removed(reg, i)) = Len(reg) - 1
         /\ \A n \in 1..(Len(reg) - 1) :
              Removed(reg, i)[n] = IF n < i THEN reg[n] ELSE reg[n + 1]
<1>1. Len(reg) \in Nat /\ Len(reg) - 1 \in Nat
  OBVIOUS
<1>2. \A n \in 1..(Len(reg) - 1) : (IF n < i THEN reg[n] ELSE reg[n + 1]) \in Entries
  OBVIOUS
<1>3. Removed(reg, i) \in [1..(Len(reg) - 1) -> Entries]
  BY <1>2 DEF Removed
<1>4. Removed(reg, i) \in Seq(Entries) /\ Len(Removed(reg, i)) = Len(reg) - 1
  BY <1>1, <1>3, MadeSeq
<1> QED BY <1>4 DEF Removed

\* What is left without e: each other entry, in the order it had.
LEMMA OthersIs ==
  ASSUME NEW reg \in Seq(Entries), Distinct(reg), NEW e
  PROVE  /\ Others(reg, e) \in Seq(Entries) /\ Len(Others(reg, e)) <= Len(reg)
         /\ ~Holds(reg, e) => Others(reg, e) = reg
         /\ \E i \in 1..(Len(reg) + 1) :
              /\ \A n \in 1..Len(Others(reg, e)) :
                   /\ Others(reg, e)[n] = IF n < i THEN reg[n] ELSE reg[n + 1]
                   /\ Others(reg, e)[n].event # e
                   /\ n < i => n \in 1..Len(reg)
                   /\ n >= i => n + 1 \in 1..Len(reg)
              /\ \A k \in 1..Len(reg) : reg[k].event # e =>
                   \/ k < i /\ k \in 1..Len(Others(reg, e))
                   \/ k > i /\ k - 1 \in 1..Len(Others(reg, e))
<1>1. CASE ~Holds(reg, e)
  <2>1. Others(reg, e) = reg /\ Len(reg) \in Nat
    BY <1>1 DEF Others
  <2>2. Len(reg) + 1 \in 1..(Len(reg) + 1)
    BY <2>1
  <2> QED BY <1>1, <2>1, <2>2 DEF Holds
<1>2. CASE Holds(reg, e)
  <2> DEFINE i == CHOOSE i \in DOMAIN reg : reg[i].event = e
  <2>1. i \in 1..Len(reg) /\ reg[i].event = e /\ Others(reg, e) = Removed(reg, i)
    <3>1. DOMAIN reg = 1..Len(reg)
      OBVIOUS
    <3> QED BY <1>2, <3>1 DEF Holds, Others
  <2> HIDE DEF i
  <2>2. \A k \in 1..Len(reg) : reg[k].event = e => k = i
    BY <2>1 DEF Distinct
  <2>3. /\ Others(reg, e) \in Seq(Entries) /\ Len(Others(reg, e)) = Len(reg) - 1
        /\ \A n \in 1..(Len(reg) - 1) :
              Others(reg, e)[n] = IF n < i THEN reg[n] ELSE reg[n + 1]
    BY <2>1, RemovedIs
  <2>4. \A n \in 1..Len(Others(reg, e)) :
             /\ Others(reg, e)[n] = IF n < i THEN reg[n] ELSE reg[n + 1]
             /\ Others(reg, e)[n].event # e
             /\ n < i => n \in 1..Len(reg)
             /\ n >= i => n + 1 \in 1..Len(reg)
    BY <2>1, <2>2, <2>3
  <2>5. \A k \in 1..Len(reg) : reg[k].event # e =>
             \/ k < i /\ k \in 1..Len(Others(reg, e))
             \/ k > i /\ k - 1 \in 1..Len(Others(reg, e))
    BY <2>1, <2>3
  <2>6. i \in 1..(Len(reg) + 1)
    BY <2>1
  <2> QED BY <1>2, <2>3, <2>4, <2>5, <2>6
<1> QED BY <1>1, <1>2

LEMMA LiveLenIs ==
  ASSUME NEW reg \in Seq(Entries), now \in Nat
  PROVE  /\ LiveLen(reg) \in 0..Len(reg)
         /\ LiveLen(reg) > 0 => ~Expired(reg[LiveLen(reg)])
         /\ \A i \in (LiveLen(reg) + 1)..Len(reg) : Expired(reg[i])
<1> DEFINE T == {n \in 0..Len(reg) : \A i \in (n + 1)..Len(reg) : Expired(reg[i])}
<1>1. T \in SUBSET Nat /\ Len(reg) \in T
  OBVIOUS
<1>2. PICK n \in T : \A m \in T : n <= m
  <2> HIDE DEF T
  <2> QED BY <1>1, LeastExists
<1>3. n \in 0..Len(reg) /\ \A i \in (n + 1)..Len(reg) : Expired(reg[i])
  OBVIOUS
<1>4. ASSUME n > 0, Expired(reg[n]) PROVE FALSE
  <2>1. n - 1 \in 0..Len(reg) /\ \A i \in ((n - 1) + 1)..Len(reg) : i = n \/ i \in (n + 1)..Len(reg)
    BY <1>3, <1>4
  <2>2. n - 1 \in T
    BY <1>3, <1>4, <2>1
  <2> QED BY <1>2, <1>3, <2>2
<1>5. \E m \in 0..Len(reg) : /\ m > 0 => ~Expired(reg[m])
                            /\ \A i \in (m + 1)..Len(reg) : Expired(reg[i])
  BY <1>3, <1>4
<1> QED BY <1>5 DEF LiveLen

LEMMA EvictedIs ==
  ASSUME NEW reg \in Seq(Entries), now \in Nat
  PROVE  /\ Evicted(reg) \in Seq(Entries)
         /\ Len(Evicted(reg)) <= MaxEntries /\ Len(Evicted(reg)) <= Len(reg)
         /\ \A n \in 1..Len(Evicted(reg)) : Evicted(reg)[n] = reg[n]
         /\ \A i \in (Len(Evicted(reg)) + 1)..Len(reg) : i > MaxEntries \/ Expired(reg[i])
<1> DEFINE n == IF LiveLen(reg) > MaxEntries THEN MaxEntries ELSE LiveLen(reg)
<1>1. n \in 0..Len(reg) /\ n <= MaxEntries /\ n \in Nat
  BY LiveLenIs, Capacity
<1>2. \A i \in (n + 1)..Len(reg) : i > MaxEntries \/ Expired(reg[i])
  BY LiveLenIs, Capacity
<1>3. Evicted(reg) = [k \in 1..n |-> reg[k]]
  BY DEF Evicted
<1> HIDE DEF n
<1>4. Evicted(reg) \in [1..n -> Entries]
  BY <1>1, <1>3
<1>5. Evicted(reg) \in Seq(Entries) /\ Len(Evicted(reg)) = n
  BY <1>1, <1>4, MadeSeq
<1> QED BY <1>1, <1>2, <1>3, <1>5

LEMMA InFrontIs ==
  ASSUME NEW reg \in Seq(Entries), NEW entry \in Entries
  PROVE  /\ InFront(entry, reg) \in Seq(Entries) /\ Len(InFront(entry, reg)) = Len(reg) + 1
         /\ InFront(entry, reg)[1] = entry
         /\ \A n \in 1..Len(reg) : InFront(entry, reg)[n + 1] = reg[n]
<1>1. Len(reg) + 1 \in Nat
  OBVIOUS
<1>2. InFront(entry, reg) \in [1..(Len(reg) + 1) -> Entries]
  BY DEF InFront
<1>3. InFront(entry, reg) \in Seq(Entries) /\ Len(InFront(entry, reg)) = Len(reg) + 1
  BY <1>1, <1>2, MadeSeq
<1> QED BY <1>1, <1>3 DEF InFront

---------------------------------------------------------------------------
(***************************************************************************)
(* The registry reg after the records lg, at time t: the entries are the   *)
(* last records of their events, the latest in front; an event that is not *)
(* there any more has expired, or more than MaxEntries events were recorded *)
(* since.                                                                  *)
(***************************************************************************)
Later(lg, i) == {lg[j].event : j \in {n \in DOMAIN lg : n >= i}}

IsLast(lg, n) == \A j \in (n + 1)..Len(lg) : lg[j].event # lg[n].event

Gone(lg, i, t) == t - lg[i].at > TTL \/ Cardinality(Later(lg, i)) > MaxEntries

Serves(reg, lg, t) ==
  /\ t \in Nat /\ reg \in Seq(Entries) /\ lg \in Seq(Entries)
  /\ Distinct(reg) /\ Len(reg) <= MaxEntries
  /\ \A i \in 1..Len(lg) : lg[i].at <= t /\ \A j \in i..Len(lg) : lg[i].at <= lg[j].at
  /\ \A k \in 1..Len(reg) : \E n \in 1..Len(lg) : IsLast(lg, n) /\ reg[k] = lg[n]
  /\ \A k, l \in 1..Len(reg) : \A i, j \in 1..Len(lg) :
       k < l /\ IsLast(lg, i) /\ IsLast(lg, j) /\ reg[k] = lg[i] /\ reg[l] = lg[j] => i > j
  /\ \A i \in 1..Len(lg) :
       (\E k \in 1..Len(reg) : reg[k].event = lg[i].event) \/ Gone(lg, i, t)

\* An event that the registry has is there with its last record, no older than
\* any other.
LEMMA LastRecord ==
  ASSUME NEW reg, NEW lg, NEW t, Serves(reg, lg, t), NEW k \in 1..Len(reg),
         NEW i \in 1..Len(lg), reg[k].event = lg[i].event
  PROVE  \E n \in i..Len(lg) : IsLast(lg, n) /\ reg[k] = lg[n] /\ lg[i].at <= reg[k].at
<1>1. PICK n \in 1..Len(lg) : IsLast(lg, n) /\ reg[k] = lg[n]
  BY DEF Serves
<1>2. n >= i
  BY <1>1 DEF IsLast, Serves
<1>3. n \in i..Len(lg) /\ lg[i].at <= lg[n].at
  BY <1>2 DEF Serves
<1> QED BY <1>1, <1>3

LEMMA LaterFinite ==
  ASSUME NEW lg \in Seq(Entries), NEW i \in 1..Len(lg)
  PROVE  IsFiniteSet(Later(lg, i)) /\ Cardinality(Later(lg, i)) \in Nat
<1>1. IsFiniteSet(1..Len(lg))
  BY FS_Interval
<1>2. {n \in DOMAIN lg : n >= i} \subseteq 1..Len(lg)
  OBVIOUS
<1>3. IsFiniteSet({n \in DOMAIN lg : n >= i})
  BY <1>1, <1>2, FS_Subset
<1> DEFINE S == {n \in DOMAIN lg : n >= i}
           f == [n \in S |-> lg[n].event]
<1>4. f \in Surjection(S, Later(lg, i))
  BY DEF Surjection, Later
<1>5. IsFiniteSet(Later(lg, i))
  <2> HIDE DEF S, f
  <2> QED BY <1>3, <1>4, FS_Surjection DEF S
<1> QED BY <1>5, FS_CardinalityType

\* More distinct events recorded since i than the registry holds.
LEMMA ManyLater ==
  ASSUME NEW lg \in Seq(Entries), NEW i \in 1..Len(lg), NEW p \in Nat, p > MaxEntries,
         NEW f \in [1..p -> Later(lg, i)], \A k, l \in 1..p : f[k] = f[l] => k = l
  PROVE  Cardinality(Later(lg, i)) > MaxEntries
<1>1. f \in Injection(1..p, Later(lg, i))
  BY DEF Injection, IsInjective
<1>2. Cardinality(1..p) = p /\ IsFiniteSet(1..p)
  BY FS_Interval
<1>3. Cardinality(1..p) <= Cardinality(Later(lg, i))
  BY <1>1, <1>2, LaterFinite, FS_Injection
<1> QED BY <1>2, <1>3, LaterFinite, Capacity

\* Lookup finds what it is to find.
LEMMA ServesRecent ==
  ASSUME NEW reg, NEW lg, Serves(reg, lg, now), NEW i \in 1..Len(lg),
         now - lg[i].at <= TTL, Cardinality(Later(lg, i)) <= MaxEntries
  PROVE  Lookup(reg, lg[i].event)
<1>0. now \in Nat /\ reg \in Seq(Entries) /\ lg \in Seq(Entries)
  BY DEF Serves
<1>1. ~Gone(lg, i, now)
  <2>1. Cardinality(Later(lg, i)) \in Nat /\ lg[i].at \in Nat
    BY <1>0, LaterFinite, EntryOf
  <2> QED BY <1>0, <2>1, Capacity DEF Gone
<1>2. PICK k \in 1..Len(reg) : reg[k].event = lg[i].event
  BY <1>1 DEF Serves
<1>3. lg[i].at <= reg[k].at /\ reg[k].at \in Nat /\ lg[i].at \in Nat
  BY <1>0, <1>2, LastRecord, EntryOf
<1>4. ~Expired(reg[k])
  BY <1>0, <1>3, Capacity DEF Expired
<1> QED BY <1>2, <1>4 DEF Lookup, Serves

LEMMA ServesLater ==
  ASSUME NEW reg, NEW lg, NEW t, Serves(reg, lg, t)
  PROVE  Serves(reg, lg, t + 1)
<1>0. t \in Nat /\ lg \in Seq(Entries)
  BY DEF Serves
<1>1. \A i \in 1..Len(lg) : lg[i].at \in Nat
  BY <1>0, EntryOf
<1>2. \A i \in 1..Len(lg) : Gone(lg, i, t) => Gone(lg, i, t + 1)
  BY <1>0, <1>1, Capacity DEF Gone
<1>3. \A i \in 1..Len(lg) : lg[i].at <= t
  BY DEF Serves
<1>4. \A i \in 1..Len(lg) : lg[i].at <= t + 1
  BY <1>0, <1>1, <1>3
<1>5. \A i \in 1..Len(lg) :
        (\E k \in 1..Len(reg) : reg[k].event = lg[i].event) \/ Gone(lg, i, t + 1)
  BY <1>2 DEF Serves
<1>6. t + 1 \in Nat
  BY <1>0
<1> QED BY <1>4, <1>5, <1>6 DEF Serves

LEMMA ServesEmpty == ASSUME NEW t \in Nat PROVE Serves(<<>>, <<>>, t)
<1>1. <<>> \in Seq(Entries) /\ Len(<<>>) = 0
  OBVIOUS
<1> QED BY <1>1, Capacity DEF Serves, Distinct

\* A lookup removes an entry that has expired, and nothing else.
LEMMA ServesLookup ==
  ASSUME NEW reg, NEW lg, Serves(reg, lg, now), NEW e
  PROVE  Serves(AfterLookup(reg, e), lg, now)
<1>1. CASE ~(Holds(reg, e) /\ ~Lookup(reg, e))
  BY <1>1 DEF AfterLookup
<1>2. CASE Holds(reg, e) /\ ~Lookup(reg, e)
  <2> DEFINE new == Others(reg, e)
  <2>1. /\ now \in Nat /\ reg \in Seq(Entries) /\ lg \in Seq(Entries) /\ Distinct(reg)
        /\ Len(reg) <= MaxEntries
    BY DEF Serves
  <2>2. AfterLookup(reg, e) = new
    BY <1>2 DEF AfterLookup
  <2>3. new \in Seq(Entries) /\ Len(new) <= Len(reg) /\ Len(new) \in Nat /\ Len(reg) \in Nat
    BY <2>1, OthersIs
  <2>4. PICK i \in 1..(Len(reg) + 1) :
          /\ \A n \in 1..Len(new) :
               /\ new[n] = IF n < i THEN reg[n] ELSE reg[n + 1]
               /\ new[n].event # e
               /\ n < i => n \in 1..Len(reg)
               /\ n >= i => n + 1 \in 1..Len(reg)
          /\ \A k \in 1..Len(reg) : reg[k].event # e =>
               \/ k < i /\ k \in 1..Len(new)
               \/ k > i /\ k - 1 \in 1..Len(new)
    BY <2>1, OthersIs
  <2> HIDE DEF new
  <2> DEFINE was(n) == IF n < i THEN n ELSE n + 1
  <2>5. \A n \in 1..Len(new) : was(n) \in 1..Len(reg) /\ new[n] = reg[was(n)]
    BY <2>3, <2>4
  <2>6. \A k, l \in 1..Len(new) : (k < l => was(k) < was(l)) /\ (was(k) = was(l) => k = l)
    BY <2>3
  <2> HIDE DEF was
  <2>7. Distinct(new)
    BY <2>1, <2>5, <2>6 DEF Distinct
  <2>8. \A k \in 1..Len(new) : \E n \in 1..Len(lg) : IsLast(lg, n) /\ new[k] = lg[n]
    BY <2>5 DEF Serves
  <2>9. \A k, l \in 1..Len(new) : \A m, j \in 1..Len(lg) :
          k < l /\ IsLast(lg, m) /\ IsLast(lg, j) /\ new[k] = lg[m] /\ new[l] = lg[j] => m > j
    <3> SUFFICES ASSUME NEW k \in 1..Len(new), NEW l \in 1..Len(new),
                        NEW m \in 1..Len(lg), NEW j \in 1..Len(lg),
                        k < l, IsLast(lg, m), IsLast(lg, j), new[k] = lg[m], new[l] = lg[j]
                 PROVE  m > j
      OBVIOUS
    <3>1. PICK a \in 1..Len(reg) : a = was(k) /\ new[k] = reg[a]
      BY <2>5
    <3>2. PICK b \in 1..Len(reg) : b = was(l) /\ new[l] = reg[b]
      BY <2>5
    <3>3. a < b
      <4>1. was(k) < was(l)
        BY <2>6
      <4> QED BY <3>1, <3>2, <4>1
    <3>4. \A x, y \in 1..Len(reg) : \A u, w \in 1..Len(lg) :
            x < y /\ IsLast(lg, u) /\ IsLast(lg, w) /\ reg[x] = lg[u] /\ reg[y] = lg[w] => u > w
      BY DEF Serves
    <3> QED BY <3>1, <3>2, <3>3, <3>4
  <2>10. ASSUME NEW m \in 1..Len(lg)
         PROVE  (\E k \in 1..Len(new) : new[k].event = lg[m].event) \/ Gone(lg, m, now)
    <3>1. CASE ~(\E k \in 1..Len(reg) : reg[k].event = lg[m].event)
      BY <3>1 DEF Serves
    <3>2. ASSUME NEW k \in 1..Len(reg), reg[k].event = lg[m].event, lg[m].event # e
          PROVE  \E l \in 1..Len(new) : new[l].event = lg[m].event
      <4>1. CASE k < i /\ k \in 1..Len(new)
        BY <2>4, <3>2, <4>1
      <4>2. CASE k > i /\ k - 1 \in 1..Len(new)
        <5>1. k - 1 >= i /\ (k - 1) + 1 = k
          BY <4>2
        <5>2. new[k - 1] = reg[k]
          BY <2>4, <4>2, <5>1
        <5> QED BY <3>2, <4>2, <5>2
      <4> QED BY <2>4, <3>2, <4>1, <4>2
    <3>3. ASSUME NEW k \in 1..Len(reg), reg[k].event = lg[m].event, lg[m].event = e
          PROVE  Gone(lg, m, now)
      <4>1. Expired(reg[k])
        BY <1>2, <2>1, <3>3 DEF Lookup
      <4>2. lg[m].at <= reg[k].at /\ lg[m].at \in Nat /\ reg[k].at \in Nat
        <5>1. lg[m].at \in Nat /\ reg[k].at \in Nat
          BY <2>1, EntryOf
        <5>2. lg[m].at <= reg[k].at
          BY <3>3, LastRecord
        <5> QED BY <5>1, <5>2
      <4>3. now - reg[k].at > TTL
        BY <4>1 DEF Expired
      <4>4. now - lg[m].at > TTL
        BY <2>1, <4>2, <4>3, Capacity
      <4> QED BY <4>4 DEF Gone
    <3> QED BY <3>1, <3>2, <3>3
  <2>11. Len(new) <= MaxEntries
    BY <2>1, <2>3, Capacity
  <2>12. \A m \in 1..Len(lg) : lg[m].at <= now /\ \A j \in m..Len(lg) : lg[m].at <= lg[j].at
    BY DEF Serves
  <2>13. Serves(new, lg, now)
    BY <2>1, <2>3, <2>7, <2>8, <2>9, <2>10, <2>11, <2>12 DEF Serves
  <2> QED BY <2>2, <2>13
<1> QED BY <1>1, <1>2

\* Recording e: an entry is dropped from the back when it has expired, or when
\* more events than the registry holds were recorded after it.
LEMMA ServesRecord ==
  ASSUME NEW reg, NEW lg, Serves(reg, lg, now), NEW e \in Events
  PROVE  Serves(Record(reg, e), Append(lg, [event |-> e, at |-> now]), now)
<1> DEFINE E   == [event |-> e, at |-> now]
           oth == Others(reg, e)
           mid == InFront(E, oth)
           new == Evicted(mid)
           lg2 == Append(lg, E)
<1>1. /\ now \in Nat /\ reg \in Seq(Entries) /\ lg \in Seq(Entries) /\ Distinct(reg)
      /\ Len(reg) \in Nat /\ Len(lg) \in Nat
  BY DEF Serves
<1>2. E \in Entries /\ E.event = e /\ E.at = now
  BY <1>1 DEF Entries
<1>3. /\ lg2 \in Seq(Entries) /\ Len(lg2) = Len(lg) + 1 /\ lg2[Len(lg) + 1] = E
      /\ \A n \in 1..Len(lg) : lg2[n] = lg[n]
  BY <1>1, <1>2
<1>4. oth \in Seq(Entries) /\ Len(oth) \in Nat
  BY <1>1, OthersIs
<1>5. /\ mid \in Seq(Entries) /\ Len(mid) = Len(oth) + 1 /\ mid[1] = E
      /\ \A n \in 1..Len(oth) : mid[n + 1] = oth[n]
  BY <1>2, <1>4, InFrontIs
<1>6. /\ new \in Seq(Entries) /\ Len(new) <= MaxEntries /\ Len(new) <= Len(mid) /\ Len(new) \in Nat
      /\ \A n \in 1..Len(new) : new[n] = mid[n]
      /\ \A n \in (Len(new) + 1)..Len(mid) : n > MaxEntries \/ Expired(mid[n])
  BY <1>1, <1>5, EvictedIs
<1>7. PICK i \in 1..(Len(reg) + 1) :
        /\ \A n \in 1..Len(oth) :
             /\ oth[n] = IF n < i THEN reg[n] ELSE reg[n + 1]
             /\ oth[n].event # e
             /\ n < i => n \in 1..Len(reg)
             /\ n >= i => n + 1 \in 1..Len(reg)
        /\ \A k \in 1..Len(reg) : reg[k].event # e =>
             \/ k < i /\ k \in 1..Len(oth)
             \/ k > i /\ k - 1 \in 1..Len(oth)
  BY <1>1, OthersIs
<1>8. Record(reg, e) = new
  BY DEF Record
<1> HIDE DEF E, oth, mid, new, lg2
\* Where an entry behind the first one was.
<1> DEFINE was(n) == IF n - 1 < i THEN n - 1 ELSE n
<1>9. \A n \in 2..Len(mid) : was(n) \in 1..Len(reg) /\ mid[n] = reg[was(n)] /\ mid[n].event # e
  <2> SUFFICES ASSUME NEW n \in 2..Len(mid)
               PROVE  was(n) \in 1..Len(reg) /\ mid[n] = reg[was(n)] /\ mid[n].event # e
    OBVIOUS
  <2>1. n - 1 \in 1..Len(oth) /\ (n - 1) + 1 = n
    BY <1>4, <1>5
  <2>2. mid[n] = oth[n - 1]
    BY <1>5, <2>1
  <2>3. CASE n - 1 < i
    BY <1>7, <2>1, <2>2, <2>3
  <2>4. CASE ~(n - 1 < i)
    BY <1>7, <2>1, <2>2, <2>4
  <2> QED BY <2>3, <2>4
<1>10. \A k, l \in 2..Len(mid) : (k < l => was(k) < was(l)) /\ (was(k) = was(l) => k = l)
  BY <1>4, <1>5
<1>11. \A k \in 1..Len(reg) : reg[k].event # e => \E p \in 2..Len(mid) : mid[p] = reg[k]
  <2> SUFFICES ASSUME NEW k \in 1..Len(reg), reg[k].event # e
               PROVE  \E p \in 2..Len(mid) : mid[p] = reg[k]
    OBVIOUS
  <2>1. CASE k < i /\ k \in 1..Len(oth)
    <3>1. k + 1 \in 2..Len(mid) /\ mid[k + 1] = reg[k]
      BY <1>4, <1>5, <1>7, <2>1
    <3> QED BY <3>1
  <2>2. CASE k > i /\ k - 1 \in 1..Len(oth)
    <3>1. (k - 1) + 1 = k /\ k - 1 >= i /\ k \in 2..Len(mid)
      BY <1>4, <1>5, <2>2
    <3>2. mid[k] = reg[k]
      <4>1. mid[(k - 1) + 1] = oth[k - 1]
        BY <1>5, <2>2
      <4>2. oth[k - 1] = reg[(k - 1) + 1]
        BY <1>7, <2>2, <3>1
      <4> QED BY <3>1, <4>1, <4>2
    <3> QED BY <3>1, <3>2
  <2> QED BY <1>7, <2>1, <2>2
<1> HIDE DEF was
<1>12. \A n \in 1..Len(lg) : lg[n].event # e => (IsLast(lg2, n) <=> IsLast(lg, n))
  <2> SUFFICES ASSUME NEW n \in 1..Len(lg), lg[n].event # e
               PROVE  IsLast(lg2, n) <=> IsLast(lg, n)
    OBVIOUS
  <2>1. \A j \in (n + 1)..Len(lg2) : j = Len(lg) + 1 \/ j \in (n + 1)..Len(lg)
    BY <1>1, <1>3
  <2>2. (n + 1)..Len(lg) \subseteq (n + 1)..Len(lg2) /\ (n + 1)..Len(lg) \subseteq 1..Len(lg)
    BY <1>1, <1>3
  <2> QED BY <1>2, <1>3, <2>1, <2>2 DEF IsLast
<1>13. Len(lg2) = Len(lg) + 1 /\ IsLast(lg2, Len(lg) + 1)
  BY <1>1, <1>3 DEF IsLast
<1>14. \A n \in 1..Len(lg2) : lg2[n].event = e /\ IsLast(lg2, n) => n = Len(lg) + 1
  <2> SUFFICES ASSUME NEW n \in 1..Len(lg), lg2[n].event = e, IsLast(lg2, n) PROVE FALSE
    BY <1>1, <1>3
  <2>1. Len(lg) + 1 \in (n + 1)..Len(lg2)
    BY <1>1, <1>3
  <2> QED BY <1>2, <1>3, <2>1 DEF IsLast
\* The entries behind the first one are last records of lg, in order.
<1>15. \A k \in 2..Len(mid) : \E n \in 1..Len(lg) :
         IsLast(lg, n) /\ IsLast(lg2, n) /\ mid[k] = lg[n] /\ lg2[n] = lg[n]
  <2> SUFFICES ASSUME NEW k \in 2..Len(mid)
               PROVE  \E n \in 1..Len(lg) :
                        IsLast(lg, n) /\ IsLast(lg2, n) /\ mid[k] = lg[n] /\ lg2[n] = lg[n]
    OBVIOUS
  <2>1. PICK b : b = was(k) /\ b \in 1..Len(reg) /\ mid[k] = reg[b] /\ mid[k].event # e
    BY <1>9
  <2>2. PICK n \in 1..Len(lg) : IsLast(lg, n) /\ reg[b] = lg[n]
    BY <2>1 DEF Serves
  <2> QED BY <1>3, <1>12, <2>1, <2>2
<1>16. \A k, l \in 1..Len(mid) : \A u, w \in 1..Len(lg2) :
         k < l /\ IsLast(lg2, u) /\ IsLast(lg2, w) /\ mid[k] = lg2[u] /\ mid[l] = lg2[w] => u > w
  <2> SUFFICES ASSUME NEW k \in 1..Len(mid), NEW l \in 1..Len(mid),
                      NEW u \in 1..Len(lg2), NEW w \in 1..Len(lg2), k < l,
                      IsLast(lg2, u), IsLast(lg2, w), mid[k] = lg2[u], mid[l] = lg2[w]
               PROVE  u > w
    OBVIOUS
  <2>1. l \in 2..Len(mid) /\ mid[l].event # e
    <3>1. l \in 2..Len(mid)
      BY <1>4, <1>5
    <3> QED BY <1>9, <3>1
  <2>2. w \in 1..Len(lg)
    BY <1>1, <1>2, <1>3, <2>1
  <2>3. CASE k = 1
    <3>1. u = Len(lg) + 1
      BY <1>2, <1>5, <1>14, <2>3
    <3> QED BY <1>1, <2>2, <3>1
  <2>4. CASE k # 1
    <3>1. k \in 2..Len(mid) /\ mid[k].event # e
      <4>1. k \in 2..Len(mid)
        BY <1>4, <1>5, <2>4
      <4> QED BY <1>9, <4>1
    <3>2. u \in 1..Len(lg)
      BY <1>1, <1>2, <1>3, <3>1
    <3>3. IsLast(lg, u) /\ mid[k] = lg[u]
      BY <1>3, <1>12, <3>1, <3>2
    <3>4. IsLast(lg, w) /\ mid[l] = lg[w]
      BY <1>3, <1>12, <2>1, <2>2
    <3>5. PICK a \in 1..Len(reg) : a = was(k) /\ mid[k] = reg[a]
      BY <1>9, <3>1
    <3>6. PICK b \in 1..Len(reg) : b = was(l) /\ mid[l] = reg[b]
      BY <1>9, <2>1
    <3>7. a < b
      <4>1. was(k) < was(l)
        BY <1>10, <2>1, <3>1
      <4> QED BY <3>5, <3>6, <4>1
    <3>8. \A x, y \in 1..Len(reg) : \A p, q \in 1..Len(lg) :
            x < y /\ IsLast(lg, p) /\ IsLast(lg, q) /\ reg[x] = lg[p] /\ reg[y] = lg[q] => p > q
      BY DEF Serves
    <3> QED BY <2>2, <3>2, <3>3, <3>4, <3>5, <3>6, <3>7, <3>8
  <2> QED BY <2>3, <2>4
<1>17. \A k, l \in 1..Len(mid) : mid[k].event = mid[l].event => k = l
  <2> SUFFICES ASSUME NEW k \in 1..Len(mid), NEW l \in 1..Len(mid), mid[k].event = mid[l].event
               PROVE  k = l
    OBVIOUS
  <2>1. CASE k = 1 \/ l = 1
    <3>1. (k = 1 \/ k \in 2..Len(mid)) /\ (l = 1 \/ l \in 2..Len(mid))
      BY <1>4, <1>5
    <3> QED BY <1>2, <1>5, <1>9, <2>1, <3>1
  <2>2. CASE k # 1 /\ l # 1
    <3>1. k \in 2..Len(mid) /\ l \in 2..Len(mid)
      BY <1>4, <1>5, <2>2
    <3>2. PICK a \in 1..Len(reg) : a = was(k) /\ mid[k] = reg[a]
      BY <1>9, <3>1
    <3>3. PICK b \in 1..Len(reg) : b = was(l) /\ mid[l] = reg[b]
      BY <1>9, <3>1
    <3>4. a = b
      BY <1>1, <3>2, <3>3 DEF Distinct
    <3> QED BY <1>10, <3>1, <3>2, <3>3, <3>4
  <2> QED BY <2>1, <2>2
<1>18. Len(new) >= 1 /\ new[1] = E
  <2>1. ~Expired(E)
    BY <1>1, <1>2, Capacity DEF Expired
  <2>2. Len(new) >= 1
    <3> SUFFICES ASSUME Len(new) = 0 PROVE FALSE
      BY <1>6
    <3>1. 1 \in (Len(new) + 1)..Len(mid)
      BY <1>4, <1>5
    <3> QED BY <1>5, <1>6, <2>1, <3>1, Capacity
  <2> QED BY <1>5, <1>6, <2>2
\* Behind position p are at least p events recorded since.
<1>19. ASSUME NEW m \in 1..Len(lg), NEW p \in 2..Len(mid), p > MaxEntries,
              mid[p].event = lg[m].event
       PROVE  Cardinality(Later(lg2, m)) > MaxEntries
  <2> DEFINE f == [q \in 1..p |-> mid[q].event]
  <2>1. m \in 1..Len(lg2) /\ p \in Nat /\ 1..p \subseteq 1..Len(mid)
    BY <1>1, <1>3, <1>4, <1>5
  <2>2. PICK u \in 1..Len(lg) : IsLast(lg, u) /\ IsLast(lg2, u) /\ mid[p] = lg[u] /\ lg2[u] = lg[u]
    BY <1>15
  <2>3. u >= m
    BY <1>1, <1>19, <2>2 DEF IsLast
  <2>4. ASSUME NEW q \in 1..p PROVE \E w \in 1..Len(lg2) : w >= m /\ lg2[w].event = mid[q].event
    <3>1. CASE q = 1
      <4>1. Len(lg) + 1 \in 1..Len(lg2) /\ Len(lg) + 1 >= m
        BY <1>1, <1>3
      <4> QED BY <1>3, <1>5, <3>1, <4>1
    <3>2. CASE q = p
      <4>1. u \in 1..Len(lg2)
        BY <1>1, <1>3
      <4> QED BY <2>2, <2>3, <3>2, <4>1
    <3>3. CASE q # 1 /\ q # p
      <4>1. q \in 2..Len(mid) /\ q \in 1..Len(mid) /\ p \in 1..Len(mid) /\ q < p
        BY <2>1, <3>3
      <4>2. PICK w \in 1..Len(lg) : IsLast(lg, w) /\ IsLast(lg2, w) /\ mid[q] = lg[w] /\ lg2[w] = lg[w]
        BY <1>15, <4>1
      <4>3. w \in 1..Len(lg2) /\ u \in 1..Len(lg2)
        BY <1>1, <1>3
      <4>4. w > u
        BY <1>16, <2>2, <4>1, <4>2, <4>3
      <4>5. w >= m
        BY <2>3, <4>4, <1>1
      <4> QED BY <4>2, <4>3, <4>5
    <3> QED BY <3>1, <3>2, <3>3
  <2>5. f \in [1..p -> Later(lg2, m)]
    <3>1. DOMAIN lg2 = 1..Len(lg2)
      BY <1>3
    <3> QED BY <2>4, <3>1 DEF Later
  <2>6. \A k, l \in 1..p : f[k] = f[l] => k = l
    BY <1>17, <2>1
  <2> HIDE DEF f
  <2> QED BY <1>3, <1>19, <2>1, <2>5, <2>6, ManyLater
<1>20. ASSUME NEW m \in 1..Len(lg), Gone(lg, m, now) PROVE Gone(lg2, m, now)
  <2>1. m \in 1..Len(lg2) /\ lg2[m] = lg[m]
    BY <1>1, <1>3
  <2>2. Later(lg, m) \subseteq Later(lg2, m)
    <3>1. DOMAIN lg = 1..Len(lg) /\ DOMAIN lg2 = 1..Len(lg2) /\ 1..Len(lg) \subseteq 1..Len(lg2)
      BY <1>1, <1>3
    <3> QED BY <1>3, <3>1 DEF Later
  <2>3. /\ Cardinality(Later(lg, m)) <= Cardinality(Later(lg2, m))
        /\ Cardinality(Later(lg, m)) \in Nat /\ Cardinality(Later(lg2, m)) \in Nat
    BY <1>1, <1>3, <2>1, <2>2, LaterFinite, FS_Subset
  <2> QED BY <1>20, <2>1, <2>3, Capacity DEF Gone
<1>21. ASSUME NEW m \in 1..Len(lg2)
       PROVE  (\E k \in 1..Len(new) : new[k].event = lg2[m].event) \/ Gone(lg2, m, now)
  <2>1. CASE lg2[m].event = e
    BY <1>2, <1>6, <1>18, <2>1
  <2>2. CASE lg2[m].event # e
    <3>1. m \in 1..Len(lg) /\ lg2[m] = lg[m]
      BY <1>1, <1>2, <1>3, <2>2
    <3>2. CASE Gone(lg, m, now)
      BY <1>20, <3>1, <3>2
    <3>3. CASE ~Gone(lg, m, now)
      <4>1. PICK k \in 1..Len(reg) : reg[k].event = lg[m].event
        BY <3>1, <3>3 DEF Serves
      <4>2. PICK p \in 2..Len(mid) : mid[p] = reg[k]
        BY <1>11, <2>2, <3>1, <4>1
      <4>3. CASE p <= Len(new)
        <5>1. p \in 1..Len(new)
          BY <1>6, <4>3
        <5> QED BY <1>6, <3>1, <4>1, <4>2, <5>1
      <4>4. CASE p > Len(new) /\ p > MaxEntries
        BY <1>19, <3>1, <4>1, <4>2, <4>4 DEF Gone
      <4>5. CASE p > Len(new) /\ ~(p > MaxEntries)
        <5>1. p \in (Len(new) + 1)..Len(mid)
          BY <1>4, <1>5, <1>6, <4>5
        <5>2. Expired(reg[k])
          BY <1>6, <4>2, <4>5, <5>1
        <5>3. lg[m].at <= reg[k].at
          BY <3>1, <4>1, LastRecord
        <5>4. lg[m].at \in Nat /\ reg[k].at \in Nat
          BY <1>1, <3>1, EntryOf
        <5>5. now - reg[k].at > TTL
          BY <5>2 DEF Expired
        <5>6. now \in Nat
          BY <1>1
        <5>7. now - lg[m].at > TTL
          BY <5>3, <5>4, <5>5, <5>6, OlderIsPast
        <5> QED BY <3>1, <5>7 DEF Gone
      <4> QED BY <1>6, <4>3, <4>4, <4>5
    <3> QED BY <3>2, <3>3
  <2> QED BY <2>1, <2>2
<1>22. \A k \in 1..Len(new) : \E n \in 1..Len(lg2) : IsLast(lg2, n) /\ new[k] = lg2[n]
  <2> SUFFICES ASSUME NEW k \in 1..Len(new)
               PROVE  \E n \in 1..Len(lg2) : IsLast(lg2, n) /\ new[k] = lg2[n]
    OBVIOUS
  <2>1. CASE k = 1
    <3>1. Len(lg) + 1 \in 1..Len(lg2)
      BY <1>1, <1>3
    <3> QED BY <1>3, <1>13, <1>18, <2>1, <3>1
  <2>2. CASE k # 1
    <3>1. k \in 2..Len(mid) /\ new[k] = mid[k]
      BY <1>4, <1>5, <1>6, <2>2
    <3>2. PICK n \in 1..Len(lg) : IsLast(lg, n) /\ IsLast(lg2, n) /\ mid[k] = lg[n] /\ lg2[n] = lg[n]
      BY <1>15, <3>1
    <3>3. n \in 1..Len(lg2)
      BY <1>1, <1>3
    <3> QED BY <3>1, <3>2, <3>3
  <2> QED BY <2>1, <2>2
<1>23. 1..Len(new) \subseteq 1..Len(mid)
  BY <1>4, <1>5, <1>6
<1>24. \A k, l \in 1..Len(new) : \A u, w \in 1..Len(lg2) :
         k < l /\ IsLast(lg2, u) /\ IsLast(lg2, w) /\ new[k] = lg2[u] /\ new[l] = lg2[w] => u > w
  BY <1>6, <1>16, <1>23
<1>25. Distinct(new)
  BY <1>6, <1>17, <1>23 DEF Distinct
<1>26. ASSUME NEW m \in 1..Len(lg2)
       PROVE  lg2[m].at <= now /\ \A j \in m..Len(lg2) : lg2[m].at <= lg2[j].at
  <2>1. \A n \in 1..Len(lg) : lg[n].at <= now /\ \A j \in n..Len(lg) : lg[n].at <= lg[j].at
    BY DEF Serves
  <2>2. CASE m = Len(lg) + 1
    <3>1. \A j \in m..Len(lg2) : j = m
      BY <1>1, <1>3, <2>2
    <3> QED BY <1>1, <1>2, <1>3, <2>2, <3>1
  <2>3. CASE m # Len(lg) + 1
    <3>1. m \in 1..Len(lg) /\ \A j \in m..Len(lg2) : j = Len(lg) + 1 \/ j \in m..Len(lg)
      BY <1>1, <1>3, <2>3
    <3>2. m..Len(lg) \subseteq 1..Len(lg)
      BY <1>1, <3>1
    <3> QED BY <1>2, <1>3, <2>1, <3>1, <3>2
  <2> QED BY <2>2, <2>3
<1>27. Serves(new, lg2, now)
  BY <1>1, <1>3, <1>6, <1>21, <1>22, <1>24, <1>25, <1>26 DEF Serves
<1> QED BY <1>8, <1>27 DEF lg2, E

---------------------------------------------------------------------------
(***************************************************************************)
(* Windows are numbered: window d begins at d * Window.                    *)
(***************************************************************************)
LEMMA WindowOf ==
  ASSUME NEW t \in Nat
  PROVE  \E d \in Nat : t - (t % Window) = d * Window /\ d * Window <= t /\ t < d * Window + Window
<1>1. PICK W \in Nat \ {0} : W = Window
  BY Capacity
<1>2. t \div W \in Nat /\ t = W * (t \div W) + (t % W) /\ t % W \in 0..(W - 1)
  OBVIOUS
<1>3. PICK d \in Nat : d = t \div W
  BY <1>2
<1>4. W * d = d * W
  OBVIOUS
<1> QED BY <1>1, <1>2, <1>3, <1>4

LEMMA NextWindow ==
  ASSUME NEW a \in Nat, NEW b \in Nat, a < b
  PROVE  a * Window + Window <= b * Window
<1>1. PICK W \in Nat \ {0} : W = Window
  BY Capacity
<1>2. PICK c \in Nat : b = a + 1 + c
  <2>1. b - a - 1 \in Nat /\ b = a + 1 + (b - a - 1)
    OBVIOUS
  <2> QED BY <2>1
<1>3. b * W = a * W + W + c * W /\ c * W >= 0
  BY <1>2
<1> QED BY <1>1, <1>3

LEMMA SameOrEarlier ==
  ASSUME NEW a \in Nat, NEW b \in Nat, a * Window < b * Window + Window
  PROVE  a <= b
<1>1. ASSUME b < a PROVE FALSE
  <2>1. b * Window + Window <= a * Window
    BY <1>1, NextWindow
  <2>2. a * Window \in Nat /\ b * Window \in Nat /\ Window \in Nat
    BY Capacity
  <2> QED BY <2>1, <2>2
<1> QED BY <1>1

---------------------------------------------------------------------------
(***************************************************************************)
(* The rate limiter.  A bucket counts at least the replies let through in  *)
(* its window, and knows whether there were any in the window before.      *)
(***************************************************************************)
Grants == [key : Keys, at : Nat, limit : Nat \ {0}, turn : Nat]

Bucket == [start : Nat, count : Nat, prev : Nat]

\* The replies of key k let through since w, in turn n: between the nth time an
\* overtaken caller set the bucket back and the next.
Since(g, k, n, w) == {j \in 1..Len(g) : g[j].key = k /\ g[j].turn = n /\ w <= g[j].at}

\* Those under the limit L in the window that begins at w.
Within(g, k, n, L, w) ==
  {j \in 1..Len(g) : /\ g[j].key = k /\ g[j].turn = n /\ g[j].limit = L
                     /\ w <= g[j].at /\ g[j].at < w + Window}

Counts(g, k, n, b) ==
  /\ b \in Bucket
  /\ \E d \in Nat : b.start = d * Window
  /\ \A j \in 1..Len(g) : g[j].key = k /\ g[j].turn = n => g[j].at < b.start + Window
  /\ Cardinality(Since(g, k, n, b.start)) <= b.count
  /\ \A j \in 1..Len(g) :
       g[j].key = k /\ g[j].turn = n /\ g[j].at < b.start /\ b.start <= g[j].at + Window
         => b.prev > 0

\* A whole window has passed since the last reply of key k in turn n.
Forgotten(g, k, n, t) ==
  \A j \in 1..Len(g) : g[j].key = k /\ g[j].turn = n =>
    \E d \in Nat : g[j].at < d * Window /\ d * Window + Window <= t

\* In no turn has a window more than its limit, and one less after one with any.
Limited(g) ==
  \A k \in Keys, n \in Nat, L \in Nat \ {0}, d \in Nat :
    /\ Cardinality(Within(g, k, n, L, d * Window)) <= L
    /\ Within(g, k, n, L, d * Window) # {} =>
         Cardinality(Within(g, k, n, L, d * Window + Window)) < L

\* What a bucket, or its absence, stands for in the turn of its key.
Stands(b, g, k, n, t) ==
  IF b = NoBucket THEN Forgotten(g, k, n, t) ELSE Counts(g, k, n, b) /\ b.start <= t

Limits(bs, sb, g, t) ==
  /\ t \in Nat /\ g \in Seq(Grants) /\ \A j \in 1..Len(g) : g[j].at <= t
  /\ bs \in [Keys -> Bucket \cup {NoBucket}]
  /\ sb \in [Keys -> Nat] /\ \A j \in 1..Len(g) : g[j].turn <= sb[g[j].key]
  /\ \A k \in Keys : Stands(bs[k], g, k, sb[k], t)
  /\ Limited(g)

LEMMA GrantOf ==
  ASSUME NEW g \in Seq(Grants), NEW i \in 1..Len(g)
  PROVE  g[i].key \in Keys /\ g[i].at \in Nat /\ g[i].limit \in Nat \ {0} /\ g[i].turn \in Nat
<1>1. g[i] \in Grants
  BY ElementOfSeq
<1> QED BY <1>1 DEF Grants

LEMMA CountType ==
  ASSUME NEW g \in Seq(Grants), NEW S, S \subseteq 1..Len(g)
  PROVE  IsFiniteSet(S) /\ Cardinality(S) \in Nat
<1>1. IsFiniteSet(1..Len(g))
  BY FS_Interval
<1> QED BY <1>1, FS_Subset, FS_CardinalityType

LEMMA CountEmpty == Cardinality({}) = 0
BY FS_EmptySet

\* A rolled bucket is one of the window that t lies in.
LEMMA RolledStart ==
  ASSUME NEW b \in Bucket \cup {NoBucket}, NEW t \in Nat,
         b # NoBucket => \E d \in Nat : b.start = d * Window
  PROVE  /\ Rolled(b, t) \in Bucket /\ Rolled(b, t).start <= t /\ t < Rolled(b, t).start + Window
         /\ \E d \in Nat : Rolled(b, t).start = d * Window
<1>1. PICK d \in Nat : Aligned(t) = d * Window /\ d * Window <= t /\ t < d * Window + Window
  BY WindowOf DEF Aligned
<1>2. PICK a \in Nat : a = Aligned(t) /\ a = d * Window /\ a <= t /\ t < a + Window
  <2>1. d * Window \in Nat
    BY Capacity
  <2> QED BY <1>1, <2>1
<1>3. Rolled(b, t) \in Bucket /\ Rolled(b, t).start = a
  BY <1>2 DEF Rolled, Bucket
<1> QED BY <1>2, <1>3

\* The bucket that Allow decides by counts in the window of the caller's time.
LEMMA RolledCounts ==
  ASSUME NEW k \in Keys, Limits(buckets, setbacks, grants, now), NEW m \in 0..now,
         ~Overtaken(k, m)
  PROVE  Counts(grants, k, setbacks[k], Rolled(buckets[k], m))
<1>1. PICK g \in Seq(Grants) : g = grants
  BY DEF Limits
<1>2. PICK b \in Bucket \cup {NoBucket} : b = buckets[k]
  BY DEF Limits
<1>0. PICK n \in Nat : n = setbacks[k]
  BY DEF Limits
<1>3. PICK t \in Nat : t = m /\ t <= now /\ now \in Nat
  BY DEF Limits
<1>4. PICK W \in Nat \ {0} : W = Window
  BY Capacity
<1>5. PICK d \in Nat : Aligned(t) = d * W /\ d * W <= t /\ t < d * W + W
  BY <1>3, <1>4, WindowOf DEF Aligned
<1>6. PICK a \in Nat : a = Aligned(t) /\ a = d * W /\ a <= t /\ t < a + W
  BY <1>5
<1>7. \A j \in 1..Len(g) : g[j].at \in Nat
  BY GrantOf
<1>8. b # NoBucket => Counts(g, k, n, b) /\ b.start \in Nat /\ b.count \in Nat
  BY <1>0, <1>1, <1>2 DEF Limits, Stands, Bucket
<1>12. b # NoBucket => b.start <= a
  BY <1>2, <1>3, <1>6, <1>8 DEF Overtaken
<1> DEFINE c == Rolled(buckets[k], m)
<1>9. CASE b # NoBucket /\ b.start = a
  <2>1. c = b
    BY <1>2, <1>3, <1>4, <1>6, <1>8, <1>9 DEF Rolled
  <2> QED BY <1>0, <1>1, <1>8, <1>9, <2>1
<1>10. CASE b # NoBucket /\ b.start # a /\ b.start + W = a
  <2>1. c = [start |-> a, count |-> 0, prev |-> b.count]
    BY <1>2, <1>3, <1>4, <1>6, <1>10 DEF Rolled
  <2>2. \A j \in 1..Len(g) : g[j].key = k /\ g[j].turn = n => g[j].at < a
    BY <1>4, <1>8, <1>10 DEF Counts
  <2>3. Since(g, k, n, a) = {}
    BY <1>7, <2>2 DEF Since
  <2>4. ASSUME NEW j \in 1..Len(g), g[j].key = k, g[j].turn = n, a <= g[j].at + W PROVE b.count > 0
    <3>1. j \in Since(g, k, n, b.start)
      BY <1>7, <1>8, <1>10, <2>4 DEF Since
    <3>2. Since(g, k, n, b.start) \subseteq 1..Len(g)
      BY DEF Since
    <3>3. Cardinality(Since(g, k, n, b.start)) \in Nat /\ Cardinality(Since(g, k, n, b.start)) # 0
      BY <3>1, <3>2, CountType, FS_EmptySet
    <3>4. Cardinality(Since(g, k, n, b.start)) <= b.count
      BY <1>8, <1>10 DEF Counts
    <3> QED BY <1>8, <1>10, <3>3, <3>4
  <2>5. c \in Bucket /\ c.start = a /\ c.count = 0 /\ c.prev = b.count
    BY <1>8, <1>10, <2>1 DEF Bucket
  <2>6. \A j \in 1..Len(g) : g[j].key = k /\ g[j].turn = n => g[j].at < a + W
    BY <1>7, <2>2
  <2>7. Cardinality(Since(g, k, n, c.start)) <= c.count
    <3>1. Since(g, k, n, c.start) = {}
      BY <2>3, <2>5
    <3>2. Cardinality(Since(g, k, n, c.start)) = 0
      BY <3>1, CountEmpty
    <3> QED BY <2>5, <3>2
  <2> QED BY <1>0, <1>1, <1>4, <1>6, <2>4, <2>5, <2>6, <2>7 DEF Counts
<1>11. CASE b = NoBucket \/ (b.start # a /\ b.start + W # a)
  <2>1. c = [start |-> a, count |-> 0, prev |-> 0]
    BY <1>2, <1>3, <1>4, <1>6, <1>11 DEF Rolled
  <2>2. ASSUME NEW j \in 1..Len(g), g[j].key = k, g[j].turn = n PROVE g[j].at + W < a
    <3>1. CASE b = NoBucket
      <4>1. PICK e \in Nat : g[j].at < e * W /\ e * W + W <= now
        BY <1>0, <1>1, <1>2, <1>4, <2>2, <3>1 DEF Limits, Stands, Forgotten
      <4>0. PICK f \in Nat : Aligned(now) = f * W /\ f * W <= now /\ now < f * W + W
        BY <1>3, <1>4, WindowOf DEF Aligned
      <4>8. Aligned(now) <= a
        BY <1>2, <1>3, <1>6, <3>1, <4>0 DEF Overtaken
      <4>2. e * W + W = (e + 1) * W /\ e * W \in Nat /\ f * W \in Nat
        OBVIOUS
      <4>3. e + 1 <= f
        <5>1. (e + 1) * W < f * W + W
          BY <1>3, <4>0, <4>1, <4>2
        <5> QED BY <1>4, <5>1, SameOrEarlier
      <4>4. e * W + W <= f * W
        BY <1>4, <4>3, NextWindow
      <4>5. PICK x \in Nat, v \in Nat : x = g[j].at /\ v = e * W
        BY <1>7, <4>2
      <4>6. x < v /\ v + W <= a
        BY <4>0, <4>1, <4>4, <4>5, <4>8
      <4>7. x + W < a
        BY <4>5, <4>6
      <4> QED BY <4>5, <4>7
    <3>2. CASE b # NoBucket
      <4>1. PICK e \in Nat : b.start = e * W
        BY <1>4, <1>8, <3>2 DEF Counts
      <4>2. e <= d
        BY <1>4, <1>6, <1>8, <1>12, <3>2, <4>1, SameOrEarlier
      <4>3. e # d /\ e + 1 # d
        <5>1. (e + 1) * W = e * W + W
          OBVIOUS
        <5> QED BY <1>6, <1>11, <3>2, <4>1, <5>1
      <4>4. (e + 1) * W + W <= d * W
        BY <1>4, <4>2, <4>3, NextWindow
      <4>5. (e + 1) * W = e * W + W /\ e * W \in Nat
        OBVIOUS
      <4>6. g[j].at < b.start + W
        BY <1>4, <1>8, <2>2, <3>2 DEF Counts
      <4>7. b.start + W + W <= a
        BY <1>6, <4>1, <4>4, <4>5
      <4>8. PICK y \in Nat, z \in Nat : y = g[j].at /\ z = b.start
        BY <1>7, <1>8, <3>2
      <4>9. y < z + W /\ z + W + W <= a
        BY <4>6, <4>7, <4>8
      <4>10. y + W < a
        BY <4>9
      <4> QED BY <4>8, <4>10
    <3> QED BY <3>1, <3>2
  <2>3. Since(g, k, n, a) = {}
    BY <1>7, <2>2 DEF Since
  <2>4. c \in Bucket /\ c.start = a /\ c.count = 0 /\ c.prev = 0
    BY <2>1 DEF Bucket
  <2>5. \A j \in 1..Len(g) : g[j].key = k /\ g[j].turn = n => g[j].at < a + W
    BY <1>7, <2>2
  <2>6. Cardinality(Since(g, k, n, c.start)) <= c.count
    <3>1. Since(g, k, n, c.start) = {}
      BY <2>3, <2>4
    <3>2. Cardinality(Since(g, k, n, c.start)) = 0
      BY <3>1, CountEmpty
    <3> QED BY <2>4, <3>2
  <2>7. \A j \in 1..Len(g) : ~(g[j].key = k /\ g[j].turn = n /\ a <= g[j].at + W)
    BY <1>7, <2>2
  <2> QED BY <1>0, <1>1, <1>4, <1>6, <2>4, <2>5, <2>6, <2>7 DEF Counts
<1> QED BY <1>9, <1>10, <1>11

\* After a caller that was overtaken nothing counts yet.
LEMMA OvertakenCounts ==
  ASSUME NEW k \in Keys, Limits(buckets, setbacks, grants, now), NEW b \in Bucket,
         \E d \in Nat : b.start = d * Window
  PROVE  Counts(grants, k, setbacks[k] + 1, b)
<1>1. PICK g \in Seq(Grants) : g = grants /\ \A j \in 1..Len(g) : g[j].turn <= setbacks[g[j].key]
  BY DEF Limits
<1>2. PICK n \in Nat : n = setbacks[k]
  BY DEF Limits
<1>3. \A j \in 1..Len(g) : g[j].turn \in Nat
  BY GrantOf
<1>4. \A j \in 1..Len(g) : ~(g[j].key = k /\ g[j].turn = n + 1)
  BY <1>1, <1>2, <1>3
<1>5. Since(g, k, n + 1, b.start) = {}
  BY <1>4 DEF Since
<1>6. Cardinality(Since(g, k, n + 1, b.start)) <= b.count
  <2>1. b.count \in Nat /\ Cardinality(Since(g, k, n + 1, b.start)) = 0
    BY <1>5, CountEmpty DEF Bucket
  <2> QED BY <2>1
<1> QED BY <1>1, <1>2, <1>4, <1>6 DEF Counts

\* What a caller that read t finds, in the turn that it belongs to.
TurnOf(k, t) == setbacks[k] + (IF Overtaken(k, t) THEN 1 ELSE 0)

Finds(k, t, n, b) ==
  /\ n \in Nat /\ setbacks[k] <= n
  /\ Counts(grants, k, n, b) /\ b \in Bucket /\ b.start <= t /\ t < b.start + Window

LEMMA CallerFinds ==
  ASSUME NEW k \in Keys, Limits(buckets, setbacks, grants, now), NEW t \in 0..now
  PROVE  Finds(k, t, TurnOf(k, t), Rolled(buckets[k], t))
<1>1. now \in Nat /\ t \in Nat /\ t <= now /\ setbacks[k] \in Nat
  BY DEF Limits
<1>2. PICK b \in Bucket \cup {NoBucket} : b = buckets[k] /\ Stands(b, grants, k, setbacks[k], now)
  BY DEF Limits
<1>3. b # NoBucket => \E d \in Nat : b.start = d * Window
  BY <1>2 DEF Stands, Counts
<1>4. PICK c : c = Rolled(b, t)
  OBVIOUS
<1>5. c \in Bucket /\ c.start <= t /\ t < c.start + Window /\ \E d \in Nat : c.start = d * Window
  BY <1>1, <1>3, <1>4, RolledStart
<1>6. CASE Overtaken(k, t)
  <2>1. TurnOf(k, t) = setbacks[k] + 1
    BY <1>6 DEF TurnOf
  <2>2. Counts(grants, k, setbacks[k] + 1, c)
    BY <1>5, OvertakenCounts
  <2>3. setbacks[k] + 1 \in Nat /\ setbacks[k] <= setbacks[k] + 1
    BY <1>1
  <2> QED BY <1>2, <1>4, <1>5, <2>1, <2>2, <2>3 DEF Finds
<1>7. CASE ~Overtaken(k, t)
  <2>1. TurnOf(k, t) = setbacks[k] /\ setbacks[k] <= setbacks[k]
    BY <1>1, <1>7 DEF TurnOf
  <2>2. Counts(grants, k, setbacks[k], c)
    BY <1>2, <1>4, <1>7, RolledCounts
  <2> QED BY <1>1, <1>2, <1>4, <1>5, <2>1, <2>2 DEF Finds
<1> QED BY <1>6, <1>7

LEMMA LimitsLater ==
  ASSUME NEW bs, NEW sb, NEW g, NEW t, Limits(bs, sb, g, t)
  PROVE  Limits(bs, sb, g, t + 1)
<1>1. t \in Nat /\ g \in Seq(Grants) /\ t + 1 \in Nat /\ Window \in Nat
  BY Capacity DEF Limits
<1>2. \A j \in 1..Len(g) : g[j].at <= t + 1
  BY <1>1, GrantOf DEF Limits
<1>3. ASSUME NEW k \in Keys, Forgotten(g, k, sb[k], t) PROVE Forgotten(g, k, sb[k], t + 1)
  <2>1. \A d \in Nat : d * Window + Window <= t => d * Window + Window <= t + 1
    BY <1>1
  <2> QED BY <1>3, <2>1 DEF Forgotten
<1>4. ASSUME NEW k \in Keys, bs[k] # NoBucket PROVE bs[k].start <= t + 1
  <2>1. bs[k].start \in Nat /\ bs[k].start <= t
    BY <1>4 DEF Limits, Stands, Bucket
  <2> QED BY <1>1, <2>1
<1>5. ASSUME NEW k \in Keys PROVE Stands(bs[k], g, k, sb[k], t + 1)
  BY <1>3, <1>4 DEF Limits, Stands
<1> QED BY <1>1, <1>2, <1>5 DEF Limits

LEMMA LimitsEmpty ==
  ASSUME NEW t \in Nat
  PROVE  Limits([k \in Keys |-> NoBucket], [k \in Keys |-> 0], <<>>, t)
<1>1. <<>> \in Seq(Grants) /\ Len(<<>>) = 0
  OBVIOUS
<1>2. \A k, n, L, w : Within(<<>>, k, n, L, w) = {}
  BY <1>1 DEF Within
<1>3. \A k, n, L, w : Cardinality(Within(<<>>, k, n, L, w)) = 0
  BY <1>2, CountEmpty
<1>5. \A L \in Nat \ {0} : 0 <= L
  OBVIOUS
<1>6. Limited(<<>>)
  BY <1>2, <1>3, <1>5 DEF Limited
<1>4. \A k, n : Stands(NoBucket, <<>>, k, n, t)
  BY <1>1 DEF Forgotten, Stands
<1> QED BY <1>1, <1>4, <1>6 DEF Limits

\* A reply refused leaves the bucket rolled to the window of its time.
LEMMA LimitsRolled ==
  ASSUME NEW k \in Keys, Limits(buckets, setbacks, grants, now), NEW t \in 0..now,
         NEW n, NEW b, Finds(k, t, n, b)
  PROVE  Limits([buckets EXCEPT ![k] = b], [setbacks EXCEPT ![k] = n], grants, now)
<1>1. PICK g \in Seq(Grants) : g = grants
  BY DEF Limits
<1>2. Counts(grants, k, n, b) /\ b.start <= now /\ n \in Nat /\ setbacks[k] <= n
  <2>1. b.start \in Nat /\ b.start <= t /\ t \in Nat /\ t <= now /\ now \in Nat
    BY DEF Finds, Bucket, Limits
  <2> QED BY <2>1 DEF Finds
<1>3. b \in Bucket /\ b # NoBucket
  BY ReplyAssumption DEF Finds, Bucket
<1>4. PICK bs, sb : bs = [buckets EXCEPT ![k] = b] /\ sb = [setbacks EXCEPT ![k] = n]
  OBVIOUS
<1>5. bs \in [Keys -> Bucket \cup {NoBucket}] /\ bs[k] = b /\ \A i \in Keys \ {k} : bs[i] = buckets[i]
  BY <1>3, <1>4 DEF Limits
<1>8. sb \in [Keys -> Nat] /\ sb[k] = n /\ \A i \in Keys \ {k} : sb[i] = setbacks[i]
  BY <1>2, <1>4 DEF Limits
<1>9. ASSUME NEW j \in 1..Len(grants) PROVE grants[j].turn <= sb[grants[j].key]
  <2>1. grants[j].key \in Keys /\ grants[j].turn \in Nat /\ grants[j].turn <= setbacks[grants[j].key]
    BY <1>1, GrantOf DEF Limits
  <2>2. setbacks[k] \in Nat
    BY DEF Limits
  <2> QED BY <1>2, <1>8, <2>1, <2>2
<1>6. ASSUME NEW i \in Keys PROVE Stands(bs[i], grants, i, sb[i], now)
  <2>1. CASE i = k
    BY <1>2, <1>3, <1>5, <1>8, <2>1 DEF Stands
  <2>2. CASE i # k
    BY <1>5, <1>8, <2>2 DEF Limits
  <2> QED BY <2>1, <2>2
<1>7. Limits(bs, sb, grants, now)
  BY <1>5, <1>6, <1>8, <1>9 DEF Limits
<1> QED BY <1>4, <1>7

\* A bucket that is swept is of a window that ended a window ago, or longer: the
\* sweep's time may be past.
LEMMA LimitsSwept ==
  ASSUME Limits(buckets, setbacks, grants, now), Sweep
  PROVE  Limits(buckets', setbacks, grants, now)
<1>1. PICK t \in 0..now, old \in SUBSET Keys :
        /\ old = {k \in Keys : buckets[k] # NoBucket /\ t - buckets[k].start >= 2 * Window}
        /\ buckets' = [k \in Keys |-> IF k \in old THEN NoBucket ELSE buckets[k]]
  BY DEF Sweep
<1>2. PICK bs : bs = buckets' /\ bs = [k \in Keys |-> IF k \in old THEN NoBucket ELSE buckets[k]]
  BY <1>1
<1>3. bs \in [Keys -> Bucket \cup {NoBucket}]
  BY <1>2 DEF Limits
<1>4. ASSUME NEW k \in old PROVE Forgotten(grants, k, setbacks[k], now)
  <2>1. PICK b \in Bucket : b = buckets[k] /\ Counts(grants, k, setbacks[k], b)
    BY <1>1 DEF Limits, Stands
  <2>2. PICK d \in Nat : b.start = d * Window
    BY <2>1 DEF Counts
  <2>3. PICK e \in Nat : e = d + 1
    OBVIOUS
  <2>4. e * Window = d * Window + Window
    <3>1. PICK W \in Nat : W = Window
      BY Capacity
    <3>2. (d + 1) * W = d * W + W
      OBVIOUS
    <3> QED BY <2>3, <3>1, <3>2
  <2>5. now \in Nat /\ t \in Nat /\ t <= now /\ Window \in Nat /\ b.start \in Nat
    BY Capacity DEF Limits, Bucket
  <2>8. t - b.start >= 2 * Window
    BY <1>1, <2>1
  <2>6. e * Window + Window <= now
    BY <2>2, <2>4, <2>5, <2>8
  <2>7. \A j \in 1..Len(grants) : grants[j].key = k /\ grants[j].turn = setbacks[k] =>
          grants[j].at < e * Window
    BY <2>1, <2>2, <2>4 DEF Counts
  <2> QED BY <2>6, <2>7 DEF Forgotten
<1>5. ASSUME NEW k \in Keys PROVE Stands(bs[k], grants, k, setbacks[k], now)
  <2>1. CASE k \notin old
    BY <1>2, <2>1 DEF Limits
  <2>2. CASE k \in old
    BY <1>2, <1>4, <2>2 DEF Stands
  <2> QED BY <2>1, <2>2
<1>6. Limits(bs, setbacks, grants, now)
  BY <1>3, <1>5 DEF Limits
<1> QED BY <1>2, <1>6

\* What Limited is for: an interval as long as a window meets two windows.
LEMMA LimitsBound == ASSUME Limits(buckets, setbacks, grants, now) PROVE BurstBounded
<1>1. PICK g \in Seq(Grants) : g = grants /\ Limited(g)
  BY DEF Limits
<1>2. PICK W \in Nat \ {0} : W = Window
  BY Capacity
<1>3. \A j \in 1..Len(g) : g[j].at \in Nat /\ g[j].key \in Keys /\ g[j].limit \in Nat \ {0} /\ g[j].turn \in Nat
  BY GrantOf
<1> SUFFICES ASSUME NEW i \in 1..Len(g)
             PROVE  Cardinality({j \in DOMAIN g : /\ g[j].key = g[i].key
                                                  /\ g[j].limit = g[i].limit
                                                  /\ g[j].turn = g[i].turn
                                                  /\ g[j].at \in g[i].at..(g[i].at + W - 1)})
                      < 2 * g[i].limit
  BY <1>1, <1>2 DEF BurstBounded
<1>4. PICK k \in Keys, n \in Nat, L \in Nat \ {0}, t \in Nat :
        k = g[i].key /\ n = g[i].turn /\ L = g[i].limit /\ t = g[i].at
  BY <1>3
<1>5. PICK d \in Nat : d * W <= t /\ t < d * W + W
  BY <1>2, <1>4, WindowOf
<1>6. PICK w \in Nat : w = d * W
  <2>1. d * W \in Nat
    OBVIOUS
  <2> QED BY <2>1
<1> DEFINE S == {j \in DOMAIN g : /\ g[j].key = g[i].key /\ g[j].limit = g[i].limit
                                  /\ g[j].turn = g[i].turn
                                  /\ g[j].at \in g[i].at..(g[i].at + W - 1)}
           A == Within(g, k, n, L, w)
           B == Within(g, k, n, L, w + W)
<1>7. S \subseteq A \cup B /\ i \in A
  <2>1. w <= t /\ t < w + W
    BY <1>5, <1>6
  <2>2. i \in A
    BY <1>2, <1>4, <2>1 DEF Within
  <2>3. ASSUME NEW j \in S PROVE j \in A \cup B
    <3>1. PICK y \in Nat : j \in 1..Len(g) /\ g[j].key = k /\ g[j].turn = n /\ g[j].limit = L /\ y = g[j].at
      BY <1>3, <1>4
    <3>2. t <= y /\ y <= t + W - 1
      BY <1>4, <3>1
    <3>3. w <= y /\ (y < w + W \/ (w + W <= y /\ y < w + W + W))
      BY <2>1, <3>2
    <3> QED BY <1>2, <3>1, <3>3 DEF Within
  <2> QED BY <2>2, <2>3
<1>8. A \subseteq 1..Len(g) /\ B \subseteq 1..Len(g) /\ S \subseteq 1..Len(g)
  BY DEF Within
<1>9. Cardinality(A) <= L /\ Cardinality(B) < L
  BY <1>1, <1>2, <1>6, <1>7 DEF Limited
<1> HIDE DEF S, A, B
<1>10. /\ IsFiniteSet(A) /\ IsFiniteSet(B) /\ Cardinality(A) \in Nat /\ Cardinality(B) \in Nat
       /\ Cardinality(S) \in Nat
  BY <1>8, CountType
<1>11. /\ IsFiniteSet(A \cup B) /\ Cardinality(A \cup B) \in Nat
       /\ Cardinality(A \cup B) <= Cardinality(A) + Cardinality(B)
  <2>1. IsFiniteSet(A \cup B) /\ Cardinality(A \cup B) = Cardinality(A) + Cardinality(B) - Cardinality(A \cap B)
    BY <1>10, FS_Union
  <2>2. Cardinality(A \cap B) \in Nat /\ Cardinality(A \cup B) \in Nat
    <3>1. IsFiniteSet(A \cap B)
      <4>1. A \cap B \subseteq A
        OBVIOUS
      <4> QED BY <1>10, <4>1, FS_Subset
    <3> QED BY <2>1, <3>1, FS_CardinalityType
  <2> QED BY <1>10, <2>1, <2>2
<1>12. Cardinality(S) <= Cardinality(A \cup B)
  BY <1>7, <1>11, FS_Subset
<1>13. Cardinality(S) < 2 * L
  BY <1>9, <1>10, <1>11, <1>12
<1> QED BY <1>4, <1>13 DEF S

\* The replies let through since w, when one more is at t.
LEMMA OneMore ==
  ASSUME NEW S, IsFiniteSet(S), NEW T, NEW x, T \subseteq S \cup {x}
  PROVE  Cardinality(T) <= Cardinality(S) + 1
<1>1. IsFiniteSet(S \cup {x}) /\ Cardinality(S \cup {x}) <= Cardinality(S) + 1
  <2>1. Cardinality(S) \in Nat
    BY FS_CardinalityType
  <2> QED BY <2>1, FS_AddElement
<1>2. Cardinality(T) <= Cardinality(S \cup {x})
  BY <1>1, FS_Subset
<1>3. Cardinality(T) \in Nat /\ Cardinality(S \cup {x}) \in Nat /\ Cardinality(S) \in Nat
  BY <1>1, FS_Subset, FS_CardinalityType
<1> QED BY <1>1, <1>2, <1>3

\* A reply let through: the bucket knows enough to admit it.
LEMMA LimitsGranted ==
  ASSUME NEW k \in Keys, NEW L \in Nat \ {0}, Limits(buckets, setbacks, grants, now),
         NEW t \in 0..now, NEW tn, NEW b, Finds(k, t, tn, b), Admits(b, t, L)
  PROVE  Limits([buckets EXCEPT ![k] = [b EXCEPT !.count = @ + 1]],
                [setbacks EXCEPT ![k] = tn],
                Append(grants, [key |-> k, at |-> t, limit |-> L, turn |-> tn]), now)
<1>1. PICK g \in Seq(Grants) : g = grants /\ Limited(g)
  BY DEF Limits
<1>2. PICK W \in Nat \ {0} : W = Window
  BY Capacity
<1>3. t \in Nat /\ t <= now /\ now \in Nat /\ \A j \in 1..Len(g) : g[j].at <= now
  BY <1>1 DEF Limits
<1>4. Counts(g, k, tn, b) /\ b.start <= t /\ t < b.start + W
  BY <1>1, <1>2 DEF Finds
<1>33. tn \in Nat /\ setbacks[k] \in Nat /\ setbacks[k] <= tn
  BY DEF Finds, Limits
<1>5. b \in Bucket /\ b.start \in Nat /\ b.count \in Nat /\ b.prev \in Nat
  BY <1>4 DEF Counts, Bucket
<1>6. PICK c : c = [start |-> b.start, count |-> b.count + 1, prev |-> b.prev]
  OBVIOUS
<1>7. c \in Bucket /\ c # NoBucket /\ c.start = b.start /\ c.count = b.count + 1 /\ c.prev = b.prev
  BY <1>5, <1>6, ReplyAssumption DEF Bucket
<1>8. c = [b EXCEPT !.count = @ + 1]
  BY <1>4, <1>5, <1>6 DEF Bucket
<1>9. PICK x \in Grants : x = [key |-> k, at |-> t, limit |-> L, turn |-> tn]
  BY <1>3, <1>33 DEF Grants
<1>10. x.key = k /\ x.at = t /\ x.limit = L /\ x.turn = tn
  BY <1>9
<1>11. PICK g2 \in Seq(Grants) : g2 = Append(g, x)
  <2>1. Append(g, x) \in Seq(Grants)
    OBVIOUS
  <2> QED BY <2>1
<1>12. PICK n \in Nat : n = Len(g)
  OBVIOUS
<1>13. Len(g2) = n + 1 /\ g2[n + 1] = x /\ \A j \in 1..n : g2[j] = g[j]
  BY <1>11, <1>12
<1>14. 1..Len(g2) = 1..n \cup {n + 1} /\ 1..Len(g) = 1..n
  BY <1>12, <1>13
<1>15. \A j \in 1..n : g[j].at \in Nat /\ g[j].key \in Keys /\ g[j].limit \in Nat \ {0} /\ g[j].turn \in Nat
  BY <1>12, GrantOf
\* What Admits says.
<1>16. b.count * W + b.prev * (W - (t - b.start)) + W <= L * W
  BY <1>2, <1>3, <1>4 DEF Admits
<1>17. b.count + 1 <= L /\ (b.prev > 0 => b.count + 1 < L)
  <2>1. PICK m \in Nat : m = b.count
    BY <1>5
  <2>2. PICK p \in Nat : p = b.prev
    BY <1>5
  <2>3. PICK u \in Nat \ {0} : u = W - (t - b.start)
    BY <1>4, <1>5
  <2>4. m * W + p * u + W <= L * W
    BY <1>16, <2>1, <2>2, <2>3
  <2>5. p * u >= 0 /\ (p > 0 => p * u > 0)
    OBVIOUS
  <2>6. (m + 1) * W = m * W + W
    OBVIOUS
  <2>7. \A y, z \in Nat : y * W <= z * W => y <= z
    <3> SUFFICES ASSUME NEW y \in Nat, NEW z \in Nat, y * W <= z * W PROVE y <= z
      OBVIOUS
    <3>1. y * W < z * W + W
      OBVIOUS
    <3> QED BY <1>2, <3>1, SameOrEarlier
  <2>8. (m + 1) * W <= L * W
    BY <2>4, <2>5, <2>6
  <2>9. m + 1 <= L
    BY <2>7, <2>8
  <2>10. p > 0 => m + 1 # L
    BY <2>4, <2>5, <2>6
  <2> QED BY <2>1, <2>2, <2>9, <2>10
\* The bucket counts the reply too.
<1>18. Counts(g2, k, tn, c)
  <2>1. \A j \in 1..Len(g2) : g2[j].key = k /\ g2[j].turn = tn => g2[j].at < c.start + W
    BY <1>2, <1>4, <1>7, <1>10, <1>12, <1>13, <1>14 DEF Counts
  <2>2. Cardinality(Since(g2, k, tn, c.start)) <= c.count
    <3>1. Since(g2, k, tn, c.start) \subseteq Since(g, k, tn, b.start) \cup {n + 1}
      BY <1>7, <1>13, <1>14 DEF Since
    <3>2. Since(g, k, tn, b.start) \subseteq 1..Len(g) /\ Since(g2, k, tn, c.start) \subseteq 1..Len(g2)
      BY DEF Since
    <3>3. /\ IsFiniteSet(Since(g, k, tn, b.start)) /\ Cardinality(Since(g, k, tn, b.start)) \in Nat
          /\ Cardinality(Since(g2, k, tn, c.start)) \in Nat
      BY <3>2, CountType
    <3>4. Cardinality(Since(g2, k, tn, c.start)) <= Cardinality(Since(g, k, tn, b.start)) + 1
      BY <3>1, <3>3, OneMore
    <3>5. Cardinality(Since(g, k, tn, b.start)) <= b.count
      BY <1>4 DEF Counts
    <3> QED BY <1>5, <1>7, <3>3, <3>4, <3>5
  <2>3. ASSUME NEW j \in 1..Len(g2), g2[j].key = k, g2[j].turn = tn, g2[j].at < c.start, c.start <= g2[j].at + W
        PROVE  c.prev > 0
    <3>1. j \in 1..n
      BY <1>3, <1>4, <1>5, <1>7, <1>10, <1>13, <1>14, <2>3
    <3> QED BY <1>2, <1>4, <1>7, <1>13, <1>14, <2>3, <3>1 DEF Counts
  <2>4. \E d \in Nat : c.start = d * Window
    BY <1>4, <1>7 DEF Counts
  <2> QED BY <1>2, <1>7, <2>1, <2>2, <2>3, <2>4 DEF Counts
\* Other keys, turns, limits and windows are as they were.
<1>19. ASSUME NEW i \in Keys \ {k}
       PROVE  /\ \A u, w : Since(g2, i, u, w) = Since(g, i, u, w)
              /\ \A u, M, w : Within(g2, i, u, M, w) = Within(g, i, u, M, w)
              /\ \A j \in 1..Len(g2) : g2[j].key = i => j \in 1..Len(g) /\ g2[j] = g[j]
  BY <1>10, <1>13, <1>14 DEF Since, Within
<1>20. ASSUME NEW u, NEW M \in Nat \ {0}, NEW w \in Nat,
              u # tn \/ M # L \/ t < w \/ w + W <= t
       PROVE  Within(g2, k, u, M, w) = Within(g, k, u, M, w)
  BY <1>2, <1>3, <1>10, <1>13, <1>14, <1>20 DEF Within
<1>21. PICK d \in Nat : b.start = d * W
  BY <1>2, <1>4 DEF Counts
\* The window of t.
<1>22. Within(g2, k, tn, L, b.start) \subseteq Within(g, k, tn, L, b.start) \cup {n + 1}
  BY <1>13, <1>14 DEF Within
<1>23. Cardinality(Within(g2, k, tn, L, b.start)) <= b.count + 1
  <2>1. Within(g, k, tn, L, b.start) \subseteq Since(g, k, tn, b.start)
    BY DEF Within, Since
  <2>2. Since(g, k, tn, b.start) \subseteq 1..Len(g)
    BY DEF Since
  <2>3. IsFiniteSet(Since(g, k, tn, b.start)) /\ Cardinality(Since(g, k, tn, b.start)) \in Nat
    BY <2>2, CountType
  <2>4. Within(g2, k, tn, L, b.start) \subseteq Since(g, k, tn, b.start) \cup {n + 1}
    BY <1>22, <2>1
  <2>5. Cardinality(Within(g2, k, tn, L, b.start)) <= Cardinality(Since(g, k, tn, b.start)) + 1
    BY <2>3, <2>4, OneMore
  <2>6. Cardinality(Since(g, k, tn, b.start)) <= b.count
    BY <1>4 DEF Counts
  <2>7. Within(g2, k, tn, L, b.start) \subseteq 1..Len(g2)
    BY DEF Within
  <2>8. Cardinality(Within(g2, k, tn, L, b.start)) \in Nat
    BY <2>7, CountType
  <2> QED BY <1>5, <2>3, <2>5, <2>6, <2>8
<1>24. \A u, M, w : Cardinality(Within(g2, k, u, M, w)) \in Nat
  <2>1. \A u, M, w : Within(g2, k, u, M, w) \subseteq 1..Len(g2)
    BY DEF Within
  <2> QED BY <2>1, CountType
\* The window after that of t is empty.
<1>25. Within(g2, k, tn, L, b.start + W) = {}
  <2>1. \A j \in 1..Len(g2) : g2[j].key = k /\ g2[j].turn = tn => g2[j].at < b.start + W /\ g2[j].at \in Nat
    BY <1>2, <1>3, <1>4, <1>7, <1>10, <1>13, <1>14, <1>15, <1>18 DEF Counts
  <2>2. \A j \in 1..Len(g2) : ~(g2[j].key = k /\ g2[j].turn = tn /\ b.start + W <= g2[j].at)
    BY <1>2, <1>5, <2>1
  <2> QED BY <2>2 DEF Within
<1>26. ASSUME NEW i \in Keys, NEW u \in Nat, NEW M \in Nat \ {0}, NEW e \in Nat
       PROVE  /\ Cardinality(Within(g2, i, u, M, e * Window)) <= M
              /\ Within(g2, i, u, M, e * Window) # {} =>
                   Cardinality(Within(g2, i, u, M, e * Window + Window)) < M
  <2>1. CASE i # k
    <3>1. \A w : Within(g2, i, u, M, w) = Within(g, i, u, M, w)
      BY <1>19, <2>1
    <3> QED BY <1>1, <3>1 DEF Limited
  <2>2. CASE i = k /\ (u # tn \/ M # L)
    <3>1. e * Window \in Nat /\ e * Window + Window \in Nat
      BY <1>2
    <3>2. /\ Within(g2, k, u, M, e * Window) = Within(g, k, u, M, e * Window)
          /\ Within(g2, k, u, M, e * Window + Window) = Within(g, k, u, M, e * Window + Window)
      BY <1>20, <2>2, <3>1
    <3> QED BY <1>1, <2>2, <3>2 DEF Limited
  <2>3. CASE i = k /\ u = tn /\ M = L /\ e = d
    <3>1. e * Window = b.start
      BY <1>2, <1>21, <2>3
    <3>2. Cardinality(Within(g2, k, tn, L, b.start)) <= L
      BY <1>5, <1>17, <1>23, <1>24
    <3>3. Cardinality(Within(g2, k, tn, L, b.start + W)) = 0
      BY <1>25, CountEmpty
    <3> QED BY <1>2, <2>3, <3>1, <3>2, <3>3
  <2>4. CASE i = k /\ u = tn /\ M = L /\ e + 1 = d
    <3>1. PICK w \in Nat : w = e * W
      <4>1. e * W \in Nat
        OBVIOUS
      <4> QED BY <4>1
    <3>2. w + W = b.start
      <4>1. (e + 1) * W = e * W + W
        OBVIOUS
      <4> QED BY <1>21, <2>4, <3>1, <4>1
    <3>3. Within(g2, k, tn, L, w) = Within(g, k, tn, L, w)
      BY <1>4, <1>20, <3>2
    <3>4. Cardinality(Within(g2, k, tn, L, w)) <= L
      BY <1>1, <1>2, <1>33, <3>1, <3>3 DEF Limited
    <3>5. ASSUME NEW j \in Within(g, k, tn, L, w) PROVE b.prev > 0
      <4>1. /\ j \in 1..Len(g) /\ g[j].key = k /\ g[j].turn = tn
            /\ w <= g[j].at /\ g[j].at < w + W /\ g[j].at \in Nat
        BY <1>2, <1>15, <1>14 DEF Within
      <4>2. g[j].at < b.start /\ b.start <= g[j].at + W
        BY <3>2, <4>1
      <4> QED BY <1>2, <1>4, <4>1, <4>2 DEF Counts
    <3>6. Within(g2, k, tn, L, w) # {} => Cardinality(Within(g2, k, tn, L, w + W)) < L
      BY <1>5, <1>17, <1>23, <1>24, <3>2, <3>3, <3>5
    <3> QED BY <1>2, <2>4, <3>1, <3>4, <3>6
  <2>5. CASE i = k /\ u = tn /\ M = L /\ e # d /\ e + 1 # d
    <3>1. PICK w \in Nat : w = e * W
      <4>1. e * W \in Nat
        OBVIOUS
      <4> QED BY <4>1
    <3>2. (t < w \/ w + W <= t) /\ (t < w + W \/ w + W + W <= t)
      <4>1. CASE e < d
        <5>1. (e + 1) * W = e * W + W /\ e + 1 < d
          BY <2>5, <4>1
        <5>2. (e + 1) * W + W <= d * W
          BY <1>2, <5>1, NextWindow
        <5> QED BY <1>4, <1>5, <1>21, <3>1, <5>1, <5>2
      <4>2. CASE e > d
        <5>1. d * W + W <= e * W
          BY <1>2, <4>2, NextWindow
        <5> QED BY <1>4, <1>5, <1>21, <3>1, <5>1
      <4> QED BY <2>5, <4>1, <4>2
    <3>3. /\ Within(g2, k, tn, L, w) = Within(g, k, tn, L, w)
          /\ Within(g2, k, tn, L, w + W) = Within(g, k, tn, L, w + W)
      BY <1>20, <3>2
    <3> QED BY <1>1, <1>2, <2>5, <3>1, <3>3 DEF Limited
  <2> QED BY <2>1, <2>2, <2>3, <2>4, <2>5
<1>27. Limited(g2)
  BY <1>26 DEF Limited
<1>28. PICK bs, sb : bs = [buckets EXCEPT ![k] = c] /\ sb = [setbacks EXCEPT ![k] = tn]
  OBVIOUS
<1>29. bs \in [Keys -> Bucket \cup {NoBucket}] /\ bs[k] = c /\ \A i \in Keys \ {k} : bs[i] = buckets[i]
  BY <1>7, <1>28 DEF Limits
<1>34. sb \in [Keys -> Nat] /\ sb[k] = tn /\ \A i \in Keys \ {k} : sb[i] = setbacks[i]
  BY <1>28, <1>33 DEF Limits
<1>35. ASSUME NEW j \in 1..Len(g2) PROVE g2[j].turn <= sb[g2[j].key]
  <2>1. CASE j = n + 1
    BY <1>10, <1>13, <1>33, <1>34, <2>1
  <2>2. CASE j \in 1..n
    <3>1. g[j].turn \in Nat /\ g[j].key \in Keys /\ g[j].turn <= setbacks[g[j].key] /\ g2[j] = g[j]
      BY <1>1, <1>13, <1>14, <1>15, <2>2 DEF Limits
    <3> QED BY <1>33, <1>34, <3>1
  <2> QED BY <1>14, <2>1, <2>2
<1>30. ASSUME NEW i \in Keys PROVE Stands(bs[i], g2, i, sb[i], now)
  <2>1. CASE i = k
    <3>1. c.start <= now
      BY <1>3, <1>4, <1>5, <1>7
    <3> QED BY <1>7, <1>18, <1>29, <1>34, <2>1, <3>1 DEF Stands
  <2>2. CASE i # k
    <3>1. Stands(bs[i], g, i, sb[i], now)
      BY <1>1, <1>29, <1>34, <2>2 DEF Limits
    <3>2. Forgotten(g, i, sb[i], now) => Forgotten(g2, i, sb[i], now)
      BY <1>19, <2>2 DEF Forgotten
    <3>3. Counts(g, i, sb[i], bs[i]) => Counts(g2, i, sb[i], bs[i])
      BY <1>19, <2>2 DEF Counts
    <3> QED BY <3>1, <3>2, <3>3 DEF Stands
  <2> QED BY <2>1, <2>2
<1>31. \A j \in 1..Len(g2) : g2[j].at <= now
  BY <1>3, <1>10, <1>13, <1>14
<1>32. Limits(bs, sb, g2, now)
  BY <1>3, <1>27, <1>29, <1>30, <1>31, <1>34, <1>35 DEF Limits
<1> QED BY <1>1, <1>8, <1>9, <1>11, <1>28, <1>32

USE AlertsAssumption, PolicyAssumption, ReplyAssumption

---------------------------------------------------------------------------
(***************************************************************************)
(* The inductive invariant of the rows.                                    *)
(***************************************************************************)
SenderState ==
  [pc : {"idle", "dispatch", "allow", "check", "apply", "reread", "resolve", "event", "audit"},
   event : Events \cup {NoId}, channel : Channels \cup {NoId}, reply : Replies \cup {NoId},
   copy : AlertRow \cup {NoId}, outcome : {"none", "rejected", "accepted", "handler_error"},
   at : Nat]

\* What the checks of a handler have established; nothing of it can change.
Granted(r) ==
  /\ r.valid
  /\ r.type = "deregister" => r.target \in Monitors
  /\ r.type # "deregister" =>
       EventAlert[r.ref] \in Alerts /\ OrgOf[EventAlert[r.ref]] = OrgOf[r.ref]
  /\ r.type = "ownership" => r.target \in DOMAIN OrgOf /\ OrgOf[r.target] = OrgOf[r.ref]
  /\ r.type = "deduplicated" => r.target \in Alerts /\ OrgOf[r.target] = OrgOf[r.ref]
  /\ r.type = "escalated" => r.target < NumSteps
  /\ r.type = "remediation_result" => r.target \in Remediations

\* A worker: its reply has passed the checks that lie behind it.
Sound(q) ==
  /\ q \in SenderState
  /\ q.pc # "idle" => q.reply \in Replies /\ q.event \in Events /\ q.channel \in Channels
  /\ q.pc \notin {"idle", "dispatch"} => q.reply.ref \in Events /\ q.reply.type \in Types
  /\ \/ q.pc \in {"apply", "reread", "resolve", "event"}
     \/ q.pc = "audit" /\ q.outcome = "accepted"
     => Granted(q.reply)
  /\ q.pc \in {"reread", "resolve"} => q.reply.type = "remediation_result"
  /\ q.pc = "resolve" \/ (q.pc = "apply" /\ q.reply.type = "escalated") => q.copy \in AlertRow

Noting(r) ==
  r.type \notin {"suppressed", "route", "status_page", "remediation_started",
                 "remediation_result", "deregister"}

\* The row that r asks for is there.
Kept(r) ==
  /\ r.type \in {"suppressed", "route", "status_page"} => written[r] > 0
  /\ r.type = "remediation_started" =>
       remediations[r.target].status # "none" /\ remediations[r.target].source = r
  /\ r.type = "remediation_result" => remediations[r.target].status \in Outcomes
  /\ r.type = "deregister" => ~enabled[r.target]

\* A worker that is past its writes has made them.
Done(q) ==
  /\ q.pc \in {"reread", "resolve", "event"} => Kept(q.reply)
  /\ q.pc = "audit" /\ q.outcome = "accepted" =>
       /\ Kept(q.reply)
       /\ Noting(q.reply) => Noticed(EventAlert[q.reply.ref], q.reply)

Audited(x) ==
  /\ x.reply \in Replies
  /\ x.outcome = "accepted" =>
       /\ Granted(x.reply) /\ Kept(x.reply)
       /\ Noting(x.reply) => x.alert \in Alerts /\ Noticed(x.alert, x.reply)

Tables ==
  /\ alerts \in [Alerts -> AlertRow]
  /\ marks \in [Alerts -> [owner : DOMAIN OrgOf \cup {NoId}, duplicate : Alerts \cup {NoId}]]
  /\ enabled \in [Monitors -> BOOLEAN]
  /\ remediations \in [Remediations -> RemediationRow]
  /\ written \in [Replies -> Nat]
  /\ completions \in [Remediations -> Nat]
  /\ menu \in Menu
  /\ sender \in [Senders -> SenderState]

RInv ==
  /\ Tables
  /\ \A s \in Senders : Sound(sender[s]) /\ Done(sender[s])
  /\ \A x \in audit : Audited(x)
  /\ CompletedOnce
  /\ WithinOrg

---------------------------------------------------------------------------
(***************************************************************************)
(* Workers.                                                                *)
(***************************************************************************)
LEMMA IdleSound == Sound(Idle) /\ Idle.pc = "idle"
BY DEF Idle, Sound, SenderState

LEMMA ToEvent ==
  ASSUME NEW q, Sound(q), Granted(q.reply), q.pc \in {"apply", "reread", "resolve"}
  PROVE  /\ Sound([q EXCEPT !.pc = "event"])
         /\ [q EXCEPT !.pc = "event"].pc = "event"
         /\ [q EXCEPT !.pc = "event"].reply = q.reply
BY DEF Sound, SenderState

LEMMA ToAudit ==
  ASSUME NEW q, Sound(q), q.pc \in {"check", "apply", "event"},
         NEW o \in {"rejected", "accepted", "handler_error"},
         o = "accepted" => Granted(q.reply)
  PROVE  /\ Sound([q EXCEPT !.pc = "audit", !.outcome = o])
         /\ [q EXCEPT !.pc = "audit", !.outcome = o].pc = "audit"
         /\ [q EXCEPT !.pc = "audit", !.outcome = o].outcome = o
         /\ [q EXCEPT !.pc = "audit", !.outcome = o].reply = q.reply
BY DEF Sound, SenderState

LEMMA Taken ==
  ASSUME NEW q, Sound(q), Granted(q.reply), q.pc \in {"check", "apply", "reread"},
         NEW pc \in {"apply", "reread", "resolve", "event"}, NEW copy \in AlertRow \cup {NoId},
         pc \in {"reread", "resolve"} => q.reply.type = "remediation_result",
         pc = "resolve" \/ (pc = "apply" /\ q.reply.type = "escalated") => copy \in AlertRow
  PROVE  /\ Sound([q EXCEPT !.pc = pc, !.copy = copy])
         /\ [q EXCEPT !.pc = pc, !.copy = copy].pc = pc
         /\ [q EXCEPT !.pc = pc, !.copy = copy].reply = q.reply
BY DEF Sound, SenderState

---------------------------------------------------------------------------
(***************************************************************************)
(* Rows are added to and filled in; an alert takes its events with it.     *)
(***************************************************************************)
Grow ==
  /\ \A r \in Replies : written[r] > 0 => written'[r] > 0
  /\ \A m \in Monitors : ~enabled[m] => ~enabled'[m]
  /\ \A x \in Remediations :
       /\ remediations[x].status # "none" =>
            remediations'[x].status # "none" /\ remediations'[x].source = remediations[x].source
       /\ remediations[x].status \in Outcomes => remediations'[x].status \in Outcomes
  /\ \A a \in Alerts : Exists(alerts', a) =>
       Exists(alerts, a) /\ \A t \in timeline : t.alert = a => t \in timeline'

LEMMA KeptKept ==
  ASSUME Grow, NEW r \in Replies, Granted(r), Kept(r)
  PROVE  Kept(r)'
BY DEF Grow, Granted, Kept

LEMMA NoticedKept ==
  ASSUME Grow, NEW a \in Alerts, NEW r, Noticed(a, r)
  PROVE  Noticed(a, r)'
BY DEF Grow, Noticed

LEMMA DoneKept ==
  ASSUME Grow, NEW q, Sound(q), Done(q)
  PROVE  Done(q)'
<1>1. q.pc \in {"reread", "resolve", "event"} => Kept(q.reply)'
  BY KeptKept DEF Sound, Done
<1>2. q.pc = "audit" /\ q.outcome = "accepted" => Kept(q.reply)'
  BY KeptKept DEF Sound, Done
<1>3. q.pc = "audit" /\ q.outcome = "accepted" /\ Noting(q.reply) =>
        Noticed(EventAlert[q.reply.ref], q.reply)'
  BY NoticedKept DEF Sound, Done, Granted, Noting
<1> QED BY <1>1, <1>2, <1>3 DEF Done

LEMMA AuditedKept ==
  ASSUME Grow, NEW x, Audited(x)
  PROVE  Audited(x)'
<1>1. x.outcome = "accepted" => Kept(x.reply)'
  BY KeptKept DEF Audited
<1>2. x.outcome = "accepted" /\ Noting(x.reply) => Noticed(x.alert, x.reply)'
  BY NoticedKept DEF Audited
<1> QED BY <1>1, <1>2 DEF Audited

\* A step of a worker.
LEMMA Moves ==
  ASSUME RInv, NEW s \in Senders, NEW q, sender' = [sender EXCEPT ![s] = q], Sound(q), Done(q)',
         Grow, Tables', CompletedOnce', WithinOrg', \A x \in audit' \ audit : Audited(x)'
  PROVE  RInv'
<1>1. ASSUME NEW d \in Senders PROVE Sound(sender'[d]) /\ Done(sender[d])'
  <2>1. PICK p : p = sender'[d]
    OBVIOUS
  <2>2. CASE d = s
    <3>1. p = q
      BY <2>1, <2>2 DEF RInv, Tables
    <3> QED BY <2>1, <3>1 DEF Done
  <2>3. CASE d # s
    <3>1. p = sender[d] /\ Sound(p) /\ Done(p)
      BY <2>1, <2>3 DEF RInv, Tables
    <3>2. Done(p)'
      BY <3>1, DoneKept
    <3> QED BY <2>1, <3>1, <3>2 DEF Done
  <2> QED BY <2>2, <2>3
<1>2. ASSUME NEW x \in audit' PROVE Audited(x)'
  BY AuditedKept DEF RInv
<1> QED BY <1>1, <1>2 DEF RInv

\* A step of a worker that changes neither rows nor what they are compared with.
LEMMA OnlyMoves ==
  ASSUME RInv, NEW s \in Senders, NEW q, sender' = [sender EXCEPT ![s] = q], Sound(q), Done(q)',
         UNCHANGED <<rows, menu>>, \A x \in audit' \ audit : Audited(x)'
  PROVE  RInv'
<1>1. Grow
  BY DEF Grow, rows, Exists
<1>2. sender' \in [Senders -> SenderState]
  BY DEF RInv, Tables, Sound
<1>3. Tables' /\ CompletedOnce' /\ WithinOrg'
  BY <1>2 DEF RInv, Tables, rows, CompletedOnce, WithinOrg
<1> QED BY <1>1, <1>3, Moves

---------------------------------------------------------------------------
(***************************************************************************)
(* Sending, dispatching, auditing.                                         *)
(***************************************************************************)
LEMMA SendSafe == ASSUME RInv, NEW s \in Senders, Send(s) PROVE RInv'
<1>1. PICK j \in menu.jobs, r \in Responses :
        sender' = [sender EXCEPT ![s] =
            IF r = NoId THEN Idle
            ELSE [pc |-> "dispatch", event |-> j[1], channel |-> j[2], reply |-> r,
                  copy |-> NoId, outcome |-> "none", at |-> 0]]
  BY DEF Send
<1>2. j[1] \in Events /\ j[2] \in Channels /\ (r # NoId => r \in Replies)
  BY DEF Responses, RInv, Tables, Menu
<1> DEFINE q == IF r = NoId THEN Idle
                ELSE [pc |-> "dispatch", event |-> j[1], channel |-> j[2], reply |-> r,
                      copy |-> NoId, outcome |-> "none", at |-> 0]
<1>3. Sound(q) /\ q.pc \in {"idle", "dispatch"}
  BY <1>2, IdleSound DEF Sound, SenderState
<1>4. sender' = [sender EXCEPT ![s] = q]
  BY <1>1
<1> HIDE DEF q
<1>5. UNCHANGED <<rows, menu, audit>>
  BY DEF Send, world
<1>6. Done(q)'
  BY <1>3 DEF Done
<1> QED BY <1>3, <1>4, <1>5, <1>6, OnlyMoves

\* A row of the audit that a worker adds speaks of its own reply.
LEMMA WriteAuditAdds ==
  ASSUME NEW org, NEW alert, NEW r, NEW o, NEW x \in WriteAudit(audit, org, alert, r, o) \ audit
  PROVE  x = [org |-> org, alert |-> alert, reply |-> r, outcome |-> o]
BY DEF WriteAudit

LEMMA RejectSafe ==
  ASSUME NEW org, NEW r \in Replies, NEW o, o # "accepted",
         NEW x \in AuditReject(org, r, o) \ audit
  PROVE  Audited(x)'
<1>1. x.reply = r /\ x.outcome = o
  BY WriteAuditAdds DEF AuditReject
<1> QED BY <1>1 DEF Audited

LEMMA DispatchSafe ==
  ASSUME RInv, Serves(registry, log, now), NEW s \in Senders, Dispatch(s)
  PROVE  RInv'
<1>1. PICK p : p = sender[s]
  OBVIOUS
<1>2. Sound(p) /\ p.pc = "dispatch" /\ p.reply \in Replies /\ now \in Nat
  BY <1>1 DEF RInv, Dispatch, Sound, Serves
<1>3. UNCHANGED <<rows, menu>>
  BY DEF Dispatch, world
<1> DEFINE org == OrgOf[p.event]
           v   == Verdict(p.reply, org, p.channel)
<1>4. CASE v # "pass"
  <2>1. ASSUME NEW x \in audit' \ audit PROVE Audited(x)'
    <3>1. v # "accepted"
      BY DEF Verdict
    <3>2. audit' \in {audit, AuditReject(org, p.reply, v)}
      BY <1>1, <1>4 DEF Dispatch
    <3> QED BY <1>2, <2>1, <3>1, <3>2, RejectSafe
  <2>2. Done(Idle)'
    BY IdleSound DEF Done
  <2>3. sender' = [sender EXCEPT ![s] = Idle]
    BY <1>1, <1>4 DEF Dispatch
  <2> QED BY <1>3, <2>1, <2>2, <2>3, IdleSound, OnlyMoves
<1>5. CASE v = "pass"
  <2>0. PICK q, e : q = [p EXCEPT !.pc = "allow", !.at = now] /\ e = p.reply.ref
    OBVIOUS
  <2>1. p.reply.type \in Types /\ Lookup(registry, e)
    BY <1>5, <2>0 DEF Verdict
  <2>2. e \in Events
    <3>1. registry \in Seq(Entries)
      BY DEF Serves
    <3>2. PICK i \in 1..Len(registry) : registry[i].event = e
      BY <2>1, <3>1 DEF Lookup
    <3> QED BY <3>1, <3>2, EntryOf
  <2>3. sender' = [sender EXCEPT ![s] = q] /\ UNCHANGED audit
    BY <1>1, <1>5, <2>0 DEF Dispatch
  <2>4. Sound(q) /\ q.pc = "allow"
    BY <1>2, <2>0, <2>1, <2>2 DEF Sound, SenderState
  <2>5. Done(q)'
    BY <2>4 DEF Done
  <2> QED BY <1>3, <2>3, <2>4, <2>5, OnlyMoves
<1> QED BY <1>4, <1>5

LEMMA AllowSafe == ASSUME RInv, NEW s \in Senders, Allow(s) PROVE RInv'
<1>1. PICK p : p = sender[s]
  OBVIOUS
<1>2. Sound(p) /\ p.pc = "allow" /\ p.reply \in Replies
  BY <1>1 DEF RInv, Allow, Sound
<1>3. UNCHANGED <<rows, menu>>
  BY DEF Allow, world
<1>4. CASE sender' = [sender EXCEPT ![s] = Idle]
           /\ audit' = AuditReject(OrgOf[p.event], p.reply, "rate_limited")
  <2>1. \A x \in audit' \ audit : Audited(x)'
    BY <1>2, <1>4, RejectSafe
  <2>2. Done(Idle)'
    BY IdleSound DEF Done
  <2> QED BY <1>3, <1>4, <2>1, <2>2, IdleSound, OnlyMoves
<1>5. CASE sender' = [sender EXCEPT ![s] = [@ EXCEPT !.pc = "check", !.at = 0]] /\ UNCHANGED audit
  <2> DEFINE q == [p EXCEPT !.pc = "check", !.at = 0]
  <2>1. sender' = [sender EXCEPT ![s] = q]
    BY <1>1, <1>5
  <2>2. Sound(q) /\ q.pc = "check"
    BY <1>2 DEF Sound, SenderState
  <2> HIDE DEF q
  <2>3. Done(q)'
    BY <2>2 DEF Done
  <2> QED BY <1>3, <1>5, <2>1, <2>2, <2>3, OnlyMoves
<1> QED BY <1>1, <1>4, <1>5 DEF Allow

LEMMA AuditSafe == ASSUME RInv, NEW s \in Senders, Audit(s) PROVE RInv'
<1>1. PICK p : p = sender[s]
  OBVIOUS
<1>2. Sound(p) /\ Done(p) /\ p.pc = "audit" /\ p.reply \in Replies
  BY <1>1 DEF RInv, Audit, Sound
<1>3. UNCHANGED <<rows, menu>> /\ sender' = [sender EXCEPT ![s] = Idle]
  BY DEF Audit, world
<1>4. ASSUME NEW x \in audit' \ audit PROVE Audited(x)'
  <2>1. x.reply = p.reply /\ x.outcome = p.outcome /\ x.alert = EventAlert[p.reply.ref]
    BY <1>1, <1>4, WriteAuditAdds DEF Audit, Subject
  <2>2. CASE p.outcome = "accepted"
    <3>1. Granted(x.reply) /\ Kept(x.reply) /\ (Noting(x.reply) => Noticed(x.alert, x.reply))
      BY <1>2, <2>1, <2>2 DEF Sound, Done
    <3>2. Noting(x.reply) => x.alert \in Alerts
      BY <2>1, <3>1 DEF Granted, Noting
    <3>3. Kept(x.reply)' /\ (Noting(x.reply) => Noticed(x.alert, x.reply)')
      BY <1>3, <3>1 DEF Kept, Noticed, Exists, rows
    <3> QED BY <1>2, <2>1, <3>1, <3>2, <3>3 DEF Audited
  <2>3. CASE p.outcome # "accepted"
    BY <1>2, <2>1, <2>3 DEF Audited
  <2> QED BY <2>2, <2>3
<1>5. Done(Idle)'
  BY IdleSound DEF Done
<1> QED BY <1>3, <1>4, <1>5, IdleSound, OnlyMoves

---------------------------------------------------------------------------
(***************************************************************************)
(* The handlers.                                                           *)
(***************************************************************************)
\* A worker within a handler.
LEMMA Inside ==
  ASSUME RInv, NEW s \in Senders, NEW p, p = sender[s]
  PROVE  /\ Sound(p) /\ Done(p) /\ Subject(s) = EventAlert[p.reply.ref]
         /\ p.pc \notin {"idle", "dispatch"} => p.reply \in Replies /\ p.reply.ref \in Events
BY DEF RInv, Sound, Subject

\* The checks establish what the writes rely on.
LEMMA CheckGrants ==
  ASSUME RInv, NEW s \in Senders, sender[s].pc = "check", Allowed(s)
  PROVE  Granted(sender[s].reply)
<1>1. PICK r : r = sender[s].reply
  OBVIOUS
<1>2. r \in Replies /\ r.ref \in Events /\ EventAlert[r.ref] \in Alerts \cup {NoId}
  BY <1>1 DEF RInv, Sound
<1>3. CASE r.type = "deregister"
  BY <1>1, <1>3 DEF Allowed, MonitorAllowed, WellFormed, Granted
<1>4. CASE r.type # "deregister"
  <2>1. r.valid /\ EventAlert[r.ref] \in Alerts /\ OrgOf[EventAlert[r.ref]] = OrgOf[r.ref]
    BY <1>1, <1>2, <1>4 DEF Allowed, AlertScoped, WellFormed, Loads, InOrg, Subject, Org
  <2>2. r.type = "ownership" => r.target \in DOMAIN OrgOf /\ OrgOf[r.target] = OrgOf[r.ref]
    BY <1>1, <1>4 DEF Allowed, OwnerAllowed, InOrg, Org
  <2>3. r.type = "deduplicated" => r.target \in Alerts /\ OrgOf[r.target] = OrgOf[r.ref]
    BY <1>1, <1>4 DEF Allowed, DuplicateAllowed, InOrg, Org
  <2>4. r.type = "escalated" => r.target < NumSteps
    BY <1>1, <1>4 DEF Allowed, StepAllowed
  <2>5. r.type = "remediation_result" => r.target \in Remediations
    BY <1>1, <1>4 DEF Allowed, ResultAllowed
  <2> QED BY <1>1, <1>4, <2>1, <2>2, <2>3, <2>4, <2>5 DEF Granted
<1> QED BY <1>1, <1>3, <1>4

LEMMA CheckSafe == ASSUME RInv, NEW s \in Senders, Check(s) PROVE RInv'
<1>1. PICK p : p = sender[s]
  OBVIOUS
<1>2. Sound(p) /\ p.pc = "check"
  BY <1>1, Inside DEF Check
<1>3. UNCHANGED <<rows, menu, audit>>
  BY DEF Check, Handled, world
<1>4. CASE Allowed(s)
  <2>1. PICK copy : copy = IF Subject(s) \in Alerts THEN alerts[Subject(s)] ELSE NoId
    OBVIOUS
  <2>2. Granted(p.reply)
    BY <1>1, <1>2, <1>4, CheckGrants
  <2>3. copy \in AlertRow \cup {NoId} /\ (p.reply.type = "escalated" => copy \in AlertRow)
    BY <1>1, <2>1, <2>2 DEF RInv, Tables, Granted, Subject
  <2> DEFINE q == [p EXCEPT !.pc = "apply", !.copy = copy]
  <2>4. Sound(q) /\ q.pc = "apply"
    BY <1>2, <2>2, <2>3 DEF Sound, SenderState
  <2>5. sender' = [sender EXCEPT ![s] = q]
    BY <1>1, <1>4, <2>1 DEF Check, Take
  <2> HIDE DEF q
  <2>6. Done(q)'
    BY <2>4 DEF Done
  <2> QED BY <1>3, <2>4, <2>5, <2>6, OnlyMoves
<1>5. CASE ~Allowed(s)
  <2> DEFINE q == [p EXCEPT !.pc = "audit", !.outcome = "rejected"]
  <2>1. Sound(q) /\ q.pc = "audit" /\ q.outcome = "rejected"
    BY <1>2, ToAudit
  <2>2. sender' = [sender EXCEPT ![s] = q]
    BY <1>1, <1>5 DEF Check, Conclude
  <2> HIDE DEF q
  <2>3. Done(q)'
    BY <2>1 DEF Done
  <2> QED BY <1>3, <2>1, <2>2, <2>3, OnlyMoves
<1> QED BY <1>4, <1>5

\* A handler that gives up after its checks has changed nothing.
LEMMA GivesUp ==
  ASSUME RInv, NEW s \in Senders, sender[s].pc \in {"apply", "event"},
         NEW o \in {"rejected", "handler_error"}, Conclude(s, o), UNCHANGED <<rows, menu, audit>>
  PROVE  RInv'
<1>1. PICK p : p = sender[s]
  OBVIOUS
<1> DEFINE q == [p EXCEPT !.pc = "audit", !.outcome = o]
<1>2. Sound(q) /\ q.pc = "audit" /\ q.outcome = o
  <2>1. Sound(p) /\ p.pc \in {"apply", "event"} /\ o # "accepted"
    BY <1>1, Inside
  <2> QED BY <2>1 DEF Sound, SenderState
<1>3. sender' = [sender EXCEPT ![s] = q]
  BY <1>1 DEF Conclude
<1> HIDE DEF q
<1>4. Done(q)'
  BY <1>2 DEF Done
<1> QED BY <1>2, <1>3, <1>4, OnlyMoves

\* Nothing but these tables is compared with another organisation or counted.
LEMMA Framed ==
  ASSUME CompletedOnce, WithinOrg, UNCHANGED <<marks, remediations, completions>>
  PROVE  CompletedOnce' /\ WithinOrg'
BY DEF CompletedOnce, WithinOrg

\* The write of a handler whose event comes next.
LEMMA Writes ==
  ASSUME RInv, NEW s \in Senders, sender[s].pc \in {"apply", "reread", "resolve"}, Goto(s, "event"),
         NEW r, r = sender[s].reply, Grow, Kept(r)', UNCHANGED <<menu, audit>>,
         alerts' \in [Alerts -> AlertRow],
         marks' \in [Alerts -> [owner : DOMAIN OrgOf \cup {NoId}, duplicate : Alerts \cup {NoId}]],
         enabled' \in [Monitors -> BOOLEAN], remediations' \in [Remediations -> RemediationRow],
         written' \in [Replies -> Nat], completions' \in [Remediations -> Nat],
         CompletedOnce', WithinOrg'
  PROVE  RInv'
<1>1. PICK p : p = sender[s]
  OBVIOUS
<1>2. Sound(p) /\ p.pc \in {"apply", "reread", "resolve"} /\ Granted(p.reply)
  BY <1>1, Inside DEF Sound
<1> DEFINE q == [p EXCEPT !.pc = "event"]
<1>3. Sound(q) /\ q.pc = "event" /\ q.reply = p.reply
  BY <1>2, ToEvent
<1>4. sender' = [sender EXCEPT ![s] = q]
  BY <1>1 DEF Goto
<1> HIDE DEF q
<1>5. Done(q)'
  BY <1>1, <1>3 DEF Done
<1>6. Tables'
  BY <1>3, <1>4 DEF RInv, Tables, Sound
<1> QED BY <1>3, <1>4, <1>5, <1>6, Moves

LEMMA HandledIs == Handled => UNCHANGED <<menu, audit>>
BY DEF Handled, world

\* The event of a reply, when the rest of it is done.
LEMMA EventAdded ==
  ASSUME RInv, NEW s \in Senders, sender[s].pc \in {"apply", "event"},
         NEW r, r = sender[s].reply, Granted(r), Kept(r),
         NEW o \in {"accepted", "handler_error"}, Conclude(s, o), AddEvent(s),
         UNCHANGED <<alerts, marks, enabled, remediations, written, completions, menu, audit>>
  PROVE  RInv'
<1>1. PICK p : p = sender[s]
  OBVIOUS
<1>2. Sound(p) /\ p.pc \in {"apply", "event"} /\ Subject(s) = EventAlert[r.ref]
  BY <1>1, Inside
<1> DEFINE q == [p EXCEPT !.pc = "audit", !.outcome = o]
<1>3. Sound(q) /\ q.pc = "audit" /\ q.outcome = o /\ q.reply = r
  BY <1>1, <1>2 DEF Sound, SenderState
<1>4. sender' = [sender EXCEPT ![s] = q]
  BY <1>1 DEF Conclude
<1> HIDE DEF q
<1>5. Grow
  BY DEF Grow, Exists, AddEvent
<1>6. Kept(r)'
  BY DEF Kept
<1>7. o = "accepted" /\ Noting(r) => Noticed(EventAlert[r.ref], r)'
  BY <1>2 DEF Noticed, AddEvent, Subject
<1>8. Done(q)'
  BY <1>3, <1>6, <1>7 DEF Done
<1>9. Tables'
  BY <1>3, <1>4 DEF RInv, Tables, Sound
<1>10. CompletedOnce' /\ WithinOrg'
  BY Framed DEF RInv
<1> QED BY <1>3, <1>4, <1>5, <1>8, <1>9, <1>10, Moves

LEMMA NotedSafe ==
  ASSUME RInv, NEW s \in Senders, Claimed(s) \/ Enriched(s) \/ Linked(s)
  PROVE  RInv'
<1>1. /\ sender[s].pc = "apply" /\ sender[s].reply.type \in {"claimed", "enriched", "linked"}
      /\ Noted(s)
  BY DEF Claimed, Enriched, Linked, Applying
<1>2. PICK r : r = sender[s].reply
  OBVIOUS
<1>3. PICK o : o = IF Exists(alerts, Subject(s)) THEN "accepted" ELSE "handler_error"
  OBVIOUS
<1>4. Granted(r) /\ Kept(r)
  BY <1>1, <1>2, Inside DEF Sound, Kept
<1>5. /\ AddEvent(s) /\ Conclude(s, o) /\ UNCHANGED <<menu, audit>>
      /\ UNCHANGED <<alerts, marks, enabled, remediations, written, completions>>
  BY <1>1, <1>3, HandledIs DEF Noted
<1> QED BY <1>1, <1>2, <1>3, <1>4, <1>5, EventAdded

LEMMA EventSafe == ASSUME RInv, NEW s \in Senders, Event(s) PROVE RInv'
<1>1. sender[s].pc = "event"
  BY DEF Event
<1>2. PICK r : r = sender[s].reply
  OBVIOUS
<1>3. Granted(r) /\ Kept(r)
  BY <1>1, <1>2, Inside DEF Sound, Done
<1>4. PICK o : o = IF /\ r.type \in {"ack_with_context", "ownership", "deduplicated"}
                      /\ ~Exists(alerts, Subject(s))
                   THEN "handler_error" ELSE "accepted"
  OBVIOUS
<1>5. /\ AddEvent(s) /\ Conclude(s, o) /\ UNCHANGED <<menu, audit>>
      /\ UNCHANGED <<alerts, marks, enabled, remediations, written, completions>>
  BY <1>2, <1>4, HandledIs DEF Event
<1> QED BY <1>1, <1>2, <1>3, <1>4, <1>5, EventAdded

\* What a write leaves alone keeps its type.
LEMMA Typed ==
  ASSUME RInv
  PROVE  /\ alerts \in [Alerts -> AlertRow]
         /\ marks \in [Alerts -> [owner : DOMAIN OrgOf \cup {NoId}, duplicate : Alerts \cup {NoId}]]
         /\ enabled \in [Monitors -> BOOLEAN] /\ remediations \in [Remediations -> RemediationRow]
         /\ written \in [Replies -> Nat] /\ completions \in [Remediations -> Nat]
         /\ CompletedOnce /\ WithinOrg
BY DEF RInv, Tables

LEMMA AlertUpdated ==
  ASSUME alerts \in [Alerts -> AlertRow], NEW a \in Alerts, NEW row \in AlertRow
  PROVE  /\ UpdateAlert(alerts, a, row) \in [Alerts -> AlertRow]
         /\ \A b \in Alerts : Exists(UpdateAlert(alerts, a, row), b) => Exists(alerts, b)
BY DEF UpdateAlert, UpdateOK, Exists

\* A worker about to write: its reply and the alert it is about.
LEMMA Writing ==
  ASSUME RInv, NEW s \in Senders, sender[s].pc \in {"apply", "resolve"},
         sender[s].reply.type # "deregister"
  PROVE  /\ Subject(s) \in Alerts /\ Subject(s) = EventAlert[sender[s].reply.ref]
         /\ OrgOf[Subject(s)] = OrgOf[sender[s].reply.ref]
         /\ sender[s].reply \in Replies /\ Granted(sender[s].reply)
BY Inside DEF Sound, Granted

LEMMA AckSafe == ASSUME RInv, NEW s \in Senders, AckReply(s) PROVE RInv'
<1>1. PICK r : r = sender[s].reply
  OBVIOUS
<1>2. r.type = "ack_with_context" /\ sender[s].pc = "apply" /\ UNCHANGED <<menu, audit>>
  BY <1>1, HandledIs DEF AckReply, Applying
<1>3. CASE Exists(alerts, Subject(s))
  <2>1. PICK a \in Alerts : a = Subject(s)
    BY <1>1, <1>2, Writing
  <2>2. PICK row : row = [alerts[a] EXCEPT !.status = "acknowledged"]
    OBVIOUS
  <2>3. row \in AlertRow
    <3>1. PICK old \in AlertRow : old = alerts[a]
      BY Typed
    <3> QED BY <2>2, <3>1 DEF AlertRow, Statuses
  <2>4. /\ alerts' = UpdateAlert(alerts, a, row) /\ Goto(s, "event")
        /\ UNCHANGED <<marks, enabled, remediations, written, timeline, completions>>
    BY <1>3, <2>1, <2>2 DEF AckReply, Marked, AckWithContext
  <2>5. alerts' \in [Alerts -> AlertRow] /\ \A b \in Alerts : Exists(alerts', b) => Exists(alerts, b)
    BY <2>3, <2>4, AlertUpdated, Typed
  <2>6. Grow
    BY <2>4, <2>5 DEF Grow
  <2>7. Kept(r)'
    BY <1>2 DEF Kept
  <2> QED BY <1>1, <1>2, <2>4, <2>5, <2>6, <2>7, Typed, Framed, Writes
<1>4. CASE ~Exists(alerts, Subject(s))
  <2>1. Conclude(s, "handler_error") /\ UNCHANGED rows
    BY <1>4 DEF AckReply, Marked, rows
  <2> QED BY <1>2, <2>1, GivesUp
<1> QED BY <1>3, <1>4

LEMMA OwnershipSafe == ASSUME RInv, NEW s \in Senders, Ownership(s) PROVE RInv'
<1>1. PICK r : r = sender[s].reply
  OBVIOUS
<1>2. r.type = "ownership" /\ sender[s].pc = "apply" /\ UNCHANGED <<menu, audit>>
  BY <1>1, HandledIs DEF Ownership, Applying
<1>3. CASE Exists(alerts, Subject(s))
  <2>1. PICK a \in Alerts : a = Subject(s)
    BY <1>1, <1>2, Writing
  <2>2. r.target \in DOMAIN OrgOf /\ OrgOf[r.target] = OrgOf[a]
    BY <1>1, <1>2, <2>1, Writing DEF Granted
  <2>3. /\ marks' = [marks EXCEPT ![a].owner = r.target] /\ Goto(s, "event")
        /\ UNCHANGED <<alerts, enabled, remediations, written, timeline, completions>>
    BY <1>1, <1>3, <2>1 DEF Ownership, Marked, SetOwner
  <2>4. /\ \A b \in Alerts \ {a} : marks'[b] = marks[b]
        /\ marks'[a] = [marks[a] EXCEPT !.owner = r.target]
        /\ marks' \in [Alerts -> [owner : DOMAIN OrgOf \cup {NoId}, duplicate : Alerts \cup {NoId}]]
    <3>1. PICK old \in [owner : DOMAIN OrgOf \cup {NoId}, duplicate : Alerts \cup {NoId}] :
            old = marks[a]
      BY Typed
    <3>2. PICK new : new = [old EXCEPT !.owner = r.target]
      OBVIOUS
    <3>3. new \in [owner : DOMAIN OrgOf \cup {NoId}, duplicate : Alerts \cup {NoId}]
      BY <2>2, <3>2
    <3>4. marks' = [marks EXCEPT ![a] = new]
      BY <2>3, <3>1, <3>2
    <3> QED BY <3>1, <3>2, <3>3, <3>4, Typed
  <2>5. marks'[a].owner = r.target /\ marks'[a].duplicate = marks[a].duplicate
    BY <2>4, Typed
  <2>6. WithinOrg'
    BY <2>2, <2>3, <2>4, <2>5, Typed DEF WithinOrg
  <2>7. CompletedOnce'
    BY <2>3, Typed DEF CompletedOnce
  <2>8. Grow
    BY <2>3 DEF Grow
  <2>9. Kept(r)'
    BY <1>2 DEF Kept
  <2> QED BY <1>1, <1>2, <2>3, <2>4, <2>6, <2>7, <2>8, <2>9, Typed, Writes
<1>4. CASE ~Exists(alerts, Subject(s))
  <2>1. Conclude(s, "handler_error") /\ UNCHANGED rows
    BY <1>4 DEF Ownership, Marked, rows
  <2> QED BY <1>2, <2>1, GivesUp
<1> QED BY <1>3, <1>4

LEMMA DeduplicatedSafe == ASSUME RInv, NEW s \in Senders, Deduplicated(s) PROVE RInv'
<1>1. PICK r : r = sender[s].reply
  OBVIOUS
<1>2. r.type = "deduplicated" /\ sender[s].pc = "apply" /\ UNCHANGED <<menu, audit>>
  BY <1>1, HandledIs DEF Deduplicated, Applying
<1>3. CASE Exists(alerts, Subject(s))
  <2>1. PICK a \in Alerts : a = Subject(s)
    BY <1>1, <1>2, Writing
  <2>2. r.target \in Alerts /\ OrgOf[r.target] = OrgOf[a]
    BY <1>1, <1>2, <2>1, Writing DEF Granted
  <2>3. /\ marks' = [marks EXCEPT ![a].duplicate = r.target] /\ Goto(s, "event")
        /\ UNCHANGED <<alerts, enabled, remediations, written, timeline, completions>>
    BY <1>1, <1>3, <2>1 DEF Deduplicated, Marked, MarkDuplicate
  <2>4. /\ \A b \in Alerts \ {a} : marks'[b] = marks[b]
        /\ marks'[a] = [marks[a] EXCEPT !.duplicate = r.target]
        /\ marks' \in [Alerts -> [owner : DOMAIN OrgOf \cup {NoId}, duplicate : Alerts \cup {NoId}]]
    <3>1. PICK old \in [owner : DOMAIN OrgOf \cup {NoId}, duplicate : Alerts \cup {NoId}] :
            old = marks[a]
      BY Typed
    <3>2. PICK new : new = [old EXCEPT !.duplicate = r.target]
      OBVIOUS
    <3>3. new \in [owner : DOMAIN OrgOf \cup {NoId}, duplicate : Alerts \cup {NoId}]
      BY <2>2, <3>2
    <3>4. marks' = [marks EXCEPT ![a] = new]
      BY <2>3, <3>1, <3>2
    <3> QED BY <3>1, <3>2, <3>3, <3>4, Typed
  <2>5. marks'[a].owner = marks[a].owner /\ marks'[a].duplicate = r.target
    BY <2>4, Typed
  <2>6. WithinOrg'
    BY <2>2, <2>3, <2>4, <2>5, Typed DEF WithinOrg
  <2>7. CompletedOnce'
    BY <2>3, Typed DEF CompletedOnce
  <2>8. Grow
    BY <2>3 DEF Grow
  <2>9. Kept(r)'
    BY <1>2 DEF Kept
  <2> QED BY <1>1, <1>2, <2>3, <2>4, <2>6, <2>7, <2>8, <2>9, Typed, Writes
<1>4. CASE ~Exists(alerts, Subject(s))
  <2>1. Conclude(s, "handler_error") /\ UNCHANGED rows
    BY <1>4 DEF Deduplicated, Marked, rows
  <2> QED BY <1>2, <2>1, GivesUp
<1> QED BY <1>3, <1>4

LEMMA EscalatedSafe == ASSUME RInv, NEW s \in Senders, Escalated(s) PROVE RInv'
<1>1. PICK r : r = sender[s].reply
  OBVIOUS
<1>2. r.type = "escalated" /\ sender[s].pc = "apply" /\ UNCHANGED <<menu, audit>>
  BY <1>1, HandledIs DEF Escalated, Applying
<1>3. PICK a \in Alerts : a = Subject(s)
  BY <1>1, <1>2, Writing
<1>4. PICK copy \in AlertRow : copy = sender[s].copy
  BY <1>1, <1>2, Inside DEF Sound
<1>5. PICK row : row = [copy EXCEPT !.step = IF r.target > 0 THEN r.target + 1 ELSE @]
  OBVIOUS
<1>6. row \in AlertRow
  <2>1. r.target < NumSteps /\ r.target \in Int
    BY <1>1, <1>2, Writing DEF Granted
  <2>2. PICK step : step = IF r.target > 0 THEN r.target + 1 ELSE copy.step
    OBVIOUS
  <2>3. step \in Steps \cup {0}
    BY <2>1, <2>2 DEF AlertRow, Steps
  <2>4. row = [copy EXCEPT !.step = step]
    BY <1>5, <2>2
  <2> QED BY <2>3, <2>4 DEF AlertRow
<1>7. /\ alerts' = UpdateAlert(alerts, a, row)
      /\ UNCHANGED <<marks, enabled, remediations, written, timeline, completions>>
      /\ IF UpdateOK(alerts, a, row) THEN Goto(s, "event") ELSE Conclude(s, "handler_error")
  BY <1>1, <1>3, <1>4, <1>5 DEF Escalated
<1>8. CASE UpdateOK(alerts, a, row)
  <2>1. alerts' \in [Alerts -> AlertRow] /\ \A b \in Alerts : Exists(alerts', b) => Exists(alerts, b)
    BY <1>6, <1>7, AlertUpdated, Typed
  <2>2. Grow
    BY <1>7, <2>1 DEF Grow
  <2>3. Kept(r)'
    BY <1>2 DEF Kept
  <2> QED BY <1>1, <1>2, <1>7, <1>8, <2>1, <2>2, <2>3, Typed, Framed, Writes
<1>9. CASE ~UpdateOK(alerts, a, row)
  <2>1. Conclude(s, "handler_error") /\ UNCHANGED rows
    BY <1>7, <1>9 DEF UpdateAlert, rows
  <2> QED BY <1>2, <2>1, GivesUp
<1> QED BY <1>8, <1>9

LEMMA InsertedSafe ==
  ASSUME RInv, NEW s \in Senders, Suppressed(s) \/ Route(s) \/ StatusPage(s)
  PROVE  RInv'
<1>1. PICK r : r = sender[s].reply
  OBVIOUS
<1>2. /\ r.type \in {"suppressed", "route", "status_page"} /\ sender[s].pc = "apply"
      /\ written' = [written EXCEPT ![r] = @ + 1] /\ Inserted(s)
  BY <1>1 DEF Suppressed, Route, StatusPage, Applying, CreateSuppression, CreateRoutingRule,
              CreateStatusPageRef
<1>3. /\ Goto(s, "event") /\ UNCHANGED <<menu, audit>>
      /\ UNCHANGED <<alerts, marks, enabled, remediations, timeline, completions>>
  BY <1>2, HandledIs DEF Inserted
<1>4. r \in Replies
  BY <1>1, <1>2, Writing
<1>5. written' \in [Replies -> Nat] /\ written'[r] > 0 /\ \A x \in Replies : written'[x] >= written[x]
  BY <1>2, <1>4, Typed
<1>6. Grow
  BY <1>3, <1>5, Typed DEF Grow
<1>7. Kept(r)'
  BY <1>2, <1>5 DEF Kept
<1>8. CompletedOnce' /\ WithinOrg'
  BY <1>3, Typed, Framed
<1>9. /\ alerts' \in [Alerts -> AlertRow]
      /\ marks' \in [Alerts -> [owner : DOMAIN OrgOf \cup {NoId}, duplicate : Alerts \cup {NoId}]]
      /\ enabled' \in [Monitors -> BOOLEAN] /\ remediations' \in [Remediations -> RemediationRow]
      /\ completions' \in [Remediations -> Nat]
  BY <1>3, Typed
<1>10. sender[s].pc \in {"apply", "reread", "resolve"} /\ Goto(s, "event") /\ UNCHANGED <<menu, audit>>
  BY <1>2, <1>3
<1>11. written' \in [Replies -> Nat]
  BY <1>5
<1> QED BY <1>1, <1>6, <1>7, <1>8, <1>9, <1>10, <1>11, Writes

LEMMA StartedSafe == ASSUME RInv, NEW s \in Senders, RemediationStarted(s) PROVE RInv'
<1>1. PICK r : r = sender[s].reply
  OBVIOUS
<1>2. r.type = "remediation_started" /\ sender[s].pc = "apply" /\ UNCHANGED <<menu, audit>>
  BY <1>1, HandledIs DEF RemediationStarted, Applying
<1>3. PICK a \in Alerts : a = Subject(s) /\ OrgOf[a] = OrgOf[r.ref]
  BY <1>1, <1>2, Writing
<1>4. r \in Replies /\ r.target \in Remediations
  BY <1>1, <1>2, Writing DEF Granted
<1>5. PICK x \in Remediations : x = r.target
  BY <1>4
<1>6. UNCHANGED <<alerts, marks, enabled, written, timeline, completions>>
  BY DEF RemediationStarted
<1>7. CASE remediations[x].status = "none" /\ CreateRemediation(x, a, r) /\ Goto(s, "event")
  <2>1. PICK new : new = [status |-> "in_progress", alert |-> a, source |-> r]
    OBVIOUS
  <2>2. new \in RemediationRow /\ new.status = "in_progress" /\ new.alert = a /\ new.source = r
    BY <1>4, <2>1 DEF RemediationRow
  <2>3. /\ remediations' \in [Remediations -> RemediationRow] /\ remediations'[x] = new
        /\ \A y \in Remediations \ {x} : remediations'[y] = remediations[y]
    BY <1>7, <2>1, <2>2, Typed DEF CreateRemediation
  <2>4. CompletedOnce'
    BY <1>6, <1>7, <2>2, <2>3, Typed DEF CompletedOnce, Outcomes
  <2>5. WithinOrg'
    BY <1>3, <1>6, <2>2, <2>3, Typed DEF WithinOrg
  <2>6. Grow
    BY <1>6, <1>7, <2>2, <2>3 DEF Grow, Outcomes
  <2>7. Kept(r)'
    BY <1>2, <1>5, <2>2, <2>3 DEF Kept
  <2> QED BY <1>1, <1>2, <1>6, <1>7, <2>3, <2>4, <2>5, <2>6, <2>7, Typed, Writes
<1>8. CASE Conclude(s, "handler_error") /\ UNCHANGED remediations
  BY <1>2, <1>6, <1>8, GivesUp DEF rows
<1> QED BY <1>1, <1>3, <1>5, <1>7, <1>8 DEF RemediationStarted

LEMMA RereadSafe == ASSUME RInv, NEW s \in Senders, Reread(s) PROVE RInv'
<1>1. PICK p : p = sender[s]
  OBVIOUS
<1>2. /\ Sound(p) /\ Done(p) /\ p.pc = "reread" /\ Granted(p.reply)
      /\ p.reply.type = "remediation_result" /\ Subject(s) = EventAlert[p.reply.ref]
  BY <1>1, Inside DEF Reread, Sound
<1>3. PICK row \in AlertRow : row = alerts[Subject(s)]
  BY <1>2, Typed DEF Granted
<1>4. PICK pc \in {"resolve", "event"} : Take(s, pc, row)
  BY <1>3 DEF Reread
<1> DEFINE q == [p EXCEPT !.pc = pc, !.copy = row]
<1>5. Sound(q) /\ q.pc \in {"resolve", "event"} /\ q.reply = p.reply
  BY <1>2, <1>3 DEF Sound, SenderState
<1>6. sender' = [sender EXCEPT ![s] = q]
  BY <1>1, <1>4 DEF Take
<1> HIDE DEF q
<1>7. UNCHANGED <<rows, menu, audit>>
  BY HandledIs DEF Reread
<1>8. Done(q)'
  BY <1>2, <1>5, <1>7 DEF Done, Kept, rows
<1> QED BY <1>5, <1>6, <1>7, <1>8, OnlyMoves

LEMMA AutoResolveSafe == ASSUME RInv, NEW s \in Senders, AutoResolve(s) PROVE RInv'
<1>1. PICK p : p = sender[s]
  OBVIOUS
<1>2. /\ Sound(p) /\ Done(p) /\ p.pc = "resolve" /\ p.copy \in AlertRow
      /\ p.reply.type = "remediation_result" /\ UNCHANGED <<menu, audit>>
  <2>1. Sound(p) /\ Done(p) /\ p.pc = "resolve"
    BY <1>1, Inside DEF AutoResolve
  <2>2. p.copy \in AlertRow /\ p.reply.type = "remediation_result"
    BY <2>1 DEF Sound
  <2> QED BY <2>1, <2>2, HandledIs DEF AutoResolve
<1>3. PICK a \in Alerts : a = Subject(s)
  BY <1>1, <1>2, Writing
<1>4. PICK row : row = [p.copy EXCEPT !.status = "resolved"]
  OBVIOUS
<1>5. row \in AlertRow
  BY <1>2, <1>4 DEF AlertRow, Statuses
<1>6. /\ alerts' = UpdateAlert(alerts, a, row) /\ Goto(s, "event")
      /\ UNCHANGED <<marks, enabled, remediations, written, timeline, completions>>
  BY <1>1, <1>3, <1>4 DEF AutoResolve
<1>7. alerts' \in [Alerts -> AlertRow] /\ \A b \in Alerts : Exists(alerts', b) => Exists(alerts, b)
  BY <1>5, <1>6, AlertUpdated, Typed
<1>8. Grow
  BY <1>6, <1>7 DEF Grow
<1>9. PICK r : r = p.reply
  OBVIOUS
<1>10. Kept(r)'
  BY <1>2, <1>6, <1>9 DEF Done, Kept
<1> QED BY <1>1, <1>2, <1>6, <1>7, <1>8, <1>9, <1>10, Typed, Framed, Writes

\* The update that completes a remediation finds it in progress.
LEMMA ResultSafe == ASSUME RInv, NEW s \in Senders, RemediationResult(s) PROVE RInv'
<1>1. PICK p : p = sender[s]
  OBVIOUS
<1>2. /\ Sound(p) /\ p.pc = "apply" /\ p.reply.type = "remediation_result" /\ Granted(p.reply)
      /\ UNCHANGED <<menu, audit>>
  <2>1. Sound(p) /\ p.pc = "apply" /\ p.reply.type = "remediation_result"
    BY <1>1, Inside DEF RemediationResult, Applying
  <2> QED BY <2>1, HandledIs DEF RemediationResult, Sound
<1>3. PICK x \in Remediations : x = p.reply.target
  BY <1>2 DEF Granted
<1>4. p.reply \in Replies /\ p.reply.result \in Outcomes
  BY <1>2 DEF Sound, Granted
<1>5. UNCHANGED <<alerts, marks, enabled, written, timeline>>
  BY DEF RemediationResult
<1>6. CASE /\ Completes(x) /\ Goto(s, "reread")
           /\ remediations' = [remediations EXCEPT ![x].status = p.reply.result]
           /\ completions' = [completions EXCEPT ![x] = @ + 1]
  <2>1. PICK old \in RemediationRow : old = remediations[x]
    BY Typed
  <2>2. PICK new : new = [old EXCEPT !.status = p.reply.result]
    OBVIOUS
  <2>3. /\ new \in RemediationRow /\ new.status = p.reply.result
        /\ new.source = old.source /\ new.alert = old.alert
    BY <1>4, <2>2 DEF RemediationRow
  <2>4. /\ remediations' \in [Remediations -> RemediationRow] /\ remediations'[x] = new
        /\ \A y \in Remediations \ {x} : remediations'[y] = remediations[y]
    BY <1>6, <2>1, <2>2, <2>3, Typed
  <2>5. /\ completions' \in [Remediations -> Nat] /\ completions'[x] = completions[x] + 1
        /\ \A y \in Remediations \ {x} : completions'[y] = completions[y]
    BY <1>6, Typed
  <2>6. old.status = "in_progress" /\ completions[x] = 0
    <3>1. old.status = "in_progress"
      BY <1>6, <2>1 DEF Completes
    <3>2. old.status \notin Outcomes
      BY <3>1 DEF Outcomes
    <3>3. completions[x] \in Nat /\ completions[x] <= 1 /\ completions[x] # 1
      BY <2>1, <3>2, Typed DEF CompletedOnce
    <3> QED BY <3>1, <3>3
  <2>7. CompletedOnce'
    BY <1>4, <2>3, <2>4, <2>5, <2>6, Typed DEF CompletedOnce
  <2>8. WithinOrg'
    <3>1. OrgOf[old.source.ref] = OrgOf[old.alert]
      BY <2>1, <2>6, Typed DEF WithinOrg
    <3>2. \A y \in Remediations : remediations'[y].status # "none" =>
            OrgOf[remediations'[y].source.ref] = OrgOf[remediations'[y].alert]
      BY <2>3, <2>4, <3>1, Typed DEF WithinOrg
    <3> QED BY <1>5, <3>2, Typed DEF WithinOrg
  <2>9. Grow
    BY <1>4, <1>5, <2>1, <2>3, <2>4 DEF Grow, Outcomes
  <2>10. PICK r : r = p.reply
    OBVIOUS
  <2>11. Kept(r)'
    BY <1>2, <1>3, <1>4, <2>3, <2>4, <2>10 DEF Kept
  <2> DEFINE q == [p EXCEPT !.pc = "reread"]
  <2>12. Sound(q) /\ q.pc = "reread" /\ q.reply = r
    BY <1>2, <2>10 DEF Sound, SenderState
  <2>13. sender' = [sender EXCEPT ![s] = q]
    BY <1>1, <1>6 DEF Goto
  <2> HIDE DEF q
  <2>14. Done(q)'
    BY <2>11, <2>12 DEF Done
  <2>15. Tables'
    BY <1>2, <1>5, <2>4, <2>5, <2>12, <2>13 DEF RInv, Tables, Sound
  <2> QED BY <1>2, <2>7, <2>8, <2>9, <2>12, <2>13, <2>14, <2>15, Moves
<1>7. CASE Conclude(s, "rejected") /\ UNCHANGED <<remediations, completions>>
  BY <1>1, <1>2, <1>5, <1>7, GivesUp DEF rows
<1> QED BY <1>1, <1>3, <1>6, <1>7 DEF RemediationResult

LEMMA DeregisterSafe == ASSUME RInv, NEW s \in Senders, Deregister(s) PROVE RInv'
<1>1. PICK p : p = sender[s]
  OBVIOUS
<1>2. /\ Sound(p) /\ p.pc = "apply" /\ p.reply.type = "deregister" /\ Granted(p.reply)
      /\ UNCHANGED <<menu, audit>>
  <2>1. Sound(p) /\ p.pc = "apply" /\ p.reply.type = "deregister"
    BY <1>1, Inside DEF Deregister, Applying
  <2> QED BY <2>1, HandledIs DEF Deregister, Sound
<1>3. PICK m \in Monitors : m = p.reply.target
  BY <1>2 DEF Granted
<1>4. /\ enabled' = [enabled EXCEPT ![m] = FALSE] /\ Conclude(s, "accepted")
      /\ UNCHANGED <<alerts, marks, remediations, written, timeline, completions>>
  BY <1>1, <1>3 DEF Deregister, Disable
<1>5. enabled' \in [Monitors -> BOOLEAN] /\ ~enabled'[m] /\ \A n \in Monitors : ~enabled[n] => ~enabled'[n]
  <2>1. enabled \in [Monitors -> BOOLEAN]
    BY Typed
  <2>2. enabled' \in [Monitors -> BOOLEAN]
    BY <1>4, <2>1
  <2>3. \A n \in Monitors : enabled'[n] = IF n = m THEN FALSE ELSE enabled[n]
    BY <1>4, <2>1
  <2> QED BY <2>2, <2>3
<1>6. Grow
  BY <1>4, <1>5 DEF Grow
<1>7. PICK r : r = p.reply
  OBVIOUS
<1>8. Kept(r)'
  BY <1>2, <1>3, <1>5, <1>7 DEF Kept
<1> DEFINE q == [p EXCEPT !.pc = "audit", !.outcome = "accepted"]
<1>9. Sound(q) /\ q.pc = "audit" /\ q.outcome = "accepted" /\ q.reply = r
  BY <1>2, <1>7 DEF Sound, SenderState
<1>10. sender' = [sender EXCEPT ![s] = q]
  BY <1>1, <1>4 DEF Conclude
<1> HIDE DEF q
<1>11. Done(q)'
  BY <1>2, <1>7, <1>8, <1>9 DEF Done, Noting
<1>12. Tables'
  BY <1>2, <1>4, <1>5, <1>9, <1>10 DEF RInv, Tables, Sound
<1>13. CompletedOnce' /\ WithinOrg'
  BY <1>4, Typed, Framed
<1> QED BY <1>2, <1>6, <1>9, <1>10, <1>11, <1>12, <1>13, Moves

LEMMA HandlerSafe == ASSUME RInv, NEW s \in Senders, Handler(s) PROVE RInv'
BY CheckSafe, NotedSafe, AckSafe, OwnershipSafe, DeduplicatedSafe, EscalatedSafe, InsertedSafe,
   StartedSafe, ResultSafe, RereadSafe, AutoResolveSafe, DeregisterSafe, EventSafe, AuditSafe
   DEF Handler

---------------------------------------------------------------------------
(***************************************************************************)
(* What else happens.                                                      *)
(***************************************************************************)
\* A step of nobody's that leaves the workers where they are.
LEMMA Happens ==
  ASSUME RInv, Grow, UNCHANGED <<sender, audit, menu>>, Tables', CompletedOnce', WithinOrg'
  PROVE  RInv'
<1>1. ASSUME NEW s \in Senders PROVE Sound(sender'[s]) /\ Done(sender[s])'
  <2>1. PICK p : p = sender[s] /\ p = sender'[s]
    OBVIOUS
  <2>2. Sound(p) /\ Done(p)'
    BY <2>1, DoneKept DEF RInv
  <2> QED BY <2>1, <2>2 DEF Done
<1>2. ASSUME NEW x \in audit' PROVE Audited(x)'
  BY AuditedKept DEF RInv
<1> QED BY <1>1, <1>2 DEF RInv

LEMMA ResolveSafe == ASSUME RInv, NEW a \in Alerts, Resolve(a) PROVE RInv'
<1>1. /\ IsActive(alerts[a]) /\ alerts' = [alerts EXCEPT ![a].status = "resolved"]
      /\ UNCHANGED <<marks, enabled, remediations, written, timeline, completions,
                     sender, audit, menu>>
  BY DEF Resolve, world
<1>2. PICK old \in AlertRow : old = alerts[a]
  BY Typed
<1>3. PICK new : new = [old EXCEPT !.status = "resolved"]
  OBVIOUS
<1>4. new \in AlertRow /\ Exists(alerts, a)
  BY <1>1, <1>2, <1>3 DEF AlertRow, Statuses, Exists, IsActive, Active
<1>5. alerts' = [alerts EXCEPT ![a] = new]
  BY <1>1, <1>2, <1>3
<1>6. alerts' \in [Alerts -> AlertRow] /\ \A b \in Alerts : Exists(alerts', b) => Exists(alerts, b)
  <2>1. alerts' \in [Alerts -> AlertRow] /\ \A b \in Alerts \ {a} : alerts'[b] = alerts[b]
    BY <1>4, <1>5, Typed
  <2> QED BY <1>4, <2>1 DEF Exists
<1>7. Grow /\ Tables' /\ CompletedOnce' /\ WithinOrg'
  BY <1>1, <1>6, Framed DEF Grow, Tables, RInv
<1> QED BY <1>1, <1>7, Happens

LEMMA PurgeSafe == ASSUME RInv, NEW a \in Alerts, Purge(a) PROVE RInv'
<1>1. /\ alerts' = [alerts EXCEPT ![a].status = "none"]
      /\ timeline' = {t \in timeline : t.alert # a}
      /\ UNCHANGED <<marks, enabled, remediations, written, completions, sender, audit, menu>>
  BY DEF Purge, world
<1>2. PICK old \in AlertRow : old = alerts[a]
  BY Typed
<1>3. PICK new : new = [old EXCEPT !.status = "none"]
  OBVIOUS
<1>4. new \in AlertRow /\ new.status = "none"
  BY <1>2, <1>3 DEF AlertRow, Statuses
<1>5. alerts' = [alerts EXCEPT ![a] = new]
  BY <1>1, <1>2, <1>3
<1>6. alerts' \in [Alerts -> AlertRow]
      /\ \A b \in Alerts : Exists(alerts', b) => b # a /\ Exists(alerts, b)
  BY <1>4, <1>5, Typed DEF Exists
<1>7. Grow
  BY <1>1, <1>6 DEF Grow
<1>8. Tables' /\ CompletedOnce' /\ WithinOrg'
  BY <1>1, <1>6, Framed DEF Tables, RInv
<1> QED BY <1>1, <1>7, <1>8, Happens

LEMMA QuietSafe ==
  ASSUME RInv, UNCHANGED <<rows, sender, audit, menu>>
  PROVE  RInv'
<1>1. Grow
  BY DEF Grow, rows, Exists
<1>2. Tables' /\ CompletedOnce' /\ WithinOrg'
  BY Framed DEF Tables, RInv, rows
<1> QED BY <1>1, <1>2, Happens

LEMMA RestartSafe == ASSUME RInv, Restart PROVE RInv'
<1>1. UNCHANGED <<rows, audit, menu>> /\ sender' = [s \in Senders |-> Idle]
  BY DEF Restart, world
<1>2. Grow
  BY <1>1 DEF Grow, rows, Exists
<1>3. \A x \in audit' : Audited(x)'
  BY <1>1, <1>2, AuditedKept DEF RInv
<1>4. \A s \in Senders : Sound(sender'[s])
  BY <1>1, IdleSound
<1>5. ASSUME NEW s \in Senders PROVE Done(sender[s])'
  BY <1>1, IdleSound DEF Done
<1>6. CompletedOnce' /\ WithinOrg'
  BY <1>1, Framed DEF RInv, rows
<1>7. Tables'
  BY <1>1, IdleSound DEF RInv, Tables, rows, Sound
<1> QED BY <1>3, <1>4, <1>5, <1>6, <1>7 DEF RInv

---------------------------------------------------------------------------
(***************************************************************************)
(* What the dispatcher remembers.                                          *)
(***************************************************************************)
Memory == Serves(registry, log, now) /\ Limits(buckets, setbacks, grants, now)

LEMMA MemoryFramed == ASSUME Memory, UNCHANGED <<memory, now>> PROVE Memory'
BY DEF Memory, memory

LEMMA SendRemembers == ASSUME RInv, Memory, NEW s \in Senders, Send(s) PROVE Memory'
<1>1. PICK j \in menu.jobs :
        /\ registry' = Record(registry, j[1])
        /\ log' = Append(log, [event |-> j[1], at |-> now])
        /\ UNCHANGED <<buckets, setbacks, grants, now>>
  BY DEF Send, world
<1>2. PICK e \in Events : e = j[1]
  BY DEF RInv, Tables, Menu
<1>3. Serves(Record(registry, e), Append(log, [event |-> e, at |-> now]), now)
  BY ServesRecord DEF Memory
<1> QED BY <1>1, <1>2, <1>3 DEF Memory

LEMMA DispatchRemembers == ASSUME Memory, NEW s \in Senders, Dispatch(s) PROVE Memory'
<1>1. PICK e : e = sender[s].reply.ref
  OBVIOUS
<1>2. registry' = AfterLookup(registry, e) /\ UNCHANGED <<buckets, setbacks, grants, log, now>>
  BY <1>1 DEF Dispatch, world
<1>3. Serves(AfterLookup(registry, e), log, now)
  BY ServesLookup DEF Memory
<1> QED BY <1>2, <1>3 DEF Memory

LEMMA AllowRemembers == ASSUME RInv, Memory, NEW s \in Senders, Allow(s) PROVE Memory'
<1>1. UNCHANGED <<registry, log, now>>
  BY DEF Allow, world
<1>2. Limits(buckets, setbacks, grants, now) /\ now \in Nat
  BY DEF Memory, Limits
<1>3. sender[s].at \in Nat
  BY DEF RInv, Tables, SenderState
<1>4. PICK k : k = <<OrgOf[sender[s].event], sender[s].reply.type>>
  OBVIOUS
<1>5. PICK L : L = sender[s].channel.limit
  OBVIOUS
<1>6. k \in Keys /\ L \in Nat \ {0}
  <2>1. sender[s].event \in Events /\ sender[s].channel \in Channels /\ sender[s].reply.type \in Types
    BY DEF RInv, Sound, Allow
  <2> QED BY <1>4, <1>5, <2>1 DEF Keys
<1>7. PICK t \in sender[s].at..now :
        /\ setbacks' = [setbacks EXCEPT ![k] = TurnOf(k, t)]
        /\ \/ /\ Admits(Rolled(buckets[k], t), t, L)
              /\ buckets' = [buckets EXCEPT ![k] = [Rolled(buckets[k], t) EXCEPT !.count = @ + 1]]
              /\ grants' = Append(grants, [key |-> k, at |-> t, limit |-> L, turn |-> TurnOf(k, t)])
           \/ buckets' = [buckets EXCEPT ![k] = Rolled(buckets[k], t)] /\ UNCHANGED grants
  BY <1>4, <1>5, Zenon DEF Allow, TurnOf
<1>8. PICK n, b :
        /\ n = TurnOf(k, t) /\ b = Rolled(buckets[k], t)
        /\ setbacks' = [setbacks EXCEPT ![k] = n]
        /\ \/ /\ Admits(b, t, L)
              /\ buckets' = [buckets EXCEPT ![k] = [b EXCEPT !.count = @ + 1]]
              /\ grants' = Append(grants, [key |-> k, at |-> t, limit |-> L, turn |-> n])
           \/ buckets' = [buckets EXCEPT ![k] = b] /\ UNCHANGED grants
  BY <1>7
<1>9. t \in 0..now
  BY <1>2, <1>3
<1>10. Finds(k, t, n, b)
  BY <1>2, <1>6, <1>8, <1>9, CallerFinds
<1>11. Limits(buckets', setbacks', grants', now)
  <2>1. CASE buckets' = [buckets EXCEPT ![k] = b] /\ UNCHANGED grants
    BY <1>2, <1>6, <1>8, <1>9, <1>10, <2>1, LimitsRolled
  <2>2. CASE /\ Admits(b, t, L)
             /\ buckets' = [buckets EXCEPT ![k] = [b EXCEPT !.count = @ + 1]]
             /\ grants' = Append(grants, [key |-> k, at |-> t, limit |-> L, turn |-> n])
    BY <1>2, <1>6, <1>8, <1>9, <1>10, <2>2, LimitsGranted
  <2> QED BY <1>8, <2>1, <2>2
<1> QED BY <1>1, <1>11 DEF Memory

LEMMA SweepRemembers == ASSUME Memory, Sweep PROVE Memory'
<1>1. UNCHANGED <<registry, log, setbacks, grants, now>>
  BY DEF Sweep, world
<1>2. Limits(buckets', setbacks, grants, now)
  BY LimitsSwept DEF Memory
<1> QED BY <1>1, <1>2 DEF Memory

LEMMA TickRemembers == ASSUME Memory, Tick PROVE Memory'
<1>1. now' = now + 1 /\ UNCHANGED memory
  BY DEF Tick
<1>2. Serves(registry, log, now + 1) /\ Limits(buckets, setbacks, grants, now + 1)
  BY ServesLater, LimitsLater DEF Memory
<1> QED BY <1>1, <1>2 DEF Memory, memory

LEMMA RestartForgets == ASSUME Memory, Restart PROVE Memory'
<1>1. /\ registry' = <<>> /\ log' = <<>> /\ grants' = <<>> /\ UNCHANGED now
      /\ buckets' = [k \in Keys |-> NoBucket] /\ setbacks' = [k \in Keys |-> 0]
  BY DEF Restart, world
<1>2. now \in Nat
  BY DEF Memory, Serves
<1>3. Serves(<<>>, <<>>, now) /\ Limits([k \in Keys |-> NoBucket], [k \in Keys |-> 0], <<>>, now)
  BY <1>2, ServesEmpty, LimitsEmpty
<1> QED BY <1>1, <1>3 DEF Memory

LEMMA HandlerForgets == ASSUME NEW s \in Senders, Handler(s) PROVE UNCHANGED <<memory, now>>
BY DEF Handler, Check, Claimed, Enriched, Linked, Noted, AckReply, Ownership, Deduplicated,
       Escalated, Suppressed, Route, StatusPage, Inserted, RemediationStarted,
       RemediationResult, Reread, AutoResolve, Deregister, Event, Audit, Handled, world

---------------------------------------------------------------------------
(***************************************************************************)
(* The invariant.                                                          *)
(***************************************************************************)
ReplyInv == RInv /\ Memory

LEMMA InitHolds == ASSUME Init PROVE ReplyInv
<1>1. Memory
  <2>1. 0 \in Nat
    OBVIOUS
  <2>2. Serves(<<>>, <<>>, 0) /\ Limits([k \in Keys |-> NoBucket], [k \in Keys |-> 0], <<>>, 0)
    BY <2>1, ServesEmpty, LimitsEmpty
  <2> QED BY <2>2 DEF Init, Memory
<1>2. \A s \in Senders : Sound(sender[s]) /\ Done(sender[s])
  BY IdleSound DEF Init, Done
<1>3. alerts \in [Alerts -> AlertRow]
  <2>1. \A a \in Alerts : [monitor |-> MonitorOf[a], status |-> "firing", step |-> 1] \in AlertRow
    BY DEF AlertRow, Statuses, Steps
  <2> QED BY <2>1 DEF Init
<1>4. /\ marks \in [Alerts -> [owner : DOMAIN OrgOf \cup {NoId}, duplicate : Alerts \cup {NoId}]]
      /\ enabled \in [Monitors -> BOOLEAN] /\ remediations \in [Remediations -> RemediationRow]
      /\ written \in [Replies -> Nat] /\ completions \in [Remediations -> Nat]
      /\ menu \in Menu
  BY DEF Init
<1>5. sender \in [Senders -> SenderState]
  BY IdleSound DEF Init, Sound
<1>6. CompletedOnce
  BY DEF Init, CompletedOnce
<1>7. WithinOrg
  BY DEF Init, WithinOrg
<1>8. audit = {}
  BY DEF Init
<1> QED BY <1>1, <1>2, <1>3, <1>4, <1>5, <1>6, <1>7, <1>8 DEF ReplyInv, RInv, Tables

LEMMA StepHolds == ASSUME ReplyInv, [Next]_vars PROVE ReplyInv'
<1>1. RInv /\ Memory /\ Serves(registry, log, now)
  BY DEF ReplyInv, Memory
<1>2. CASE \E s \in Senders : Send(s)
  BY <1>1, <1>2, SendSafe, SendRemembers DEF ReplyInv
<1>3. CASE \E s \in Senders : Dispatch(s)
  BY <1>1, <1>3, DispatchSafe, DispatchRemembers DEF ReplyInv
<1>11. CASE \E s \in Senders : Allow(s)
  BY <1>1, <1>11, AllowSafe, AllowRemembers DEF ReplyInv
<1>4. CASE \E s \in Senders : Handler(s)
  BY <1>1, <1>4, HandlerSafe, HandlerForgets, MemoryFramed DEF ReplyInv
<1>5. ASSUME NEW a \in Alerts, Resolve(a) \/ Purge(a) PROVE ReplyInv'
  <2>1. UNCHANGED <<memory, now>>
    BY <1>5 DEF Resolve, Purge, world
  <2> QED BY <1>1, <1>5, <2>1, ResolveSafe, PurgeSafe, MemoryFramed DEF ReplyInv
<1>6. ASSUME NEW m \in Monitors, CheckIn(m) PROVE ReplyInv'
  <2>1. UNCHANGED <<memory, now>> /\ UNCHANGED <<rows, sender, audit, menu>>
    BY <1>6 DEF CheckIn
  <2> QED BY <1>1, <2>1, QuietSafe, MemoryFramed DEF ReplyInv
<1>7. CASE Sweep
  <2>1. UNCHANGED <<rows, sender, audit, menu>>
    BY <1>7 DEF Sweep, world
  <2> QED BY <1>1, <1>7, <2>1, QuietSafe, SweepRemembers DEF ReplyInv
<1>8. CASE Tick
  <2>1. UNCHANGED <<rows, sender, audit, menu>>
    BY <1>8 DEF Tick
  <2> QED BY <1>1, <1>8, <2>1, QuietSafe, TickRemembers DEF ReplyInv
<1>9. CASE Restart
  BY <1>1, <1>9, RestartSafe, RestartForgets DEF ReplyInv
<1>10. CASE UNCHANGED vars
  <2>1. UNCHANGED <<memory, now>> /\ UNCHANGED <<rows, sender, audit, menu>>
    BY <1>10 DEF vars, world
  <2> QED BY <1>1, <2>1, QuietSafe, MemoryFramed DEF ReplyInv
<1> QED BY <1>2, <1>3, <1>4, <1>5, <1>6, <1>7, <1>8, <1>9, <1>10, <1>11 DEF Next

\* The invariant holds: of the rows, what each worker's checks established and
\* its writes made; of the memory, what each entry and each bucket stands for.
THEOREM ReplyInvariant == Spec => []ReplyInv
<1>1. Init => ReplyInv
  BY InitHolds
<1>2. ReplyInv /\ [Next]_vars => ReplyInv'
  BY StepHolds
<1> QED BY <1>1, <1>2, PTL DEF Spec

---------------------------------------------------------------------------
LEMMA InvTypes == ASSUME ReplyInv PROVE TypeOK
<1>1. Len(registry) <= MaxEntries
  BY DEF ReplyInv, Memory, Serves
<1>2. \A i, j \in DOMAIN registry : registry[i].event = registry[j].event => i = j
  <2>1. registry \in Seq(Entries) /\ Distinct(registry)
    BY DEF ReplyInv, Memory, Serves
  <2>2. DOMAIN registry = 1..Len(registry)
    BY <2>1
  <2> QED BY <2>1, <2>2 DEF Distinct
<1>3. \A k \in Keys : buckets[k] # NoBucket => buckets[k].count \in Nat /\ buckets[k].start <= now
  BY DEF ReplyInv, Memory, Limits, Stands, Bucket
<1>4. \A s \in Senders : sender[s].pc \in
        {"idle", "dispatch", "allow", "check", "apply", "reread", "resolve", "event", "audit"}
  BY DEF ReplyInv, RInv, Sound, SenderState
<1>5. /\ alerts \in [Alerts -> AlertRow] /\ remediations \in [Remediations -> RemediationRow]
      /\ \A a \in Alerts : marks[a].owner # NoId => marks[a].owner \in DOMAIN OrgOf
      /\ \A a \in Alerts : marks[a].duplicate \in Alerts \cup {NoId}
  BY DEF ReplyInv, RInv, Tables
<1> QED BY <1>1, <1>2, <1>3, <1>4, <1>5 DEF TypeOK

LEMMA InvRecent == ASSUME ReplyInv PROVE RecentIsKnown
<1>1. Serves(registry, log, now) /\ DOMAIN log = 1..Len(log)
  <2>1. Serves(registry, log, now) /\ log \in Seq(Entries)
    BY DEF ReplyInv, Memory, Serves
  <2> QED BY <2>1
<1>2. ASSUME NEW i \in 1..Len(log), now - log[i].at <= TTL, Cardinality(Later(log, i)) <= MaxEntries
      PROVE  Lookup(registry, log[i].event)
  BY <1>1, <1>2, ServesRecent
<1> QED BY <1>1, <1>2 DEF RecentIsKnown, Later

\* For any capacity, time to live, window and limits, what the dispatcher
\* remembers serves: types are right, no event is in the registry twice, every
\* recent one is there, and no burst between two callers overtaken at the edge of
\* a window reaches twice the limit.
THEOREM MemoryAlwaysServes == Spec => []MemoryServes
<1>1. ReplyInv => MemoryServes
  BY InvTypes, InvRecent, LimitsBound DEF MemoryServes, ReplyInv, Memory
<1> QED BY <1>1, ReplyInvariant, PTL

\* Whatever results arrive, together, late or again, a remediation is completed
\* at most once, by any number of workers and processes.
THEOREM RemediationsCompleteOnce == Spec => []CompletedOnce
<1>1. ReplyInv => CompletedOnce
  BY DEF ReplyInv, RInv
<1> QED BY <1>1, ReplyInvariant, PTL

\* What the audit calls accepted has been done and stays done, over crashes.
THEOREM AcceptedStaysApplied == Spec => []AcceptedIsApplied
<1>1. ReplyInv => AcceptedIsApplied
  <2> SUFFICES ASSUME ReplyInv, NEW x \in audit, x.outcome = "accepted"
               PROVE  CASE x.reply.type \in {"suppressed", "route", "status_page"} -> written[x.reply] > 0
                        [] x.reply.type = "remediation_started" ->
                             remediations[x.reply.target].source = x.reply
                        [] x.reply.type = "remediation_result" ->
                             remediations[x.reply.target].status \in Outcomes
                        [] x.reply.type = "deregister" -> ~enabled[x.reply.target]
                        [] OTHER -> Noticed(x.alert, x.reply)
    BY DEF AcceptedIsApplied
  <2>1. Kept(x.reply) /\ (Noting(x.reply) => Noticed(x.alert, x.reply))
    BY DEF ReplyInv, RInv, Audited
  <2> QED BY <2>1 DEF Kept, Noting
<1> QED BY <1>1, ReplyInvariant, PTL

\* Whatever ids the sinks name, no row ties two organisations together.
THEOREM RowsStayWithinOrg == Spec => []WithinOrg
<1>1. ReplyInv => WithinOrg
  BY DEF ReplyInv, RInv
<1> QED BY <1>1, ReplyInvariant, PTL

---------------------------------------------------------------------------
(***************************************************************************)
(* Checks.  What CheckStatusProofs proves holds of both settings: its      *)
(* instances have the definitions of Alone and of Overlapping.             *)
(***************************************************************************)
One == INSTANCE CheckStatusProofs WITH
  Monitors <- Probed, Workers <- {OneWorker}, MaxRows <- MaxProbes,
  OldStatus <- [m \in Probed |-> NoStatus], MaxRestarts <- 0

Many == INSTANCE CheckStatusProofs WITH
  Monitors <- Shared, Heartbeats <- Pinged, MaxChanges <- MaxFlips

LEMMA AloneSame ==
  /\ One!Init <=> Alone!Init
  /\ One!vars = Alone!vars
  /\ One!Next <=> Alone!Next
<1>1. ASSUME NEW w, NEW m
      PROVE  /\ One!RunCheck(w, m) <=> Alone!RunCheck(w, m)
             /\ One!RunHeartbeat(w, m) <=> Alone!RunHeartbeat(w, m)
  BY DEF One!RunCheck, One!RunHeartbeat, One!Tick, One!Enqueue, One!NewRow, One!Result, One!HeartbeatResult,
         One!Idle, Alone!RunCheck, Alone!RunHeartbeat, Alone!Tick, Alone!Enqueue, Alone!NewRow, Alone!Result,
         Alone!HeartbeatResult, Alone!Idle
<1>2. ASSUME NEW w PROVE One!ReadLast(w) <=> Alone!ReadLast(w)
  BY DEF One!ReadLast, Alone!ReadLast
<1>3. ASSUME NEW w PROVE One!Seed(w) <=> Alone!Seed(w)
  BY DEF One!Seed, One!SeedOf, One!Latest, Alone!Seed, Alone!SeedOf, Alone!Latest
<1>4. ASSUME NEW w PROVE One!WriteLast(w) <=> Alone!WriteLast(w)
  BY DEF One!WriteLast, One!Uneventful, One!Idle, Alone!WriteLast, Alone!Uneventful, Alone!Idle
<1>5. ASSUME NEW w PROVE One!LogTransition(w) <=> Alone!LogTransition(w)
  BY DEF One!LogTransition, One!Enqueue, One!NewRow, Alone!LogTransition, Alone!Enqueue, Alone!NewRow
<1>6. ASSUME NEW w PROVE One!PublishEvent(w) <=> Alone!PublishEvent(w)
  BY DEF One!PublishEvent, One!EventFor, One!Heard, One!Idle,
         Alone!PublishEvent, Alone!EventFor, Alone!Heard, Alone!Idle
<1>7. One!Restart \/ One!Crash \/ One!Shutdown <=> Alone!Restart \/ Alone!Crash \/ Alone!Shutdown
  BY DEF One!Restart, One!Crash, One!Shutdown, One!NewProcess, One!Idle,
         Alone!Restart, Alone!Crash, Alone!Shutdown, Alone!NewProcess, Alone!Idle
<1>8. ASSUME NEW m PROVE One!Ping(m) <=> Alone!Ping(m)
  BY DEF One!Ping, One!Tick, Alone!Ping, Alone!Tick
<1>9. One!Next <=> Alone!Next
  BY <1>1, <1>2, <1>3, <1>4, <1>5, <1>6, <1>7, <1>8
     DEF One!Next, One!WorkerStep, One!Flush, One!TargetChanges, One!Status,
         Alone!Next, Alone!WorkerStep, Alone!Flush, Alone!TargetChanges, Alone!Status
<1> QED BY <1>9 DEF One!Init, One!Idle, One!vars, Alone!Init, Alone!Idle, Alone!vars

LEMMA OverlappingSame ==
  /\ Many!Init <=> Overlapping!Init
  /\ Many!vars = Overlapping!vars
  /\ Many!Next <=> Overlapping!Next
<1>1. ASSUME NEW w, NEW m
      PROVE  /\ Many!RunCheck(w, m) <=> Overlapping!RunCheck(w, m)
             /\ Many!RunHeartbeat(w, m) <=> Overlapping!RunHeartbeat(w, m)
  BY DEF Many!RunCheck, Many!RunHeartbeat, Many!Tick, Many!Enqueue, Many!NewRow, Many!Result, Many!HeartbeatResult,
         Many!Idle, Overlapping!RunCheck, Overlapping!RunHeartbeat, Overlapping!Tick, Overlapping!Enqueue, Overlapping!NewRow, Overlapping!Result,
         Overlapping!HeartbeatResult, Overlapping!Idle
<1>2. ASSUME NEW w PROVE Many!ReadLast(w) <=> Overlapping!ReadLast(w)
  BY DEF Many!ReadLast, Overlapping!ReadLast
<1>3. ASSUME NEW w PROVE Many!Seed(w) <=> Overlapping!Seed(w)
  BY DEF Many!Seed, Many!SeedOf, Many!Latest, Overlapping!Seed, Overlapping!SeedOf, Overlapping!Latest
<1>4. ASSUME NEW w PROVE Many!WriteLast(w) <=> Overlapping!WriteLast(w)
  BY DEF Many!WriteLast, Many!Uneventful, Many!Idle, Overlapping!WriteLast, Overlapping!Uneventful, Overlapping!Idle
<1>5. ASSUME NEW w PROVE Many!LogTransition(w) <=> Overlapping!LogTransition(w)
  BY DEF Many!LogTransition, Many!Enqueue, Many!NewRow, Overlapping!LogTransition, Overlapping!Enqueue, Overlapping!NewRow
<1>6. ASSUME NEW w PROVE Many!PublishEvent(w) <=> Overlapping!PublishEvent(w)
  BY DEF Many!PublishEvent, Many!EventFor, Many!Heard, Many!Idle,
         Overlapping!PublishEvent, Overlapping!EventFor, Overlapping!Heard, Overlapping!Idle
<1>7. Many!Restart \/ Many!Crash \/ Many!Shutdown <=> Overlapping!Restart \/ Overlapping!Crash \/ Overlapping!Shutdown
  BY DEF Many!Restart, Many!Crash, Many!Shutdown, Many!NewProcess, Many!Idle,
         Overlapping!Restart, Overlapping!Crash, Overlapping!Shutdown, Overlapping!NewProcess, Overlapping!Idle
<1>8. ASSUME NEW m PROVE Many!Ping(m) <=> Overlapping!Ping(m)
  BY DEF Many!Ping, Many!Tick, Overlapping!Ping, Overlapping!Tick
<1>9. Many!Next <=> Overlapping!Next
  BY <1>1, <1>2, <1>3, <1>4, <1>5, <1>6, <1>7, <1>8
     DEF Many!Next, Many!WorkerStep, Many!Flush, Many!TargetChanges, Many!Status,
         Overlapping!Next, Overlapping!WorkerStep, Overlapping!Flush, Overlapping!TargetChanges, Overlapping!Status
<1> QED BY <1>9 DEF Many!Init, Many!Idle, Many!vars, Overlapping!Init, Overlapping!Idle, Overlapping!vars

LEMMA SettingsAssumed ==
  /\ One!StatusAssumption /\ Many!StatusAssumption /\ One!EmptyAtFirst
<1>1. One!StatusAssumption
  BY ChecksAssumption DEF One!StatusAssumption, One!Status, Alone!StatusAssumption, Alone!Status
<1>2. Many!StatusAssumption
  BY ChecksAssumption
     DEF Many!StatusAssumption, Many!Status, Overlapping!StatusAssumption, Overlapping!Status
<1> QED BY <1>1, <1>2 DEF One!EmptyAtFirst

---------------------------------------------------------------------------
(***************************************************************************)
(* The parts.                                                              *)
(***************************************************************************)
\* Whatever part goes on, the reply path does its steps or rests.
LEMMA RepliesRun == SourcesSpec => Spec
<1>1. SourcesInit => Init
  BY DEF SourcesInit
<1>2. [SourcesNext]_<<vars, checking, part>> => [Next]_vars
  BY DEF SourcesNext
<1> QED BY <1>1, <1>2, PTL DEF SourcesSpec, Spec

\* The properties of the reply path hold of whatever part goes on.
THEOREM RepliesKeepTheirWord ==
  SourcesSpec => [](MemoryServes /\ CompletedOnce /\ AcceptedIsApplied /\ WithinOrg)
BY RepliesRun, MemoryAlwaysServes, RemediationsCompleteOnce, AcceptedStaysApplied,
   RowsStayWithinOrg, PTL

LEMMA OneRuns == SourcesSpec /\ part = "alone" => One!Spec /\ [](part = "alone")
<1>1. SourcesInit /\ part = "alone" => One!Init
  BY AloneSame DEF SourcesInit
<1>2. part = "alone" /\ [SourcesNext]_<<vars, checking, part>> =>
        [One!Next]_One!vars /\ (part = "alone")'
  <2> SUFFICES ASSUME part = "alone", [SourcesNext]_<<vars, checking, part>>
               PROVE  [One!Next]_One!vars /\ (part = "alone")'
    OBVIOUS
  <2>1. CASE SourcesNext
    BY <2>1, AloneSame DEF SourcesNext
  <2>2. CASE UNCHANGED <<vars, checking, part>>
    BY <2>2 DEF checking, One!vars
  <2> QED BY <2>1, <2>2
<1> QED BY <1>1, <1>2, PTL DEF SourcesSpec, One!Spec

LEMMA ManyRun ==
  SourcesSpec /\ part = "overlapping" => Many!Spec /\ [](part = "overlapping")
<1>1. SourcesInit /\ part = "overlapping" => Many!Init
  BY OverlappingSame DEF SourcesInit
<1>2. part = "overlapping" /\ [SourcesNext]_<<vars, checking, part>> =>
        [Many!Next]_Many!vars /\ (part = "overlapping")'
  <2> SUFFICES ASSUME part = "overlapping", [SourcesNext]_<<vars, checking, part>>
               PROVE  [Many!Next]_Many!vars /\ (part = "overlapping")'
    OBVIOUS
  <2>1. CASE SourcesNext
    BY <2>1, OverlappingSame DEF SourcesNext
  <2>2. CASE UNCHANGED <<vars, checking, part>>
    BY <2>2 DEF checking, Many!vars
  <2> QED BY <2>1, <2>2
<1> QED BY <1>1, <1>2, PTL DEF SourcesSpec, Many!Spec

\* The part that was chosen stays the one.
LEMMA PartStays ==
  /\ SourcesSpec => (part = "alone" \/ [](part # "alone"))
  /\ SourcesSpec => (part = "overlapping" \/ [](part # "overlapping"))
<1>1. [SourcesNext]_<<vars, checking, part>> => UNCHANGED part
  BY DEF SourcesNext
<1>2. part # "alone" /\ UNCHANGED part => (part # "alone")'
  OBVIOUS
<1>3. part # "overlapping" /\ UNCHANGED part => (part # "overlapping")'
  OBVIOUS
<1>4. (part = "alone" \/ part # "alone") /\ (part = "overlapping" \/ part # "overlapping")
  OBVIOUS
<1> QED BY <1>1, <1>2, <1>3, <1>4, PTL DEF SourcesSpec

\* One worker on an empty table: between checks the event that the engine was
\* told last agrees with the status that the scheduler remembers, whichever
\* rows are dropped or delayed and however targets change.
THEOREM EventsFollow == SourcesSpec => []EventsFollowStatus
<1>1. \A v, w \in {OneWorker} : v = w
  OBVIOUS
<1>2. One!Spec => []One!Undisturbed
  BY <1>1, SettingsAssumed, One!OneWorkerIsUndisturbed
<1>3. One!Spec /\ []One!Undisturbed => []One!EventsFollowStatus
  BY SettingsAssumed, One!EventsFollow
<1>4. One!Spec => []One!GInv
  BY SettingsAssumed, One!StatusInvariant
<1>5. One!GInv => Alone!TypeOK
  BY DEF One!GInv, One!TypeOK, One!Status, One!Row, One!WorkerState,
         Alone!TypeOK, Alone!Status, Alone!Row, Alone!WorkerState
<1>6. One!EventsFollowStatus => Alone!EventsFollowStatus
  BY DEF One!EventsFollowStatus, One!Rest, Alone!EventsFollowStatus, Alone!Rest
<1>7. part # "alone" => EventsFollowStatus
  BY DEF EventsFollowStatus
<1>8. Alone!TypeOK /\ Alone!EventsFollowStatus => EventsFollowStatus
  BY DEF EventsFollowStatus
<1> QED BY <1>2, <1>3, <1>4, <1>5, <1>6, <1>7, <1>8, OneRuns, PartStays, PTL

\* One down row for each outage of a pinged monitor.
THEOREM OneRowPerOutage == SourcesSpec => []OncePerOutage
<1>1. \A v, w \in {OneWorker} : v = w
  OBVIOUS
<1>2. One!Spec => []One!Undisturbed
  BY <1>1, SettingsAssumed, One!OneWorkerIsUndisturbed
<1>3. One!Spec /\ []One!Undisturbed => []One!OncePerOutage
  BY SettingsAssumed, One!OneRowPerOutage
<1>4. One!OncePerOutage => OncePerOutage
  BY DEF One!OncePerOutage, Alone!OncePerOutage, OncePerOutage
<1>5. part # "alone" => OncePerOutage
  BY DEF OncePerOutage
<1> QED BY <1>2, <1>3, <1>4, <1>5, OneRuns, PartStays, PTL

\* Any workers, whose checks of one monitor overlap, and any processes, which
\* stop or die at any point: an alarm is raised by a check that found its
\* target not up.
THEOREM AlarmsAreTrue == SourcesSpec => NoFalseAlarm
<1>1. Many!Spec => Many!NoFalseAlarm
  BY SettingsAssumed, Many!AlarmsAreTrue
<1>2. [~Many!FalseAlarm]_Many!vars => ~Overlapping!FalseAlarm
  BY DEF Many!FalseAlarm, Many!vars, Overlapping!FalseAlarm
<1>3. part # "overlapping" =>
        [part = "overlapping" => ~Overlapping!FalseAlarm]_<<vars, checking, part>>
  OBVIOUS
<1>4. ~Overlapping!FalseAlarm =>
        [part = "overlapping" => ~Overlapping!FalseAlarm]_<<vars, checking, part>>
  OBVIOUS
<1> QED BY <1>1, <1>2, <1>3, <1>4, ManyRun, PartStays, PTL DEF NoFalseAlarm, Many!NoFalseAlarm
=============================================================================
