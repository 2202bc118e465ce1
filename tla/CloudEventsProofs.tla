-------------------------- MODULE CloudEventsProofs --------------------------
(***************************************************************************)
(* The CloudEvents interface, for any constants: signing keys, reading and *)
(* ingest, each by an inductive invariant of its own, and the properties   *)
(* of the interface in which their steps interleave.                       *)
(***************************************************************************)
EXTENDS CloudEvents, FiniteSetTheorems, WellFoundedInduction, TLAPS

---------------------------------------------------------------------------
(***************************************************************************)
(* SIGNING KEYS                                                            *)
(*                                                                         *)
(* For any number of replicas, callers, keys and failures: the key of a    *)
(* token that has not expired is published, once there is a key there is   *)
(* an active one, and no more than were left by rotations that were cut    *)
(* short or overlapped.                                                    *)
(*                                                                         *)
(* Two facts carry the proof.  The clock waits for rotations and callers,  *)
(* so that a key somebody holds a signer of has been retired at this very  *)
(* time, if at all, and a key listed as overdue has neither a token nor a  *)
(* signer.  And a kid is saved once: it is in nobody's list before.        *)
(***************************************************************************)
---------------------------------------------------------------------------
(***************************************************************************)
(* The inductive invariant.                                                *)
(***************************************************************************)
Pending(r) == replica[r].pc \in {"boot", "save"}

\* Kids are given in order; a row has a time when it was retired.
RowsKnown ==
  /\ \A k \in Kids : k > made \/ keys[k].status = "none" => keys[k] = NoKey
  /\ \A k \in Kids : keys[k].status = "retiring" => keys[k].retired \in Nat

\* The kid a replica is about to save is new to the table and to the others.
PendingIsNew ==
  \A r \in Replicas : Pending(r) =>
    /\ replica[r].kid \in 1 .. made
    /\ keys[replica[r].kid] = NoKey
    /\ \A s \in Replicas :
         /\ s # r /\ Pending(s) => replica[s].kid # replica[r].kid
         /\ replica[r].kid \notin replica[s].todo
         /\ replica[r].kid # replica[s].old

\* What the others have in hand has been in the table.
HeldIsOld ==
  \A r \in Replicas : replica[r].old <= made /\ \A k \in replica[r].todo : k <= made

\* A token outlives neither its key's overlap nor its own time.
TokensCovered ==
  \A t \in tokens :
    /\ t.exp > now /\ t.exp <= now + TokenTTL
    /\ \/ keys[t.kid].status = "active"
       \/ keys[t.kid].status = "retiring" /\ t.exp <= keys[t.kid].retired + TokenTTL

SignersCovered ==
  \A c \in Callers : signer[c] # 0 =>
    \/ keys[signer[c]].status = "active"
    \/ keys[signer[c]].status = "retiring" /\ keys[signer[c]].retired = now

\* A key that is about to expire signs nothing and has no token left.
OverdueIsIdle ==
  \A r \in Replicas : \A k \in replica[r].todo :
    /\ keys[k].status # "active"
    /\ \A t \in tokens : t.kid # k
    /\ \A c \in Callers : signer[c] # k

\* A key is replaced by a younger one, which is active when it is retired.
Replaced(r) ==
  replica[r].old # 0 =>
    keys[replica[r].old].status = "none" \/ keys[replica[r].old].created < now

RetiredForActive ==
  \A r \in Replicas :
    /\ Replaced(r)
    /\ replica[r].pc = "retire" =>
         /\ replica[r].kid \in Kids /\ replica[r].old # 0
         /\ keys[replica[r].kid].status = "active"
         /\ keys[replica[r].kid].created = now

KeysSound ==
  /\ RowsKnown /\ PendingIsNew /\ HeldIsOld
  /\ TokensCovered /\ SignersCovered /\ OverdueIsIdle
  /\ RetiredForActive /\ SignerRemains

KInv == TypeOK /\ KeysSound

---------------------------------------------------------------------------
(***************************************************************************)
(* The latest key of a set.                                                *)
(***************************************************************************)
\* There is a latest active key unless there is none.
LEMMA LatestExists ==
  ASSUME NEW S \in SUBSET Kids, S # {}, MaxKeys \in Nat
  PROVE  \E k \in S : IsLatest(k, S)
<1> DEFINE T == {MaxKeys - k : k \in S}
<1>1. T \subseteq Nat
  BY SMT DEF Kids
<1>2. T # {}
  OBVIOUS
<1>3. PICK x \in T : \A y \in T : ~ (<<y, x>> \in OpToRel(<, Nat))
  <2> HIDE DEF T
  <2> QED BY <1>1, <1>2, WFMin, NatLessThanWellFounded
<1>4. \A y \in T : ~ (y < x)
  BY <1>1, <1>3 DEF OpToRel
<1>5. PICK k \in S : x = MaxKeys - k
  OBVIOUS
<1>6. \A j \in S : j <= k
  <2> TAKE j \in S
  <2>1. MaxKeys - j \in T
    OBVIOUS
  <2>2. ~ (MaxKeys - j < MaxKeys - k)
    BY <1>4, <1>5, <2>1
  <2> QED BY <2>2, SMT DEF Kids
<1> QED BY <1>5, <1>6 DEF IsLatest

LEMMA LatestIsActive ==
  ASSUME TypeOK, LatestActive # 0, MaxKeys \in Nat
  PROVE  LatestActive \in Active
<1>1. Active # {} /\ LatestActive = CHOOSE k \in Active : IsLatest(k, Active)
  BY DEF LatestActive
<1>2. Active \in SUBSET Kids
  BY DEF Active, WithStatus
<1>3. \E k \in Active : IsLatest(k, Active)
  BY <1>1, <1>2, LatestExists
<1> QED BY <1>1, <1>3

---------------------------------------------------------------------------
(***************************************************************************)
(* What a step of a replica that leaves the table alone preserves.         *)
(***************************************************************************)
Others == <<now, keys, made, signer, tokens>>

\* A replica that goes on, or gives up, without a key to save or to retire.
LEMMA Resting ==
  ASSUME KInv, MaxKeys \in Nat,
         NEW r \in Replicas, NEW x \in ReplicaState,
         x.pc \notin {"boot", "save", "retire"}, x.old = 0,
         x.todo \subseteq replica[r].todo,
         At(r, x), UNCHANGED Others, upsets' \in Nat, overlaps' \in Nat
  PROVE  KInv'
<1> USE DEF KInv, KeysSound, Others
<1>0. /\ replica' \in [Replicas -> ReplicaState]
      /\ replica'[r] = x /\ \A s \in Replicas \ {r} : replica'[s] = replica[s]
      /\ replica[r] \in ReplicaState
  BY DEF At, TypeOK
<1>1. TypeOK'
  BY <1>0 DEF TypeOK
<1>2. RowsKnown'
  BY DEF RowsKnown
<1>3. PendingIsNew'
  BY <1>0 DEF PendingIsNew, Pending, TypeOK, ReplicaState
<1>4. HeldIsOld'
  BY <1>0 DEF HeldIsOld, TypeOK
<1>5. TokensCovered'
  BY DEF TokensCovered
<1>6. SignersCovered'
  BY DEF SignersCovered
<1>7. OverdueIsIdle'
  BY <1>0 DEF OverdueIsIdle
<1>8. RetiredForActive'
  BY <1>0 DEF RetiredForActive, Replaced
<1>9. SignerRemains'
  BY DEF SignerRemains, Public, Active, WithStatus
<1> QED BY <1>1, <1>2, <1>3, <1>4, <1>5, <1>6, <1>7, <1>8, <1>9

\* A replica has made a key, which it is about to save.
LEMMA Generating ==
  ASSUME KInv, MaxKeys \in Nat, ActiveKeyMaxAge \in Nat \ {0},
         NEW r \in Replicas, NEW pc \in {"boot", "save"}, NEW old \in 0 .. MaxKeys,
         old # 0 => old \in Active /\ Aged(old),
         Generate(r, pc, old),
         UNCHANGED <<now, keys, signer, tokens, upsets, overlaps>>
  PROVE  KInv'
<1> USE DEF KInv, KeysSound
<1> DEFINE x == [pc |-> pc, kid |-> made + 1, old |-> old, todo |-> {}]
<1>a. made + 1 \in Kids /\ made' = made + 1 /\ made \in Nat
  BY DEF Generate, TypeOK, Kids
<1>0. /\ x \in ReplicaState
      /\ replica' \in [Replicas -> ReplicaState]
      /\ replica'[r] = x /\ \A s \in Replicas \ {r} : replica'[s] = replica[s]
  <2>1. x \in ReplicaState
    BY <1>a DEF ReplicaState, Kids
  <2> QED BY <2>1 DEF At, TypeOK, Generate
<1>b. x.pc = pc /\ x.kid = made + 1 /\ x.old = old /\ x.todo = {}
  OBVIOUS
<1> HIDE DEF x
<1>c. old <= made
  <2>1. CASE old = 0
    BY <2>1, <1>a
  <2>2. CASE old # 0
    <3>1. old \in Kids /\ keys[old] # NoKey
      BY <2>2 DEF Active, WithStatus, NoKey
    <3> QED BY <3>1, <1>a DEF RowsKnown, Kids
  <2> QED BY <2>1, <2>2
<1>1. TypeOK'
  BY <1>0, <1>a DEF TypeOK, Kids
<1>2. RowsKnown'
  BY <1>a DEF RowsKnown, Kids
<1>d. \A s \in Replicas : s # r /\ Pending(s) => replica[s].kid <= made
  BY DEF PendingIsNew, Pending, Kids
<1>e. \A s \in Replicas : made + 1 # replica[s].old /\ made + 1 \notin replica[s].todo
  BY <1>a DEF HeldIsOld, TypeOK, ReplicaState
<1>f. keys[made + 1] = NoKey
  BY <1>a DEF RowsKnown
<1>g. \A s \in Replicas : Pending(s) => replica[s].kid # old
  <2> SUFFICES ASSUME NEW s \in Replicas, Pending(s), old # 0 PROVE replica[s].kid # old
    BY DEF PendingIsNew
  <2>1. keys[replica[s].kid] = NoKey
    BY DEF PendingIsNew
  <2>2. keys[old].status = "active"
    BY DEF Active, WithStatus
  <2> QED BY <2>1, <2>2 DEF NoKey
<1>3. PendingIsNew'
  <2> SUFFICES ASSUME NEW q \in Replicas, Pending(q)'
      PROVE  /\ replica'[q].kid \in 1 .. made'
             /\ keys'[replica'[q].kid] = NoKey
             /\ \A s \in Replicas :
                  /\ s # q /\ Pending(s)' => replica'[s].kid # replica'[q].kid
                  /\ replica'[q].kid \notin replica'[s].todo
                  /\ replica'[q].kid # replica'[s].old
    BY DEF PendingIsNew
  <2>1. CASE q = r
    <3>1. replica'[q].kid = made + 1
      BY <2>1, <1>0, <1>b
    <3>2. ASSUME NEW s \in Replicas, s # q PROVE
            /\ Pending(s)' => replica'[s].kid # made + 1
            /\ made + 1 \notin replica'[s].todo /\ made + 1 # replica'[s].old
      <4>1. replica'[s] = replica[s]
        BY <3>2, <2>1, <1>0
      <4>2. Pending(s)' => replica[s].kid <= made
        BY <4>1, <3>2, <2>1, <1>d DEF Pending
      <4>3. replica[s].kid \in 0 .. MaxKeys
        BY DEF TypeOK, ReplicaState
      <4> QED BY <4>1, <4>2, <4>3, <1>e, <1>a
    <3>3. made + 1 \notin replica'[r].todo /\ made + 1 # replica'[r].old
      BY <1>0, <1>b, <1>c, <1>a
    <3> QED BY <3>1, <3>2, <3>3, <2>1, <1>a, <1>f
  <2>2. CASE q # r
    <3>1. replica'[q] = replica[q] /\ Pending(q)
      BY <2>2, <1>0 DEF Pending
    <3>2. /\ replica[q].kid \in 1 .. made /\ keys[replica[q].kid] = NoKey
          /\ replica[q].kid # old
      BY <3>1, <1>g DEF PendingIsNew
    <3>3. ASSUME NEW s \in Replicas PROVE
            /\ s # q /\ Pending(s)' => replica'[s].kid # replica[q].kid
            /\ replica[q].kid \notin replica'[s].todo
            /\ replica[q].kid # replica'[s].old
      <4>1. CASE s = r
        BY <4>1, <1>0, <1>b, <3>2, <1>a
      <4>2. CASE s # r
        <5>1. replica'[s] = replica[s] /\ (Pending(s)' => Pending(s))
          BY <4>2, <1>0 DEF Pending
        <5> QED BY <5>1, <3>1 DEF PendingIsNew
      <4> QED BY <4>1, <4>2
    <3> QED BY <3>1, <3>2, <3>3, <1>a
  <2> QED BY <2>1, <2>2
<1>4. HeldIsOld'
  <2> SUFFICES ASSUME NEW s \in Replicas
      PROVE  replica'[s].old <= made' /\ \A k \in replica'[s].todo : k <= made'
    BY DEF HeldIsOld
  <2>1. CASE s = r
    BY <2>1, <1>0, <1>a, <1>b, <1>c
  <2>2. CASE s # r
    <3>1. replica[s].old \in 0 .. MaxKeys /\ replica[s].todo \subseteq Kids
      BY DEF TypeOK, ReplicaState
    <3> QED BY <2>2, <3>1, <1>0, <1>a DEF HeldIsOld, Kids
  <2> QED BY <2>1, <2>2
<1>5. TokensCovered'
  BY DEF TokensCovered
<1>6. SignersCovered'
  BY DEF SignersCovered
<1>7. OverdueIsIdle'
  BY <1>0, <1>b DEF OverdueIsIdle
<1>8. RetiredForActive'
  <2>1. old # 0 => keys[old].created < now
    BY DEF Active, WithStatus, Aged, TypeOK, Row, Kids
  <2> QED BY <2>1, <1>0, <1>b DEF RetiredForActive, Replaced
<1>9. SignerRemains'
  BY DEF SignerRemains, Public, Active, WithStatus
<1> QED BY <1>1, <1>2, <1>3, <1>4, <1>5, <1>6, <1>7, <1>8, <1>9

---------------------------------------------------------------------------
(***************************************************************************)
(* The steps that change the table.                                        *)
(***************************************************************************)
\* The new key is active, and nobody has had anything to do with it.
LEMMA Saving ==
  ASSUME KInv, MaxKeys \in Nat, NEW r \in Replicas, Save(r)
  PROVE  KInv'
<1> USE DEF KInv, KeysSound
<1> DEFINE k == replica[r].kid
           x == AfterSave(r)
<1>a. /\ k \in Kids /\ k \in 1 .. made /\ keys[k] = NoKey /\ Pending(r)
      /\ replica[r] \in ReplicaState /\ made \in 0 .. MaxKeys
  BY DEF Save, Pending, PendingIsNew, TypeOK, Kids
<1>b. /\ x \in ReplicaState /\ x.pc \in {"idle", "expire", "retire"}
      /\ x.old \in {0, replica[r].old} /\ x.todo \subseteq replica[r].todo
      /\ x.pc = "retire" => x.kid = k /\ x.old = replica[r].old /\ x.old # 0
  BY <1>a DEF Save, AfterSave, Idle, ReplicaState
<1>0. /\ replica' \in [Replicas -> ReplicaState]
      /\ replica'[r] = x /\ \A s \in Replicas \ {r} : replica'[s] = replica[s]
  BY <1>b DEF At, TypeOK, Save
<1> HIDE DEF x
<1>c. NewRow \in Row /\ NewRow.status = "active" /\ NewRow.created = now
  BY DEF NewRow, Row, TypeOK
<1>d. /\ keys' \in [Kids -> Row] /\ keys'[k] = NewRow
      /\ \A j \in Kids \ {k} : keys'[j] = keys[j]
  BY <1>a, <1>c DEF Save, TypeOK
<1>e. UNCHANGED <<now, made, signer, tokens, upsets>> /\ overlaps' \in Nat
  BY DEF Save, TypeOK
<1>f. keys[k].status = "none"
  BY <1>a DEF NoKey
<1> HIDE DEF k
<1>1. TypeOK'
  BY <1>0, <1>d, <1>e DEF TypeOK
<1>2. RowsKnown'
  <2>1. ASSUME NEW j \in Kids, j > made' \/ keys'[j].status = "none" PROVE keys'[j] = NoKey
    BY <2>1, <1>a, <1>c, <1>d, <1>e DEF RowsKnown
  <2>2. ASSUME NEW j \in Kids, keys'[j].status = "retiring" PROVE keys'[j].retired \in Nat
    BY <2>2, <1>c, <1>d DEF RowsKnown
  <2> QED BY <2>1, <2>2 DEF RowsKnown
<1>3. PendingIsNew'
  <2> SUFFICES ASSUME NEW q \in Replicas, Pending(q)'
      PROVE  /\ replica'[q].kid \in 1 .. made'
             /\ keys'[replica'[q].kid] = NoKey
             /\ \A s \in Replicas :
                  /\ s # q /\ Pending(s)' => replica'[s].kid # replica'[q].kid
                  /\ replica'[q].kid \notin replica'[s].todo
                  /\ replica'[q].kid # replica'[s].old
    BY DEF PendingIsNew
  <2>1. q # r /\ replica'[q] = replica[q] /\ Pending(q)
    BY <1>0, <1>b DEF Pending
  <2>2. /\ replica[q].kid \in 1 .. made /\ keys[replica[q].kid] = NoKey
        /\ replica[q].kid # k
    BY <2>1, <1>a DEF PendingIsNew, k
  <2>3. replica[q].kid \in Kids
    BY <2>2, <1>a DEF Kids
  <2>4. replica[q].kid # 0
    BY <2>2
  <2>5. ASSUME NEW s \in Replicas PROVE
            /\ s # q /\ Pending(s)' => replica'[s].kid # replica[q].kid
            /\ replica[q].kid \notin replica'[s].todo
            /\ replica[q].kid # replica'[s].old
    <3>1. CASE s = r
      BY <3>1, <1>0, <1>b, <2>1, <2>4 DEF PendingIsNew, Pending
    <3>2. CASE s # r
      BY <3>2, <1>0, <2>1 DEF PendingIsNew, Pending
    <3> QED BY <3>1, <3>2
  <2> QED BY <2>1, <2>2, <2>3, <2>5, <1>d, <1>e
<1>4. HeldIsOld'
  <2> SUFFICES ASSUME NEW s \in Replicas
      PROVE  replica'[s].old <= made' /\ \A j \in replica'[s].todo : j <= made'
    BY DEF HeldIsOld
  <2>1. CASE s = r
    BY <2>1, <1>0, <1>a, <1>b, <1>e DEF HeldIsOld
  <2>2. CASE s # r
    BY <2>2, <1>0, <1>e DEF HeldIsOld
  <2> QED BY <2>1, <2>2
<1>5. TokensCovered'
  <2>1. ASSUME NEW t \in tokens PROVE t.kid \in Kids \ {k}
    BY <1>f DEF TokensCovered, TypeOK
  <2> QED BY <2>1, <1>d, <1>e DEF TokensCovered
<1>6. SignersCovered'
  <2>1. ASSUME NEW c \in Callers, signer[c] # 0 PROVE signer[c] \in Kids \ {k}
    <3>1. signer[c] \in Kids
      BY <2>1 DEF TypeOK, Kids
    <3> QED BY <2>1, <3>1, <1>f DEF SignersCovered
  <2> QED BY <2>1, <1>d, <1>e DEF SignersCovered
<1>7. OverdueIsIdle'
  <2> SUFFICES ASSUME NEW s \in Replicas, NEW j \in replica'[s].todo
      PROVE  /\ keys'[j].status # "active"
             /\ \A t \in tokens' : t.kid # j
             /\ \A c \in Callers : signer'[c] # j
    BY DEF OverdueIsIdle
  <2>1. j \in replica[s].todo
    BY <1>0, <1>b
  <2>2. j \in Kids /\ j # k
    BY <2>1, <1>a DEF PendingIsNew, k, TypeOK, ReplicaState
  <2> QED BY <2>1, <2>2, <1>d, <1>e DEF OverdueIsIdle
<1>8. RetiredForActive'
  <2> SUFFICES ASSUME NEW s \in Replicas
      PROVE  /\ Replaced(s)'
             /\ replica'[s].pc = "retire" =>
                  /\ replica'[s].kid \in Kids /\ replica'[s].old # 0
                  /\ keys'[replica'[s].kid].status = "active"
                  /\ keys'[replica'[s].kid].created = now'
    BY DEF RetiredForActive
  <2>1. replica'[s].old \in {0, replica[s].old}
    BY <1>0, <1>b
  <2>2. replica[s].old # k /\ replica[s].old \in Kids \cup {0}
    BY <1>a DEF PendingIsNew, k, TypeOK, ReplicaState, Kids
  <2>3. Replaced(s)'
    BY <2>1, <2>2, <1>d, <1>e DEF RetiredForActive, Replaced
  <2>4. CASE s = r
    BY <2>3, <2>4, <1>0, <1>a, <1>b, <1>c, <1>d, <1>e
  <2>5. CASE s # r
    <3>1. replica'[s] = replica[s]
      BY <2>5, <1>0
    <3>2. ASSUME replica[s].pc = "retire" PROVE replica[s].kid \in Kids \ {k}
      BY <3>2, <1>f DEF RetiredForActive
    <3> QED BY <2>3, <3>1, <3>2, <1>d, <1>e DEF RetiredForActive
  <2> QED BY <2>4, <2>5
<1>9. SignerRemains'
  BY <1>a, <1>c, <1>d DEF SignerRemains, Public, Active, WithStatus
<1> QED BY <1>1, <1>2, <1>3, <1>4, <1>5, <1>6, <1>7, <1>8, <1>9

\* The key that is retired is older than the one that replaces it, which stays.
LEMMA Retiring ==
  ASSUME KInv, MaxKeys \in Nat, TokenTTL \in Nat,
         NEW r \in Replicas, Retire(r), keys[replica[r].old] # NoKey
  PROVE  KInv'
<1> USE DEF KInv, KeysSound
<1> DEFINE k == replica[r].old
           x == [Idle EXCEPT !.pc = "expire"]
<1>x. /\ x \in ReplicaState /\ x.pc = "expire" /\ x.old = 0 /\ x.todo = {}
  BY DEF Idle, ReplicaState
<1>0. /\ replica' \in [Replicas -> ReplicaState]
      /\ replica'[r] = x /\ \A s \in Replicas \ {r} : replica'[s] = replica[s]
  BY <1>x DEF At, TypeOK, Retire
<1> HIDE DEF x
<1>a. /\ replica[r].pc = "retire" /\ k \in Kids /\ k <= made
      /\ keys[k] \in Row /\ keys[k].status # "none" /\ keys[k].created < now
  <2>1. replica[r].pc = "retire" /\ k # 0 /\ k \in Kids
    BY DEF Retire, RetiredForActive, TypeOK, ReplicaState, Kids
  <2> QED BY <2>1 DEF RetiredForActive, Replaced, HeldIsOld, RowsKnown, TypeOK
<1>b. PICK other \in Kids \ {k} : keys[other].status = "active"
  <2>1. /\ replica[r].kid \in Kids /\ keys[replica[r].kid].status = "active"
        /\ keys[replica[r].kid].created = now
    BY <1>a DEF RetiredForActive
  <2>2. now \in Nat
    BY DEF TypeOK
  <2>3. replica[r].kid # k
    BY <1>a, <2>1, <2>2
  <2> QED BY <2>1, <2>3
<1>c. /\ Retired(k) \in Row /\ Retired(k).status = "retiring"
      /\ Retired(k).retired = now /\ Retired(k).created = keys[k].created
  BY <1>a DEF Retired, Row, TypeOK
<1>d. /\ keys' \in [Kids -> Row] /\ keys'[k] = Retired(k)
      /\ \A i \in Kids \ {k} : keys'[i] = keys[i]
  BY <1>a, <1>c DEF Retire, TypeOK
<1>e. UNCHANGED <<now, made, signer, tokens, upsets, overlaps>>
  BY DEF Retire
<1>f. now \in Nat /\ made \in Nat
  BY DEF TypeOK
<1> HIDE DEF k
<1>1. TypeOK'
  BY <1>0, <1>d, <1>e DEF TypeOK
<1>2. RowsKnown'
  <2>1. ASSUME NEW i \in Kids, i > made' \/ keys'[i].status = "none" PROVE keys'[i] = NoKey
    BY <2>1, <1>a, <1>c, <1>d, <1>e, <1>f DEF RowsKnown, Kids
  <2>2. ASSUME NEW i \in Kids, keys'[i].status = "retiring" PROVE keys'[i].retired \in Nat
    BY <2>2, <1>c, <1>d, <1>f DEF RowsKnown
  <2> QED BY <2>1, <2>2 DEF RowsKnown
<1>3. PendingIsNew'
  <2> SUFFICES ASSUME NEW q \in Replicas, Pending(q)'
      PROVE  /\ replica'[q].kid \in 1 .. made'
             /\ keys'[replica'[q].kid] = NoKey
             /\ \A s \in Replicas :
                  /\ s # q /\ Pending(s)' => replica'[s].kid # replica'[q].kid
                  /\ replica'[q].kid \notin replica'[s].todo
                  /\ replica'[q].kid # replica'[s].old
    BY DEF PendingIsNew
  <2>1. q # r /\ replica'[q] = replica[q] /\ Pending(q)
    BY <1>0, <1>x DEF Pending
  <2>2. /\ replica[q].kid \in 1 .. made /\ keys[replica[q].kid] = NoKey
        /\ replica[q].kid # k /\ replica[q].kid \in 0 .. MaxKeys
    BY <2>1 DEF PendingIsNew, k, TypeOK, ReplicaState
  <2>3. replica[q].kid \in Kids /\ replica[q].kid # 0
    BY <2>2, <1>f DEF Kids
  <2>4. ASSUME NEW s \in Replicas PROVE
            /\ s # q /\ Pending(s)' => replica'[s].kid # replica[q].kid
            /\ replica[q].kid \notin replica'[s].todo
            /\ replica[q].kid # replica'[s].old
    <3>1. CASE s = r
      BY <3>1, <1>0, <1>x, <2>3 DEF Pending
    <3>2. CASE s # r
      BY <3>2, <1>0, <2>1 DEF PendingIsNew, Pending
    <3> QED BY <3>1, <3>2
  <2> QED BY <2>1, <2>2, <2>3, <2>4, <1>d, <1>e
<1>4. HeldIsOld'
  <2> SUFFICES ASSUME NEW s \in Replicas
      PROVE  replica'[s].old <= made' /\ \A j \in replica'[s].todo : j <= made'
    BY DEF HeldIsOld
  <2>1. CASE s = r
    BY <2>1, <1>0, <1>x, <1>e, <1>f
  <2>2. CASE s # r
    BY <2>2, <1>0, <1>e DEF HeldIsOld
  <2> QED BY <2>1, <2>2
<1>5. TokensCovered'
  <2> SUFFICES ASSUME NEW t \in tokens
      PROVE  /\ t.exp > now /\ t.exp <= now + TokenTTL
             /\ \/ keys'[t.kid].status = "active"
                \/ keys'[t.kid].status = "retiring" /\ t.exp <= keys'[t.kid].retired + TokenTTL
    BY <1>e DEF TokensCovered
  <2>1. t.kid \in Kids
    BY DEF TypeOK
  <2>2. CASE t.kid = k
    BY <2>2, <1>c, <1>d DEF TokensCovered
  <2>3. CASE t.kid # k
    BY <2>1, <2>3, <1>d DEF TokensCovered
  <2> QED BY <2>2, <2>3
<1>6. SignersCovered'
  <2> SUFFICES ASSUME NEW c \in Callers, signer[c] # 0
      PROVE  \/ keys'[signer[c]].status = "active"
             \/ keys'[signer[c]].status = "retiring" /\ keys'[signer[c]].retired = now
    BY <1>e DEF SignersCovered
  <2>1. signer[c] \in Kids
    BY DEF TypeOK, Kids
  <2>2. CASE signer[c] = k
    BY <2>2, <1>c, <1>d
  <2>3. CASE signer[c] # k
    BY <2>1, <2>3, <1>d DEF SignersCovered
  <2> QED BY <2>2, <2>3
<1>7. OverdueIsIdle'
  <2> SUFFICES ASSUME NEW s \in Replicas, NEW j \in replica'[s].todo
      PROVE  /\ keys'[j].status # "active"
             /\ \A t \in tokens' : t.kid # j
             /\ \A c \in Callers : signer'[c] # j
    BY DEF OverdueIsIdle
  <2>1. j \in replica[s].todo
    BY <1>0, <1>x
  <2>2. j \in Kids
    BY <2>1 DEF TypeOK, ReplicaState
  <2> QED BY <2>1, <2>2, <1>c, <1>d, <1>e DEF OverdueIsIdle
<1>8. RetiredForActive'
  <2> SUFFICES ASSUME NEW s \in Replicas
      PROVE  /\ Replaced(s)'
             /\ replica'[s].pc = "retire" =>
                  /\ replica'[s].kid \in Kids /\ replica'[s].old # 0
                  /\ keys'[replica'[s].kid].status = "active"
                  /\ keys'[replica'[s].kid].created = now'
    BY DEF RetiredForActive
  <2>1. CASE s = r
    BY <2>1, <1>0, <1>x DEF Replaced
  <2>2. CASE s # r
    <3>1. replica'[s] = replica[s]
      BY <2>2, <1>0
    <3>2. replica[s].old \in Kids \cup {0}
      BY DEF TypeOK, ReplicaState, Kids
    <3>3. Replaced(s)'
      <4>1. CASE replica[s].old = k
        BY <4>1, <3>1, <1>a, <1>c, <1>d, <1>e DEF Replaced
      <4>2. CASE replica[s].old # k
        BY <4>2, <3>1, <3>2, <1>d, <1>e DEF Replaced, RetiredForActive
      <4> QED BY <4>1, <4>2
    <3>4. ASSUME replica[s].pc = "retire" PROVE replica[s].kid \in Kids \ {k}
      BY <3>4, <1>a, <1>f DEF RetiredForActive
    <3> QED BY <3>1, <3>3, <3>4, <1>d, <1>e DEF RetiredForActive
  <2> QED BY <2>1, <2>2
<1>9. SignerRemains'
  BY <1>b, <1>d DEF SignerRemains, Public, Active, WithStatus
<1> QED BY <1>1, <1>2, <1>3, <1>4, <1>5, <1>6, <1>7, <1>8, <1>9

\* What is listed as overdue has been retired for longer than a token lives.
LEMMA Listing ==
  ASSUME KInv, MaxKeys \in Nat, RetiringOverlap \in Nat, TokenTTL \in Nat \ {0},
         RetiringOverlap >= TokenTTL, NEW r \in Replicas, ExpireList(r)
  PROVE  KInv'
<1> USE DEF KInv, KeysSound
<1> DEFINE L == {k \in Kids : Overdue(k)}
           x == [pc |-> "prune", kid |-> 0, old |-> 0, todo |-> L]
<1>x. /\ x \in ReplicaState /\ x.pc = "prune" /\ x.old = 0 /\ x.todo = L
  <2>1. L \in SUBSET Kids
    OBVIOUS
  <2> HIDE DEF L
  <2> QED BY <2>1 DEF ReplicaState
<1>0. /\ replica' \in [Replicas -> ReplicaState]
      /\ replica'[r] = x /\ \A s \in Replicas \ {r} : replica'[s] = replica[s]
  BY <1>x DEF At, TypeOK, ExpireList
<1> HIDE DEF x
<1>a. UNCHANGED <<now, keys, made, signer, tokens, upsets, overlaps>>
  BY DEF ExpireList
<1>b. now \in Nat /\ made \in Nat
  BY DEF TypeOK
<1>c. ASSUME NEW k \in L
      PROVE  /\ k \in Kids /\ keys[k].status = "retiring" /\ k <= made
             /\ \A t \in tokens : t.kid # k
             /\ \A c \in Callers : signer[c] # k
  <2>1. /\ k \in Kids /\ keys[k].status = "retiring" /\ keys[k].retired \in Nat
        /\ now - keys[k].retired >= RetiringOverlap
    BY DEF Overdue, RowsKnown
  <2>2. k <= made
    BY <2>1, <1>b DEF RowsKnown, NoKey, Kids
  <2>3. ASSUME NEW t \in tokens, t.kid = k PROVE FALSE
    <3>1. t.exp > now /\ t.exp <= keys[k].retired + TokenTTL /\ t.exp \in Nat
      BY <2>1, <2>3 DEF TokensCovered, TypeOK
    <3> QED BY <3>1, <2>1, <1>b
  <2>4. ASSUME NEW c \in Callers, signer[c] = k PROVE FALSE
    <3>1. keys[k].retired = now
      BY <2>1, <2>4 DEF SignersCovered, Kids
    <3> QED BY <3>1, <2>1, <1>b
  <2> QED BY <2>1, <2>2, <2>3, <2>4
<1> HIDE DEF L
<1>1. TypeOK'
  BY <1>0, <1>a DEF TypeOK
<1>2. RowsKnown'
  BY <1>a DEF RowsKnown
<1>3. PendingIsNew'
  <2> SUFFICES ASSUME NEW q \in Replicas, Pending(q)'
      PROVE  /\ replica'[q].kid \in 1 .. made'
             /\ keys'[replica'[q].kid] = NoKey
             /\ \A s \in Replicas :
                  /\ s # q /\ Pending(s)' => replica'[s].kid # replica'[q].kid
                  /\ replica'[q].kid \notin replica'[s].todo
                  /\ replica'[q].kid # replica'[s].old
    BY DEF PendingIsNew
  <2>1. q # r /\ replica'[q] = replica[q] /\ Pending(q)
    BY <1>0, <1>x DEF Pending
  <2>2. /\ replica[q].kid \in 1 .. made /\ keys[replica[q].kid] = NoKey
        /\ replica[q].kid # 0
    BY <2>1, <1>b DEF PendingIsNew
  <2>3. replica[q].kid \notin L
    BY <2>2, <1>c DEF NoKey
  <2>4. ASSUME NEW s \in Replicas PROVE
            /\ s # q /\ Pending(s)' => replica'[s].kid # replica[q].kid
            /\ replica[q].kid \notin replica'[s].todo
            /\ replica[q].kid # replica'[s].old
    <3>1. CASE s = r
      BY <3>1, <1>0, <1>x, <2>2, <2>3 DEF Pending
    <3>2. CASE s # r
      BY <3>2, <1>0, <2>1 DEF PendingIsNew, Pending
    <3> QED BY <3>1, <3>2
  <2> QED BY <2>1, <2>2, <2>4, <1>a
<1>4. HeldIsOld'
  <2> SUFFICES ASSUME NEW s \in Replicas
      PROVE  replica'[s].old <= made' /\ \A j \in replica'[s].todo : j <= made'
    BY DEF HeldIsOld
  <2>1. CASE s = r
    BY <2>1, <1>0, <1>x, <1>a, <1>b, <1>c
  <2>2. CASE s # r
    BY <2>2, <1>0, <1>a DEF HeldIsOld
  <2> QED BY <2>1, <2>2
<1>5. TokensCovered'
  BY <1>a DEF TokensCovered
<1>6. SignersCovered'
  BY <1>a DEF SignersCovered
<1>7. OverdueIsIdle'
  <2> SUFFICES ASSUME NEW s \in Replicas, NEW j \in replica'[s].todo
      PROVE  /\ keys[j].status # "active"
             /\ \A t \in tokens : t.kid # j
             /\ \A c \in Callers : signer[c] # j
    BY <1>a DEF OverdueIsIdle
  <2>1. CASE s = r
    BY <2>1, <1>0, <1>x, <1>c
  <2>2. CASE s # r
    BY <2>2, <1>0 DEF OverdueIsIdle
  <2> QED BY <2>1, <2>2
<1>8. RetiredForActive'
  BY <1>0, <1>x, <1>a DEF RetiredForActive, Replaced
<1>9. SignerRemains'
  BY <1>a DEF SignerRemains, Public, Active, WithStatus
<1> QED BY <1>1, <1>2, <1>3, <1>4, <1>5, <1>6, <1>7, <1>8, <1>9

\* Rows that leave the key set, where nobody depends on them, while a replica
\* goes on without a key to save or to retire.
Unused(k) ==
  /\ keys[k].status \notin {"active", "none"}
  /\ \A t \in tokens : t.kid # k
  /\ \A c \in Callers : signer[c] # k

LEMMA Leaving ==
  ASSUME KInv, MaxKeys \in Nat,
         NEW r \in Replicas, NEW x \in ReplicaState,
         x.pc \notin {"boot", "save", "retire"}, x.old \in {0, replica[r].old},
         x.todo \subseteq replica[r].todo, At(r, x),
         keys' \in [Kids -> Row],
         \A k \in Kids : keys'[k] # keys[k] =>
           /\ Unused(k)
           /\ \/ keys'[k] = NoKey
              \/ keys'[k].status = "expired" /\ keys'[k].created = keys[k].created,
         UNCHANGED <<now, made, signer, tokens, upsets, overlaps>>
  PROVE  KInv'
<1> USE DEF KInv, KeysSound
<1>0. /\ replica' \in [Replicas -> ReplicaState]
      /\ replica'[r] = x /\ \A s \in Replicas \ {r} : replica'[s] = replica[s]
  BY DEF At, TypeOK
<1>a. ASSUME NEW k \in Kids, ~ Unused(k) PROVE keys'[k] = keys[k]
  BY <1>a
<1>b. ASSUME NEW k \in Kids PROVE
        \/ keys'[k] = keys[k]
        \/ keys'[k] = NoKey
        \/ keys'[k].status = "expired" /\ keys'[k].created = keys[k].created
  OBVIOUS
<1>c. NoKey.status = "none"
  BY DEF NoKey
<1>d. made \in Nat
  BY DEF TypeOK
<1>1. TypeOK'
  BY <1>0 DEF TypeOK
<1>2. RowsKnown'
  <2>1. ASSUME NEW k \in Kids, k > made' \/ keys'[k].status = "none" PROVE keys'[k] = NoKey
    <3>1. CASE k > made'
      BY <3>1, <1>a, <1>c DEF RowsKnown, Unused
    <3>2. CASE keys'[k].status = "none"
      BY <3>2, <1>b DEF RowsKnown
    <3> QED BY <2>1, <3>1, <3>2
  <2>2. ASSUME NEW k \in Kids, keys'[k].status = "retiring" PROVE keys'[k].retired \in Nat
    BY <2>2, <1>b, <1>c DEF RowsKnown
  <2> QED BY <2>1, <2>2 DEF RowsKnown
<1>3. PendingIsNew'
  <2> SUFFICES ASSUME NEW q \in Replicas, Pending(q)'
      PROVE  /\ replica'[q].kid \in 1 .. made'
             /\ keys'[replica'[q].kid] = NoKey
             /\ \A s \in Replicas :
                  /\ s # q /\ Pending(s)' => replica'[s].kid # replica'[q].kid
                  /\ replica'[q].kid \notin replica'[s].todo
                  /\ replica'[q].kid # replica'[s].old
    BY DEF PendingIsNew
  <2>1. q # r /\ replica'[q] = replica[q] /\ Pending(q)
    BY <1>0 DEF Pending
  <2>2. /\ replica[q].kid \in 1 .. made /\ keys[replica[q].kid] = NoKey
        /\ replica[q].kid # 0 /\ replica[q].kid \in 0 .. MaxKeys
    BY <2>1, <1>d DEF PendingIsNew, TypeOK, ReplicaState
  <2>3. replica[q].kid \in Kids /\ ~ Unused(replica[q].kid)
    BY <2>2, <1>c, <1>d DEF Kids, Unused
  <2>4. ASSUME NEW s \in Replicas PROVE
            /\ s # q /\ Pending(s)' => replica'[s].kid # replica[q].kid
            /\ replica[q].kid \notin replica'[s].todo
            /\ replica[q].kid # replica'[s].old
    <3>1. CASE s = r
      BY <3>1, <1>0, <2>1, <2>2 DEF Pending, PendingIsNew
    <3>2. CASE s # r
      BY <3>2, <1>0, <2>1 DEF PendingIsNew, Pending
    <3> QED BY <3>1, <3>2
  <2> QED BY <2>1, <2>2, <2>3, <2>4, <1>a
<1>4. HeldIsOld'
  <2> SUFFICES ASSUME NEW s \in Replicas
      PROVE  replica'[s].old <= made /\ \A j \in replica'[s].todo : j <= made
    BY DEF HeldIsOld
  <2>1. CASE s = r
    BY <2>1, <1>0, <1>d DEF HeldIsOld
  <2>2. CASE s # r
    BY <2>2, <1>0 DEF HeldIsOld
  <2> QED BY <2>1, <2>2
<1>5. TokensCovered'
  <2>1. ASSUME NEW t \in tokens PROVE keys'[t.kid] = keys[t.kid]
    BY <1>a DEF Unused, TypeOK
  <2> QED BY <2>1 DEF TokensCovered
<1>6. SignersCovered'
  <2>1. ASSUME NEW c \in Callers, signer[c] # 0 PROVE keys'[signer[c]] = keys[signer[c]]
    <3>1. signer[c] \in Kids
      BY <2>1 DEF TypeOK, Kids
    <3> QED BY <3>1, <1>a DEF Unused
  <2> QED BY <2>1 DEF SignersCovered
<1>7. OverdueIsIdle'
  <2> SUFFICES ASSUME NEW s \in Replicas, NEW j \in replica'[s].todo
      PROVE  /\ keys'[j].status # "active"
             /\ \A t \in tokens : t.kid # j
             /\ \A c \in Callers : signer[c] # j
    BY DEF OverdueIsIdle
  <2>1. j \in replica[s].todo
    BY <1>0
  <2>2. j \in Kids
    BY <2>1 DEF TypeOK, ReplicaState
  <2> QED BY <2>1, <2>2, <1>b, <1>c DEF OverdueIsIdle
<1>8. RetiredForActive'
  <2> SUFFICES ASSUME NEW s \in Replicas
      PROVE  /\ Replaced(s)'
             /\ replica'[s].pc = "retire" =>
                  /\ replica'[s].kid \in Kids /\ replica'[s].old # 0
                  /\ keys'[replica'[s].kid].status = "active"
                  /\ keys'[replica'[s].kid].created = now
    BY DEF RetiredForActive
  <2>1. Replaced(s)'
    <3>1. Replaced(s) /\ replica'[s].old \in {0, replica[s].old}
      BY <1>0 DEF RetiredForActive
    <3>2. replica[s].old \in Kids \cup {0}
      BY DEF TypeOK, ReplicaState, Kids
    <3>3. CASE keys[replica[s].old].status = "none"
      BY <3>1, <3>2, <3>3, <1>a DEF Replaced, Unused
    <3>4. CASE keys[replica[s].old].status # "none"
      BY <3>1, <3>2, <3>4, <1>b, <1>c DEF Replaced
    <3> QED BY <3>3, <3>4
  <2>2. CASE s = r
    BY <2>1, <2>2, <1>0
  <2>3. CASE s # r
    <3>1. replica'[s] = replica[s]
      BY <2>3, <1>0
    <3>2. ASSUME replica[s].pc = "retire"
          PROVE  replica[s].kid \in Kids /\ keys'[replica[s].kid] = keys[replica[s].kid]
      BY <3>2, <1>a DEF RetiredForActive, Unused
    <3> QED BY <2>1, <3>1, <3>2 DEF RetiredForActive
  <2> QED BY <2>2, <2>3
<1>9. SignerRemains'
  <2>1. Active \subseteq Active'
    BY <1>a DEF Active, WithStatus, Unused
  <2>2. Public' \subseteq Public
    BY <1>b, <1>c DEF Public, WithStatus
  <2> QED BY <2>1, <2>2 DEF SignerRemains
<1> QED BY <1>1, <1>2, <1>3, <1>4, <1>5, <1>6, <1>7, <1>8, <1>9

LEMMA Expiring ==
  ASSUME KInv, MaxKeys \in Nat, NEW r \in Replicas, NEW k \in Kids, Expire(r, k),
         keys[k] # NoKey
  PROVE  KInv'
<1> DEFINE x == [replica[r] EXCEPT !.todo = @ \ {k}]
           row == [keys[k] EXCEPT !.status = "expired"]
<1>1. /\ x \in ReplicaState /\ x.pc \notin {"boot", "save", "retire"}
      /\ x.todo \subseteq replica[r].todo /\ x.old = replica[r].old
  BY DEF KInv, TypeOK, ReplicaState, Expire
<1>2. row \in Row /\ row.status = "expired" /\ row.created = keys[k].created
  BY DEF KInv, TypeOK, Row
<1>3. keys' = [keys EXCEPT ![k] = row] /\ At(r, x)
  BY DEF Expire
<1>4. Unused(k)
  BY DEF KInv, KeysSound, OverdueIsIdle, RowsKnown, Unused, Expire
<1> HIDE DEF x, row
<1>5. /\ keys' \in [Kids -> Row]
      /\ \A j \in Kids : keys'[j] # keys[j] => j = k /\ keys'[j] = row
  BY <1>2, <1>3 DEF KInv, TypeOK
<1>6. UNCHANGED <<now, made, signer, tokens, upsets, overlaps>>
  BY DEF Expire
<1> QED BY <1>1, <1>2, <1>3, <1>4, <1>5, <1>6, Leaving

LEMMA Pruning ==
  ASSUME KInv, MaxKeys \in Nat, NEW r \in Replicas, Prune(r)
  PROVE  KInv'
<1>1. /\ Idle \in ReplicaState /\ Idle.pc = "idle" /\ Idle.old = 0 /\ Idle.todo = {}
  BY DEF Idle, ReplicaState
<1>2. NoKey \in Row
  BY DEF NoKey, Row, KInv, TypeOK
<1>3. /\ keys' \in [Kids -> Row]
      /\ \A k \in Kids : keys'[k] # keys[k] => Prunable(k) /\ keys'[k] = NoKey
  BY <1>2 DEF Prune, KInv, TypeOK
<1>4. ASSUME NEW k \in Kids, Prunable(k) PROVE Unused(k)
  <2>1. keys[k].status = "expired"
    BY <1>4 DEF Prunable
  <2>2. ASSUME NEW c \in Callers PROVE signer[c] # k
    BY <2>1 DEF KInv, KeysSound, SignersCovered, Kids
  <2>3. ASSUME NEW t \in tokens PROVE t.kid # k
    BY <2>1 DEF KInv, KeysSound, TokensCovered
  <2> QED BY <2>1, <2>2, <2>3 DEF Unused
<1>5. At(r, Idle) /\ UNCHANGED <<now, made, signer, tokens, upsets, overlaps>>
  BY DEF Prune
<1> QED BY <1>1, <1>3, <1>4, <1>5, Leaving

---------------------------------------------------------------------------
(***************************************************************************)
(* The callers and the clock.                                              *)
(***************************************************************************)
LEMMA Minting ==
  ASSUME KInv, MaxKeys \in Nat, TokenTTL \in Nat \ {0}, NEW c \in Callers,
         GetActiveSigner(c) \/ Sign(c)
  PROVE  KInv'
<1> USE DEF KInv, KeysSound
<1>0. UNCHANGED <<now, keys, made, replica, upsets, overlaps>>
  BY DEF GetActiveSigner, Sign
<1>1. RowsKnown' /\ PendingIsNew' /\ HeldIsOld' /\ RetiredForActive' /\ SignerRemains'
  <2>1. RowsKnown'
    BY <1>0 DEF RowsKnown
  <2>2. PendingIsNew'
    BY <1>0 DEF PendingIsNew, Pending
  <2>3. HeldIsOld'
    BY <1>0 DEF HeldIsOld
  <2>4. RetiredForActive'
    BY <1>0 DEF RetiredForActive, Replaced
  <2>5. SignerRemains'
    BY <1>0 DEF SignerRemains, Public, Active, WithStatus
  <2> QED BY <2>1, <2>2, <2>3, <2>4, <2>5
<1>2. CASE GetActiveSigner(c)
  <2>1. PICK k \in SignerKeys : signer' = [signer EXCEPT ![c] = k] /\ tokens' = tokens
    BY <1>2 DEF GetActiveSigner
  <2>2. k \in Kids /\ keys[k].status = "active"
    BY DEF SignerKeys, IsLatest, Active, WithStatus
  <2>3. \A d \in Callers : signer'[d] = k \/ signer'[d] = signer[d]
    BY <2>1 DEF TypeOK
  <2>4. TypeOK'
    BY <1>0, <2>1, <2>2 DEF TypeOK, Kids
  <2>5. TokensCovered'
    BY <1>0, <2>1 DEF TokensCovered
  <2>6. SignersCovered'
    BY <1>0, <2>2, <2>3 DEF SignersCovered
  <2>7. OverdueIsIdle'
    BY <1>0, <2>1, <2>2, <2>3 DEF OverdueIsIdle
  <2> QED BY <1>1, <2>4, <2>5, <2>6, <2>7
<1>3. CASE Sign(c)
  <2> DEFINE u == [kid |-> signer[c], exp |-> now + TokenTTL]
  <2>1. /\ signer[c] \in Kids /\ signer[c] # 0
        /\ tokens' = tokens \cup {u} /\ signer' = [signer EXCEPT ![c] = 0]
    BY <1>3 DEF Sign, TypeOK, Kids
  <2>2. /\ now \in Nat /\ now + TokenTTL \in Nat /\ now + TokenTTL > now
        /\ u \in [kid : Kids, exp : Nat]
        /\ u.kid = signer[c] /\ u.exp = now + TokenTTL
    BY <2>1 DEF TypeOK
  <2> HIDE DEF u
  <2>3. \A d \in Callers : signer'[d] = 0 \/ signer'[d] = signer[d]
    BY <2>1 DEF TypeOK
  <2>4. TypeOK'
    <3>1. signer' \in [Callers -> 0 .. MaxKeys]
      <4>1. 0 \in 0 .. MaxKeys
        BY <2>1 DEF Kids
      <4> QED BY <4>1, <2>1 DEF TypeOK
    <3> QED BY <3>1, <1>0, <2>1, <2>2 DEF TypeOK
  <2>5. TokensCovered'
    <3>1. /\ u.exp > now /\ u.exp <= now + TokenTTL
          /\ \/ keys[u.kid].status = "active"
             \/ keys[u.kid].status = "retiring" /\ u.exp <= keys[u.kid].retired + TokenTTL
      BY <2>1, <2>2 DEF SignersCovered
    <3> QED BY <3>1, <1>0, <2>1 DEF TokensCovered
  <2>6. SignersCovered'
    BY <1>0, <2>3 DEF SignersCovered
  <2>7. OverdueIsIdle'
    <3> SUFFICES ASSUME NEW s \in Replicas, NEW j \in replica[s].todo
        PROVE  /\ keys[j].status # "active"
               /\ \A t \in tokens' : t.kid # j
               /\ \A d \in Callers : signer'[d] # j
      BY <1>0 DEF OverdueIsIdle
    <3>1. j \in Kids /\ j # 0
      BY DEF TypeOK, ReplicaState, Kids
    <3> QED BY <3>1, <2>1, <2>2, <2>3 DEF OverdueIsIdle
  <2> QED BY <1>1, <2>4, <2>5, <2>6, <2>7
<1> QED BY <1>2, <1>3

LEMMA Ticking ==
  ASSUME KInv, TokenTTL \in Nat, Tick
  PROVE  KInv'
<1> USE DEF KInv, KeysSound
<1>0. /\ UNCHANGED <<keys, made, replica, signer, upsets, overlaps>>
      /\ now \in Nat /\ now' = now + 1 /\ now' \in Nat
      /\ tokens' = {t \in tokens : t.exp > now + 1}
      /\ \A r \in Replicas : replica[r].pc = "idle"
      /\ \A c \in Callers : signer[c] = 0
  BY DEF Tick, TypeOK
<1>1. TypeOK'
  BY <1>0 DEF TypeOK
<1>2. RowsKnown'
  BY <1>0 DEF RowsKnown
<1>3. PendingIsNew'
  BY <1>0 DEF PendingIsNew, Pending
<1>4. HeldIsOld'
  BY <1>0 DEF HeldIsOld
<1>5. TokensCovered'
  <2> SUFFICES ASSUME NEW t \in tokens, t.exp > now + 1
      PROVE  /\ t.exp > now' /\ t.exp <= now' + TokenTTL
             /\ \/ keys[t.kid].status = "active"
                \/ keys[t.kid].status = "retiring" /\ t.exp <= keys[t.kid].retired + TokenTTL
    BY <1>0 DEF TokensCovered
  <2>1. t.exp \in Nat /\ t.exp <= now + TokenTTL
    BY DEF TokensCovered, TypeOK
  <2>2. t.exp > now' /\ t.exp <= now' + TokenTTL
    BY <2>1, <1>0
  <2> QED BY <2>2 DEF TokensCovered
<1>6. SignersCovered'
  BY <1>0 DEF SignersCovered
<1>7. OverdueIsIdle'
  BY <1>0 DEF OverdueIsIdle
<1>8. RetiredForActive'
  <2>1. ASSUME NEW r \in Replicas PROVE Replaced(r)'
    <3>1. CASE keys[replica[r].old].status = "none" \/ replica[r].old = 0
      BY <3>1, <1>0 DEF Replaced
    <3>2. CASE keys[replica[r].old].status # "none" /\ replica[r].old # 0
      <4>1. replica[r].old \in Kids /\ keys[replica[r].old].created < now
        BY <3>2 DEF RetiredForActive, Replaced, TypeOK, ReplicaState, Kids
      <4>2. keys[replica[r].old].created \in Nat
        BY <4>1 DEF TypeOK, Row
      <4>3. keys[replica[r].old].created < now'
        BY <4>1, <4>2, <1>0
      <4> QED BY <4>3, <1>0 DEF Replaced
    <3> QED BY <3>1, <3>2
  <2> QED BY <2>1, <1>0 DEF RetiredForActive
<1>9. SignerRemains'
  BY <1>0 DEF SignerRemains, Public, Active, WithStatus
<1> QED BY <1>1, <1>2, <1>3, <1>4, <1>5, <1>6, <1>7, <1>8, <1>9

---------------------------------------------------------------------------
(***************************************************************************)
(* The theorems.                                                           *)
(***************************************************************************)
LEMMA KInvStep ==
  ASSUME KInv, [Next]_vars
  PROVE  KInv'
<1>a. /\ MaxKeys \in Nat /\ RetiringOverlap \in Nat /\ ActiveKeyMaxAge \in Nat \ {0}
      /\ TokenTTL \in Nat \ {0} /\ RetiringOverlap >= TokenTTL
  BY SigningKeysAssumption
<1>b. upsets \in Nat /\ overlaps \in Nat
  BY DEF KInv, TypeOK
<1>c. /\ Idle \in ReplicaState /\ Idle.pc = "idle" /\ Idle.old = 0 /\ Idle.todo = {}
      /\ [Idle EXCEPT !.pc = "expire"] \in ReplicaState
      /\ [Idle EXCEPT !.pc = "expire"].pc = "expire"
      /\ [Idle EXCEPT !.pc = "expire"].old = 0 /\ [Idle EXCEPT !.pc = "expire"].todo = {}
  BY <1>a DEF Idle, ReplicaState
<1>1. ASSUME NEW r \in Replicas, Boot(r) PROVE KInv'
  <2>1. Generate(r, "boot", 0) /\ UNCHANGED <<now, keys, signer, tokens, upsets, overlaps>>
    BY <1>1 DEF Boot
  <2>2. 0 \in 0 .. MaxKeys
    BY <1>a
  <2> QED BY <2>1, <2>2, <1>a, Generating
<1>2. ASSUME NEW r \in Replicas, RotateStart(r) PROVE KInv'
  <2>1. CASE LatestActive = 0 \/ Aged(LatestActive)
    <3>1. LatestActive # 0 => LatestActive \in Active /\ LatestActive \in Kids
      BY <1>a, LatestIsActive DEF KInv, Active, WithStatus
    <3>2. LatestActive \in 0 .. MaxKeys /\ (LatestActive # 0 => Aged(LatestActive))
      BY <2>1, <3>1, <1>a DEF Kids
    <3>3. /\ Generate(r, "save", LatestActive)
          /\ UNCHANGED <<now, keys, signer, tokens, upsets, overlaps>>
      BY <1>2, <2>1 DEF RotateStart
    <3> QED BY <3>1, <3>2, <3>3, <1>a, Generating
  <2>2. CASE ~ (LatestActive = 0 \/ Aged(LatestActive))
    <3>1. /\ At(r, [Idle EXCEPT !.pc = "expire"]) /\ UNCHANGED Others
          /\ upsets' \in Nat /\ overlaps' \in Nat
      BY <1>2, <2>2, <1>b DEF RotateStart, Others
    <3> QED BY <3>1, <1>a, <1>c, Resting
  <2> QED BY <2>1, <2>2
<1>3. ASSUME NEW r \in Replicas, Retire(r) PROVE KInv'
  <2>1. CASE keys[replica[r].old] = NoKey
    <3>1. /\ At(r, Idle) /\ UNCHANGED Others /\ upsets' \in Nat /\ overlaps' \in Nat
      BY <1>3, <2>1, <1>b DEF Retire, Others
    <3> QED BY <3>1, <1>a, <1>c, Resting
  <2> QED BY <2>1, <1>3, <1>a, Retiring
<1>4. ASSUME NEW r \in Replicas, NEW k \in Kids, Expire(r, k) PROVE KInv'
  <2>1. CASE keys[k] = NoKey
    <3>1. /\ At(r, Idle) /\ UNCHANGED Others /\ upsets' \in Nat /\ overlaps' \in Nat
      BY <1>4, <2>1, <1>b DEF Expire, Others
    <3> QED BY <3>1, <1>a, <1>c, Resting
  <2> QED BY <2>1, <1>4, <1>a, Expiring
<1>5. ASSUME NEW r \in Replicas, Upset(r) PROVE KInv'
  <2>1. /\ At(r, Idle) /\ UNCHANGED Others /\ upsets' \in Nat /\ overlaps' \in Nat
    BY <1>5, <1>b DEF Upset, Others
  <2> QED BY <2>1, <1>a, <1>c, Resting
<1>6. ASSUME NEW r \in Replicas, Rotate(r) PROVE KInv'
  BY <1>6, <1>2, <1>3, <1>4, <1>a, Saving, Listing, Pruning DEF Rotate
<1>7. CASE UNCHANGED vars
  BY <1>7 DEF vars, KInv, TypeOK, KeysSound, RowsKnown, PendingIsNew, Pending, HeldIsOld,
    TokensCovered, SignersCovered, OverdueIsIdle, RetiredForActive, Replaced,
    SignerRemains, Public, Active, WithStatus
<1> QED BY <1>1, <1>5, <1>6, <1>7, <1>a, Minting, Ticking DEF Next

LEMMA KInvInit ==
  ASSUME Init
  PROVE  KInv
<1>1. MaxKeys \in Nat /\ 0 \in 0 .. MaxKeys /\ 0 \in Nat
  BY SigningKeysAssumption
<1>2. Idle \in ReplicaState /\ NoKey \in Row
  BY <1>1 DEF Idle, ReplicaState, NoKey, Row
<1>3. TypeOK
  BY <1>1, <1>2 DEF Init, TypeOK
<1>4. \A k \in Kids : keys[k] = NoKey /\ keys[k].status = "none"
  BY DEF Init, NoKey
<1>5. \A r \in Replicas :
        replica[r].pc = "idle" /\ replica[r].old = 0 /\ replica[r].todo = {}
  BY DEF Init, Idle
<1>6. KeysSound
  BY <1>1, <1>4, <1>5 DEF Init, KeysSound, RowsKnown, PendingIsNew, Pending, HeldIsOld,
    TokensCovered, SignersCovered, OverdueIsIdle, RetiredForActive, Replaced,
    SignerRemains, Public, WithStatus
<1> QED BY <1>3, <1>6 DEF KInv

\* The inductive invariant holds whichever replicas boot, rotate, fail or crash,
\* and in whichever order their statements reach the table.
THEOREM KeysHold == Spec => []KInv
  BY KInvInit, KInvStep, PTL DEF Spec

\* Whoever fetches the key set finds the key of every token that has not
\* expired: Rotate and ListPublic keep the promise of RetiringOverlap.
THEOREM PublishedWhileValid == Spec => []TokensVerify
<1>1. KInv => TokensVerify
  BY DEF KInv, KeysSound, TypeOK, TokensCovered, TokensVerify, Public, WithStatus
<1> QED BY <1>1, KeysHold, PTL

\* A rotation never leaves the server without an active key, so that
\* GetActiveSigner succeeds once EnsureInitialKey has.
THEOREM AlwaysASigner == Spec => []SignerRemains
<1>1. KInv => SignerRemains
  BY DEF KInv, KeysSound
<1> QED BY <1>1, KeysHold, PTL

---------------------------------------------------------------------------
(***************************************************************************)
(* Active keys that no rotation is about to retire.                        *)
(***************************************************************************)
InHand == {r \in Replicas : replica[r].pc = "retire"}
Replacing == {replica[r].old : r \in InHand}
Stray == Active \ Replacing

\* EnsureInitialKey replaces nothing, and there is one key too many for each
\* rotation that was cut short or overlapped with another.
StrayInv ==
  /\ \A r \in Replicas : replica[r].pc = "boot" => replica[r].old = 0
  /\ Cardinality(Stray) <= 1 + upsets + overlaps

LEMMA StrayFinite ==
  ASSUME MaxKeys \in Nat PROVE IsFiniteSet(Stray) /\ Cardinality(Stray) \in Nat
<1>1. IsFiniteSet(Kids) /\ Stray \in SUBSET Kids
  BY FS_Interval DEF Kids, Stray, Active, WithStatus
<1>2. IsFiniteSet(Stray)
  BY <1>1, FS_Subset
<1> QED BY <1>2, FS_CardinalityType

LEMMA NoneMore ==
  ASSUME TypeOK, MaxKeys \in Nat, Cardinality(Stray) <= 1 + upsets + overlaps,
         Stray' \subseteq Stray, UNCHANGED <<upsets, overlaps>>
  PROVE  Cardinality(Stray') <= 1 + upsets' + overlaps'
<1>1. Stray' \in SUBSET Stray
  OBVIOUS
<1>2. IsFiniteSet(Stray) /\ Cardinality(Stray) \in Nat
  BY StrayFinite
<1>3. Cardinality(Stray') <= Cardinality(Stray) /\ IsFiniteSet(Stray')
  BY <1>1, <1>2, FS_Subset
<1>4. Cardinality(Stray') \in Nat
  BY <1>3, FS_CardinalityType
<1> QED BY <1>2, <1>3, <1>4 DEF TypeOK

LEMMA OneMore ==
  ASSUME TypeOK, MaxKeys \in Nat, Cardinality(Stray) <= 1 + upsets + overlaps,
         NEW k, Stray' \subseteq Stray \cup {k},
         \/ upsets' = upsets + 1 /\ overlaps' = overlaps
         \/ upsets' = upsets /\ overlaps' = overlaps + 1
  PROVE  Cardinality(Stray') <= 1 + upsets' + overlaps'
<1>1. IsFiniteSet(Stray) /\ Cardinality(Stray) \in Nat
  BY StrayFinite
<1>2. IsFiniteSet(Stray \cup {k}) /\ Cardinality(Stray \cup {k}) <= Cardinality(Stray) + 1
      /\ Cardinality(Stray \cup {k}) \in Nat
  <2>1. IsFiniteSet(Stray \cup {k})
        /\ \/ Cardinality(Stray \cup {k}) = Cardinality(Stray)
           \/ Cardinality(Stray \cup {k}) = Cardinality(Stray) + 1
    BY <1>1, FS_AddElement
  <2>2. Cardinality(Stray \cup {k}) \in Nat
    BY <2>1, FS_CardinalityType
  <2> QED BY <1>1, <2>1, <2>2
<1>3. Stray' \in SUBSET (Stray \cup {k})
  OBVIOUS
<1>4. Cardinality(Stray') <= Cardinality(Stray \cup {k}) /\ IsFiniteSet(Stray')
  BY <1>2, <1>3, FS_Subset
<1>5. Cardinality(Stray') \in Nat
  BY <1>4, FS_CardinalityType
<1> QED BY <1>1, <1>2, <1>4, <1>5 DEF TypeOK

LEMMA OnlyOne ==
  ASSUME TypeOK, NEW k, Stray' \subseteq {k}, upsets' \in Nat, overlaps' \in Nat
  PROVE  Cardinality(Stray') <= 1 + upsets' + overlaps'
<1>1. IsFiniteSet({k}) /\ Cardinality({k}) = 1
  BY FS_Singleton
<1>2. Stray' \in SUBSET {k}
  OBVIOUS
<1>3. Cardinality(Stray') <= 1 /\ IsFiniteSet(Stray')
  BY <1>1, <1>2, FS_Subset
<1>4. Cardinality(Stray') \in Nat
  BY <1>3, FS_CardinalityType
<1> QED BY <1>3, <1>4

\* A step of a replica that neither was about to retire a key nor is.
LEMMA NoneInHand ==
  ASSUME TypeOK, MaxKeys \in Nat, StrayInv, NEW r \in Replicas, NEW x, At(r, x),
         replica[r].pc # "retire", x.pc # "retire", x.pc = "boot" => x.old = 0,
         Active' \subseteq Active, UNCHANGED <<upsets, overlaps>>
  PROVE  StrayInv'
<1>1. \A s \in Replicas : replica'[s] = IF s = r THEN x ELSE replica[s]
  BY DEF At, TypeOK
<1>2. InHand' = InHand
  BY <1>1 DEF InHand
<1>3. Replacing' = Replacing
  BY <1>1, <1>2 DEF Replacing, InHand
<1>4. Stray' \subseteq Stray
  BY <1>3 DEF Stray
<1>5. \A s \in Replicas : replica'[s].pc = "boot" => replica'[s].old = 0
  BY <1>1 DEF StrayInv
<1>6. Cardinality(Stray') <= 1 + upsets' + overlaps'
  BY <1>4, NoneMore DEF StrayInv
<1> QED BY <1>5, <1>6 DEF StrayInv

LEMMA StraySave ==
  ASSUME KInv, MaxKeys \in Nat, StrayInv, NEW r \in Replicas, Save(r) PROVE StrayInv'
<1> DEFINE old == replica[r].old
           kid == replica[r].kid
           x == AfterSave(r)
<1>0. TypeOK /\ replica[r] \in ReplicaState /\ old \in 0 .. MaxKeys
  BY DEF KInv, TypeOK, ReplicaState
<1>1. replica[r].pc \in {"boot", "save"} /\ keys' = [keys EXCEPT ![kid] = NewRow]
      /\ At(r, x) /\ UNCHANGED upsets
      /\ overlaps' = overlaps + (IF Active \subseteq {old} THEN 0 ELSE 1)
  BY DEF Save
<1>2. \A s \in Replicas : replica'[s] = IF s = r THEN x ELSE replica[s]
  BY <1>0, <1>1 DEF At, TypeOK
<1>3. Active' \subseteq Active \cup {kid}
  BY <1>0, <1>1 DEF Active, WithStatus, TypeOK
<1>4. replica[r].pc = "save" /\ old # 0 => x.pc = "retire" /\ x.old = old
  BY <1>0 DEF AfterSave, ReplicaState
<1>5. ~(replica[r].pc = "save" /\ old # 0) => x.pc \notin {"boot", "retire"}
  BY <1>1 DEF AfterSave, Idle
<1>6. x.pc # "boot"
  BY <1>4, <1>5
<1> HIDE DEF x, old, kid
<1>7. Replacing \subseteq Replacing'
  BY <1>1, <1>2 DEF Replacing, InHand
<1>8. \A s \in Replicas : replica'[s].pc = "boot" => replica'[s].old = 0
  BY <1>2, <1>6 DEF StrayInv
<1>9. Cardinality(Stray') <= 1 + upsets' + overlaps'
  <2>1. CASE ~(Active \subseteq {old})
    <3>1. Stray' \subseteq Stray \cup {kid}
      BY <1>3, <1>7 DEF Stray
    <3>2. upsets' = upsets /\ overlaps' = overlaps + 1
      BY <1>1, <2>1
    <3> QED BY <1>0, <3>1, <3>2, OneMore DEF StrayInv
  <2>2. CASE Active \subseteq {old}
    <3>1. upsets' \in Nat /\ overlaps' \in Nat
      BY <1>0, <1>1, <2>2 DEF TypeOK
    <3>2. Stray' \subseteq {kid}
      <4>1. CASE old = 0
        <5>1. 0 \notin Active
          BY DEF Active, WithStatus, Kids
        <5> QED BY <1>3, <2>2, <4>1, <5>1 DEF Stray
      <4>2. CASE old # 0
        <5>1. replica[r].pc = "save"
          BY <1>1, <4>2 DEF StrayInv, old
        <5>2. old \in Replacing'
          BY <1>2, <1>4, <4>2, <5>1 DEF Replacing, InHand
        <5> QED BY <1>3, <2>2, <5>2 DEF Stray
      <4> QED BY <4>1, <4>2
    <3> QED BY <1>0, <3>1, <3>2, OnlyOne
  <2> QED BY <2>1, <2>2
<1> QED BY <1>8, <1>9 DEF StrayInv

\* r leaves the key it was about to retire to others.
LEMMA StrayLeft ==
  ASSUME TypeOK, NEW r \in Replicas, NEW x, At(r, x), x.pc \notin {"boot", "retire"},
         StrayInv
  PROVE  /\ \A k \in Replacing : k = replica[r].old \/ k \in Replacing'
         /\ \A s \in Replicas : replica'[s].pc = "boot" => replica'[s].old = 0
<1>1. \A s \in Replicas : replica'[s] = IF s = r THEN x ELSE replica[s]
  BY DEF At, TypeOK
<1>2. \A k \in Replacing : k = replica[r].old \/ k \in Replacing'
  BY <1>1 DEF Replacing, InHand
<1> QED BY <1>1, <1>2 DEF StrayInv

LEMMA StrayRetire ==
  ASSUME KInv, MaxKeys \in Nat, StrayInv, NEW r \in Replicas, Retire(r) PROVE StrayInv'
<1> DEFINE old == replica[r].old
<1>0. TypeOK /\ UNCHANGED <<upsets, overlaps>>
  BY DEF KInv, Retire
<1>1. PICK x : At(r, x) /\ x.pc \notin {"boot", "retire"}
  BY DEF Retire, Idle
<1>2. Active' \subseteq Active /\ old \notin Active'
  <2>1. CASE keys[old] = NoKey
    <3>1. keys[old].status # "active" /\ keys' = keys
      BY <2>1 DEF NoKey, Retire
    <3> QED BY <3>1 DEF Active, WithStatus
  <2>2. CASE keys[old] # NoKey
    <3>1. keys' = [keys EXCEPT ![old] = Retired(old)]
      BY <2>2 DEF Retire
    <3>2. old \in Kids => keys[old] \in Row
      BY <1>0 DEF TypeOK
    <3>3. old \in Kids => Retired(old).status = "retiring"
      BY <3>2 DEF Retired, Row
    <3>4. \A k \in Kids : keys'[k] = IF k = old THEN Retired(old) ELSE keys[k]
      BY <1>0, <3>1 DEF TypeOK
    <3> HIDE DEF old
    <3> QED BY <3>3, <3>4 DEF Active, WithStatus
  <2> QED BY <2>1, <2>2
<1>3. /\ \A k \in Replacing : k = old \/ k \in Replacing'
      /\ \A s \in Replicas : replica'[s].pc = "boot" => replica'[s].old = 0
  BY <1>0, <1>1, StrayLeft
<1>4. Stray' \subseteq Stray
  BY <1>2, <1>3 DEF Stray
<1>5. Cardinality(Stray') <= 1 + upsets' + overlaps'
  BY <1>0, <1>4, NoneMore DEF StrayInv
<1> QED BY <1>3, <1>5 DEF StrayInv

LEMMA StrayUpset ==
  ASSUME KInv, MaxKeys \in Nat, StrayInv, NEW r \in Replicas, Upset(r) PROVE StrayInv'
<1>0. TypeOK /\ UNCHANGED <<keys, overlaps>> /\ upsets' = upsets + 1
  BY DEF KInv, Upset
<1>1. At(r, Idle) /\ Idle.pc \notin {"boot", "retire"}
  BY DEF Upset, Idle
<1>2. Active' = Active
  BY <1>0 DEF Active, WithStatus
<1>3. /\ \A k \in Replacing : k = replica[r].old \/ k \in Replacing'
      /\ \A s \in Replicas : replica'[s].pc = "boot" => replica'[s].old = 0
  BY <1>0, <1>1, StrayLeft
<1>4. Stray' \subseteq Stray \cup {replica[r].old}
  BY <1>2, <1>3 DEF Stray
<1>5. Cardinality(Stray') <= 1 + upsets' + overlaps'
  BY <1>0, <1>4, OneMore DEF StrayInv
<1> QED BY <1>3, <1>5 DEF StrayInv

LEMMA StrayQuiet ==
  ASSUME StrayInv, TypeOK, MaxKeys \in Nat, UNCHANGED <<keys, replica, upsets, overlaps>>
  PROVE  StrayInv'
BY DEF StrayInv, Stray, Active, WithStatus, Replacing, InHand

LEMMA StrayRotation ==
  ASSUME KInv, MaxKeys \in Nat, StrayInv, NEW r \in Replicas, Boot(r) \/ Rotate(r)
  PROVE  StrayInv'
<1>0. TypeOK
  BY DEF KInv
<1>1. ASSUME Boot(r) PROVE StrayInv'
  <2> DEFINE x == [pc |-> "boot", kid |-> made + 1, old |-> 0, todo |-> {}]
  <2>1. At(r, x) /\ x.pc = "boot" /\ x.old = 0 /\ replica[r].pc = "idle"
        /\ UNCHANGED <<keys, upsets, overlaps>>
    BY <1>1 DEF Boot, Generate
  <2>2. Active' = Active
    BY <2>1 DEF Active, WithStatus
  <2> HIDE DEF x
  <2> QED BY <1>0, <2>1, <2>2, NoneInHand
<1>2. ASSUME RotateStart(r) PROVE StrayInv'
  <2>1. replica[r].pc = "idle" /\ UNCHANGED <<keys, upsets, overlaps>>
    BY <1>2 DEF RotateStart
  <2>2. PICK x : At(r, x) /\ x.pc \in {"save", "expire"}
    BY <1>2 DEF RotateStart, Generate, Idle
  <2>3. Active' = Active
    BY <2>1 DEF Active, WithStatus
  <2> QED BY <1>0, <2>1, <2>2, <2>3, NoneInHand
<1>3. ASSUME ExpireList(r) PROVE StrayInv'
  <2> DEFINE x == [pc |-> "prune", kid |-> 0, old |-> 0, todo |-> {k \in Kids : Overdue(k)}]
  <2>1. At(r, x) /\ x.pc = "prune" /\ replica[r].pc = "expire"
        /\ UNCHANGED <<keys, upsets, overlaps>>
    BY <1>3 DEF ExpireList
  <2>2. Active' = Active
    BY <2>1 DEF Active, WithStatus
  <2> HIDE DEF x
  <2> QED BY <1>0, <2>1, <2>2, NoneInHand
<1>4. ASSUME NEW k \in Kids, Expire(r, k) PROVE StrayInv'
  <2>1. replica[r].pc = "prune" /\ UNCHANGED <<upsets, overlaps>>
    BY <1>4 DEF Expire
  <2>2. PICK x : At(r, x) /\ x.pc \in {"idle", "prune"}
    <3>1. At(r, Idle) \/ At(r, [replica[r] EXCEPT !.todo = @ \ {k}])
      BY <1>4 DEF Expire
    <3>2. Idle.pc = "idle" /\ [replica[r] EXCEPT !.todo = @ \ {k}].pc = "prune"
      <4>1. replica[r] \in ReplicaState
        BY <1>0 DEF TypeOK
      <4> QED BY <2>1, <4>1 DEF Idle, ReplicaState
    <3> QED BY <3>1, <3>2
  <2>3. Active' \subseteq Active
    <3>1. CASE keys' = keys
      BY <3>1 DEF Active, WithStatus
    <3>2. CASE keys' = [keys EXCEPT ![k] = [@ EXCEPT !.status = "expired"]]
      <4>1. keys[k] \in Row
        BY <1>0 DEF TypeOK
      <4>2. [keys[k] EXCEPT !.status = "expired"].status = "expired"
        BY <4>1 DEF Row
      <4>3. \A j \in Kids : keys'[j] = IF j = k THEN [keys[k] EXCEPT !.status = "expired"]
                                       ELSE keys[j]
        BY <1>0, <3>2 DEF TypeOK
      <4> QED BY <4>2, <4>3 DEF Active, WithStatus
    <3> QED BY <1>4, <3>1, <3>2 DEF Expire
  <2> QED BY <1>0, <2>1, <2>2, <2>3, NoneInHand
<1>5. ASSUME Prune(r) PROVE StrayInv'
  <2>1. At(r, Idle) /\ Idle.pc = "idle" /\ replica[r].pc = "prune"
        /\ UNCHANGED <<upsets, overlaps>>
    BY <1>5 DEF Prune, Idle
  <2>2. Active' \subseteq Active
    BY <1>5 DEF Prune, Active, WithStatus, NoKey
  <2> QED BY <1>0, <2>1, <2>2, NoneInHand
<1> QED BY <1>1, <1>2, <1>3, <1>4, <1>5, StraySave, StrayRetire DEF Rotate

LEMMA StrayStep ==
  ASSUME KInv, StrayInv, [Next]_vars PROVE StrayInv'
<1>0. MaxKeys \in Nat
  BY SigningKeysAssumption
<1>1. CASE \E c \in Callers : GetActiveSigner(c) \/ Sign(c)
  BY <1>0, <1>1, StrayQuiet DEF GetActiveSigner, Sign, KInv
<1>2. CASE Tick
  BY <1>0, <1>2, StrayQuiet DEF Tick, KInv
<1>3. CASE UNCHANGED vars
  BY <1>0, <1>3, StrayQuiet DEF vars, KInv
<1> QED BY <1>0, <1>1, <1>2, <1>3, StrayRotation, StrayUpset DEF Next

LEMMA StrayStart ==
  ASSUME Init PROVE StrayInv
<1>1. \A k \in Kids : keys[k].status = "none"
  BY DEF Init, NoKey
<1>2. Stray = {}
  BY <1>1 DEF Stray, Active, WithStatus
<1>3. Cardinality(Stray) = 0 /\ upsets = 0 /\ overlaps = 0
  BY <1>2, FS_EmptySet DEF Init
<1>4. \A r \in Replicas : replica[r].old = 0
  BY DEF Init, Idle
<1> QED BY <1>3, <1>4 DEF StrayInv

LEMMA StrayIsAll ==
  ASSUME KInv, StrayInv PROVE StrayKeysBounded
<1>1. MaxKeys \in Nat /\ IsFiniteSet(Replicas)
  BY SigningKeysAssumption
<1>2. IsFiniteSet(InHand) /\ Cardinality(InHand) \in Nat
  <2>1. InHand \in SUBSET Replicas
    BY DEF InHand
  <2>2. IsFiniteSet(InHand)
    BY <1>1, <2>1, FS_Subset
  <2> QED BY <2>2, FS_CardinalityType
<1>3. IsFiniteSet(Replacing) /\ Cardinality(Replacing) <= Cardinality(InHand)
  <2> DEFINE f == [r \in InHand |-> replica[r].old]
  <2>1. f \in Surjection(InHand, Replacing)
    BY DEF Surjection, Replacing
  <2> HIDE DEF f
  <2> QED BY <1>2, <2>1, FS_Surjection
<1>4. IsFiniteSet(Stray) /\ Cardinality(Stray) \in Nat
  BY <1>1, StrayFinite
<1>5. Active \in SUBSET (Stray \cup Replacing)
  BY DEF Stray
<1>6. IsFiniteSet(Stray \cup Replacing)
      /\ Cardinality(Stray \cup Replacing)
           = Cardinality(Stray) + Cardinality(Replacing) - Cardinality(Stray \cap Replacing)
  BY <1>3, <1>4, FS_Union
<1>7. Cardinality(Active) <= Cardinality(Stray \cup Replacing) /\ IsFiniteSet(Active)
  BY <1>5, <1>6, FS_Subset
<1>8. IsFiniteSet(Stray \cap Replacing)
  BY <1>4, FS_Intersection
<1>9. Cardinality(Replacing) \in Nat /\ Cardinality(Stray \cap Replacing) \in Nat
      /\ Cardinality(Active) \in Nat /\ Cardinality(Stray \cup Replacing) \in Nat
  BY <1>3, <1>6, <1>7, <1>8, FS_CardinalityType
<1>10. Cardinality(Stray) <= 1 + upsets + overlaps /\ upsets \in Nat /\ overlaps \in Nat
  BY DEF KInv, TypeOK, StrayInv
<1>11. Cardinality(Active) <= 1 + upsets + overlaps + Cardinality(InHand)
  BY <1>2, <1>3, <1>4, <1>6, <1>7, <1>9, <1>10
<1> QED BY <1>11 DEF StrayKeysBounded, InHand

(* A rotation that runs to its end alone leaves one active key: every      *)
(* other is due to a failure, an overlap, or is about to be retired.       *)
THEOREM StraysAreBounded == Spec => []StrayKeysBounded
<1>1. Init => StrayInv
  BY StrayStart
<1>2. KInv /\ StrayInv /\ [Next]_vars => StrayInv'
  BY StrayStep
<1>3. KInv /\ StrayInv => StrayKeysBounded
  BY StrayIsAll
<1> QED BY <1>1, <1>2, <1>3, KeysHold, PTL DEF Spec

---------------------------------------------------------------------------
(***************************************************************************)
(* READING                                                                 *)
(*                                                                         *)
(* The cache of consumers, for any number of organisations, filters,       *)
(* clients and events: the counts agree with what they count, and what is  *)
(* in the cache is subscribed.                                             *)
(***************************************************************************)
\* The operators on finite sets that Streams and Ingest extend are those of
\* this module.
LEMMA SameSets ==
  ASSUME NEW S
  PROVE  /\ Reading!Cardinality(S) = Cardinality(S) /\ Reading!IsFiniteSet(S) = IsFiniteSet(S)
         /\ Posting!IsFiniteSet(S) = IsFiniteSet(S)
BY DEF Reading!Cardinality, Cardinality, Reading!IsFiniteSet, Posting!IsFiniteSet, IsFiniteSet

\* A request that is about to subscribe has the consumer that is cached under
\* its name, and nobody else subscribes the same one.
Fresh(c) ==
  request[c].pc = "subscribe" =>
    /\ items[Reading!Name(c)] = request[c].id
    /\ ~consumer[request[c].id].idle
    /\ request[c].id \in overtaken \/ subs[Reading!Name(c)] = {}
    /\ \A d \in Clients \ {c} : request[d].pc = "subscribe" => request[d].id # request[c].id

\* A name without a consumer has no subscription left, but for the one that
\* the sweeper is about to remove; a consumer made meanwhile is overtaken.
\* Names do not share consumers.
Vacated(n) ==
  /\ \A m \in Reading!Names \ {n} : items[m] # 0 => items[m] # items[n]
  /\ items[n] = 0 /\ n \notin doomed => subs[n] = {}
  /\ n \in doomed /\ items[n] # 0 => items[n] \in overtaken

Cached(o)    == {n \in Reading!Names : n[1] = o /\ items[n] # 0}
Streamers(o) ==
  {c \in Clients : Ask[c].org = o /\ Reading!Streaming(c) /\ request[c].pc # "none"}

SInv ==
  /\ Reading!TypeOK
  /\ Reading!CountersAgree
  /\ Reading!SubscribedUnlessSwept
  /\ \A c \in Clients : Fresh(c)
  /\ \A n \in Reading!Names : Vacated(n)

LEMMA Limits ==
  ASSUME Reading!StreamsAssumption
  PROVE  MaxOrg \in Nat /\ MaxStreams \in Nat /\ BufferSize \in Nat /\ BufferSize > 0
BY DEF Reading!StreamsAssumption

LEMMA Asked ==
  ASSUME Reading!StreamsAssumption, NEW c \in Clients
  PROVE  Reading!Name(c) \in Reading!Names /\ Reading!Name(c)[1] = Ask[c].org
         /\ Ask[c].org \in Orgs
         /\ Ask[c].filter \in Filters /\ Reading!Streaming(c) \in BOOLEAN
BY DEF Reading!StreamsAssumption, Reading!Name, Reading!Names, Reading!Streaming

LEMMA Sized ==
  ASSUME Reading!StreamsAssumption, NEW o
  PROVE  /\ IsFiniteSet(Cached(o)) /\ IsFiniteSet(Streamers(o))
         /\ Cardinality(Cached(o)) \in Nat /\ Cardinality(Streamers(o)) \in Nat
<1>1. IsFiniteSet(Reading!Names)
  BY FS_Product, SameSets DEF Reading!StreamsAssumption, Reading!Names
<1>2. Cached(o) \in SUBSET Reading!Names /\ Streamers(o) \in SUBSET Clients
  BY DEF Cached, Streamers
<1>3. IsFiniteSet(Cached(o)) /\ IsFiniteSet(Streamers(o))
  BY <1>1, <1>2, FS_Subset, SameSets DEF Reading!StreamsAssumption
<1> QED BY <1>3, FS_CardinalityType

LEMMA Counted ==
  Reading!CountersAgree <=>
    \A o \in Orgs : /\ perOrg[o] = Cardinality(Cached(o)) /\ perOrg[o] <= MaxOrg
                    /\ open[o] = Cardinality(Streamers(o)) /\ open[o] <= MaxStreams
BY SameSets DEF Reading!CountersAgree, Cached, Streamers

LEMMA SInit == ASSUME Reading!StreamsAssumption, Reading!Init PROVE SInv
<1>1. consumer \in Seq(Reading!Consumer) /\ Len(consumer) = 0
  BY DEF Reading!Init
<1>2. Reading!TypeOK
  BY <1>1 DEF Reading!Init, Reading!TypeOK, Reading!Ids, Reading!NoRequest, Reading!RequestState
<1>3. \A o \in Orgs : Cached(o) = {} /\ Streamers(o) = {}
  BY DEF Reading!Init, Cached, Streamers, Reading!NoRequest
<1>4. Reading!CountersAgree
  <2>1. Cardinality({}) = 0 /\ 0 <= MaxOrg /\ 0 <= MaxStreams
    BY FS_EmptySet, Limits
  <2>2. \A o \in Orgs : perOrg[o] = 0 /\ open[o] = 0
    BY DEF Reading!Init
  <2> QED BY <1>3, <2>1, <2>2, Counted
<1> QED BY <1>2, <1>4 DEF Reading!Init, SInv, Reading!SubscribedUnlessSwept, Fresh, Vacated, Reading!NoRequest

---------------------------------------------------------------------------
\* A step that neither makes nor drops a consumer, nor opens or closes a stream.
LEMMA Quiet ==
  ASSUME SInv, Reading!TypeOK',
         UNCHANGED <<subs, items, perOrg, doomed, open, overtaken>>,
         \A c \in Clients :
           /\ request'[c].pc = "subscribe" <=> request[c].pc = "subscribe"
           /\ request[c].pc = "subscribe" => request'[c].id = request[c].id
           /\ request'[c].pc = "none" <=> request[c].pc = "none",
         \A i \in Reading!Ids : /\ consumer'[i].idle /\ ~consumer[i].idle
                        => \A c \in Clients : request[c].pc = "subscribe" => request[c].id # i
  PROVE  SInv'
<1>1. Reading!CountersAgree'
  <2>1. \A o \in Orgs : Streamers(o)' = Streamers(o) /\ Cached(o)' = Cached(o)
    BY DEF Streamers, Cached, Reading!Streaming
  <2> QED BY <2>1 DEF SInv, Reading!CountersAgree, Streamers, Cached
<1>2. Reading!SubscribedUnlessSwept'
  BY DEF SInv, Reading!SubscribedUnlessSwept
<1>3. ASSUME NEW c \in Clients PROVE Fresh(c)'
  <2>1. request[c].pc = "subscribe" => request[c].id \in Reading!Ids
    BY DEF SInv, Reading!TypeOK
  <2> QED BY <2>1 DEF SInv, Fresh, Reading!Name
<1>4. \A n \in Reading!Names : Vacated(n)'
  BY DEF SInv, Vacated
<1> QED BY <1>1, <1>2, <1>3, <1>4 DEF SInv

\* Another buffer for one consumer.
LEMMA Buffered ==
  ASSUME Reading!TypeOK, NEW i \in Reading!Ids, NEW b \in Seq(Events), Len(b) <= BufferSize,
         consumer' = [consumer EXCEPT ![i].buffer = b]
  PROVE  /\ consumer' \in Seq(Reading!Consumer) /\ Reading!Ids' = Reading!Ids
         /\ \A j \in Reading!Ids : consumer'[j].idle = consumer[j].idle
            /\ Len(consumer'[j].buffer) <= BufferSize
<1>1. consumer[i] \in Reading!Consumer /\ consumer \in Seq(Reading!Consumer)
  BY DEF Reading!TypeOK, Reading!Ids
<1> DEFINE y == [consumer[i] EXCEPT !.buffer = b]
<1>2. y \in Reading!Consumer /\ y.idle = consumer[i].idle /\ y.buffer = b
  BY <1>1 DEF Reading!Consumer
<1>3. consumer' = [consumer EXCEPT ![i] = y]
  BY <1>1 DEF Reading!Ids
<1> HIDE DEF y
<1>4. consumer' \in Seq(Reading!Consumer) /\ Reading!Ids' = Reading!Ids
  BY <1>1, <1>2, <1>3 DEF Reading!Ids
<1>5. consumer'[i] = y /\ \A j \in Reading!Ids \ {i} : consumer'[j] = consumer[j]
  BY <1>1, <1>3 DEF Reading!Ids
<1> QED BY <1>2, <1>4, <1>5 DEF Reading!TypeOK

\* Another idle flag.
LEMMA Flagged ==
  ASSUME Reading!TypeOK, NEW i \in Reading!Ids, NEW b \in BOOLEAN,
         consumer' = [consumer EXCEPT ![i].idle = b]
  PROVE  /\ consumer' \in Seq(Reading!Consumer) /\ Reading!Ids' = Reading!Ids
         /\ \A j \in Reading!Ids : /\ j # i => consumer'[j].idle = consumer[j].idle
                           /\ Len(consumer'[j].buffer) <= BufferSize
         /\ consumer'[i].idle = b
<1>1. consumer[i] \in Reading!Consumer /\ consumer \in Seq(Reading!Consumer)
  BY DEF Reading!TypeOK, Reading!Ids
<1> DEFINE y == [consumer[i] EXCEPT !.idle = b]
<1>2. y \in Reading!Consumer /\ y.idle = b /\ y.buffer = consumer[i].buffer
  BY <1>1 DEF Reading!Consumer
<1>3. consumer' = [consumer EXCEPT ![i] = y]
  BY <1>1 DEF Reading!Ids
<1> HIDE DEF y
<1>4. consumer' \in Seq(Reading!Consumer) /\ Reading!Ids' = Reading!Ids
  BY <1>1, <1>2, <1>3 DEF Reading!Ids
<1>5. consumer'[i] = y /\ \A j \in Reading!Ids \ {i} : consumer'[j] = consumer[j]
  BY <1>1, <1>3 DEF Reading!Ids
<1> QED BY <1>2, <1>4, <1>5 DEF Reading!TypeOK

LEMMA BusSafe ==
  ASSUME Reading!StreamsAssumption, SInv,
         \/ \E e \in Events : Reading!Publish(e)
         \/ \E d \in flight : Reading!Deliver(d[1], d[2])
  PROVE  SInv'
<1>1. ASSUME NEW e \in Events, Reading!Publish(e) PROVE SInv'
  <2>1. PICK d \in Reading!Deliveries(e) : flight' = flight \cup d
    BY <1>1 DEF Reading!Publish
  <2>2. d \subseteq Events \X Reading!Ids
    BY DEF Reading!Deliveries
  <2>3. Reading!TypeOK'
    BY <1>1, <2>1, <2>2 DEF SInv, Reading!TypeOK, Reading!Publish, Reading!cache, Reading!Ids
  <2> QED BY <1>1, <2>3, Quiet DEF Reading!Publish, Reading!cache
<1>2. ASSUME NEW d \in flight, Reading!Deliver(d[1], d[2]) PROVE SInv'
  <2>1. d[1] \in Events /\ d[2] \in Reading!Ids
    BY DEF SInv, Reading!TypeOK
  <2>2. /\ consumer' \in Seq(Reading!Consumer) /\ Reading!Ids' = Reading!Ids
        /\ \A j \in Reading!Ids : consumer'[j].idle = consumer[j].idle
            /\ Len(consumer'[j].buffer) <= BufferSize
    <3>1. CASE Reading!Fits(d[2])
      <4> DEFINE b == Append(consumer[d[2]].buffer, d[1])
      <4>0. consumer[d[2]] \in Reading!Consumer
        BY <2>1 DEF SInv, Reading!TypeOK, Reading!Ids
      <4>1. consumer[d[2]].buffer \in Seq(Events)
        BY <4>0 DEF Reading!Consumer
      <4>2. b \in Seq(Events) /\ Len(b) <= BufferSize
        BY <2>1, <3>1, <4>1, Limits DEF Reading!Fits
      <4>3. consumer' = [consumer EXCEPT ![d[2]].buffer = b]
        BY <1>2, <3>1 DEF Reading!Deliver
      <4> HIDE DEF b
      <4> QED BY <2>1, <4>2, <4>3, Buffered DEF SInv
    <3>2. CASE ~Reading!Fits(d[2])
      <4>1. consumer' = consumer
        BY <1>2, <3>2 DEF Reading!Deliver
      <4> QED BY <4>1 DEF SInv, Reading!TypeOK, Reading!Ids
    <3> QED BY <3>1, <3>2
  <2>3. Reading!TypeOK'
    BY <1>2, <2>2 DEF SInv, Reading!TypeOK, Reading!Deliver
  <2> QED BY <1>2, <2>2, <2>3, Quiet DEF Reading!Deliver
<1> QED BY <1>1, <1>2

---------------------------------------------------------------------------
\* What a request may become, and that a step of it keeps the types.
LEMMA RequestMoves ==
  ASSUME Reading!TypeOK, NEW c \in Clients, NEW r \in Reading!RequestState,
         r.pc \in {"subscribe", "read"} => r.id \in Reading!Ids',
         Reading!Ids \subseteq Reading!Ids',
         request' = [request EXCEPT ![c] = r]
  PROVE  /\ request' \in [Clients -> Reading!RequestState]
         /\ request'[c] = r /\ \A d \in Clients \ {c} : request'[d] = request[d]
         /\ \A d \in Clients :
           request'[d].pc \in {"subscribe", "read"} => request'[d].id \in Reading!Ids'
<1>1. /\ request' \in [Clients -> Reading!RequestState]
      /\ request'[c] = r /\ \A d \in Clients \ {c} : request'[d] = request[d]
  BY DEF Reading!TypeOK
<1> QED BY <1>1 DEF Reading!TypeOK

LEMMA HitSafe ==
  ASSUME Reading!StreamsAssumption, SInv, NEW c \in Clients, Reading!EnsureHit(c) PROVE SInv'
<1> DEFINE i == items[Reading!Name(c)]
           r == [pc |-> "read", id |-> i, count |-> 0, number |-> request[c].number]
<1>1. request[c] \in Reading!RequestState /\ request[c].pc = "ensure" /\ i \in Reading!Ids /\ i \in Nat
  BY Asked DEF SInv, Reading!TypeOK, Reading!EnsureHit, Reading!Ids
<1>2. consumer' = [consumer EXCEPT ![i].idle = FALSE] /\ request' = [request EXCEPT ![c] = r]
  BY DEF Reading!EnsureHit
<1>3. r \in Reading!RequestState /\ r.pc = "read" /\ r.id = i
  BY <1>1 DEF Reading!RequestState
<1> HIDE DEF i, r
<1>4. /\ consumer' \in Seq(Reading!Consumer) /\ Reading!Ids' = Reading!Ids
      /\ \A j \in Reading!Ids : /\ j # i => consumer'[j].idle = consumer[j].idle
                        /\ Len(consumer'[j].buffer) <= BufferSize
      /\ consumer'[i].idle = FALSE
  BY <1>1, <1>2, Flagged DEF SInv
<1>5. /\ request' \in [Clients -> Reading!RequestState]
      /\ request'[c] = r /\ \A d \in Clients \ {c} : request'[d] = request[d]
      /\ \A d \in Clients :
           request'[d].pc \in {"subscribe", "read"} => request'[d].id \in Reading!Ids'
  BY <1>1, <1>2, <1>3, <1>4, RequestMoves DEF SInv
<1>6. UNCHANGED <<subs, flight, published, items, perOrg, doomed, open, overtaken>>
  BY DEF Reading!EnsureHit, Reading!bus
<1>7. Reading!TypeOK'
  BY <1>4, <1>5, <1>6 DEF SInv, Reading!TypeOK
<1> QED BY <1>1, <1>3, <1>4, <1>5, <1>6, <1>7, Quiet

LEMMA ReadSafe ==
  ASSUME Reading!StreamsAssumption, SInv, NEW c \in Clients, Reading!Read(c) PROVE SInv'
<1> DEFINE i == request[c].id
           n == IF Reading!Streaming(c) THEN request[c].count ELSE request[c].count + 1
           r == [request[c] EXCEPT !.count = n]
           b == Tail(consumer[i].buffer)
<1>1. request[c] \in Reading!RequestState /\ request[c].pc = "read" /\ i \in Reading!Ids
  BY DEF SInv, Reading!TypeOK, Reading!Read
<1>2. consumer' = [consumer EXCEPT ![i].buffer = b] /\ request' = [request EXCEPT ![c] = r]
  BY <1>1 DEF Reading!Read, SInv, Reading!TypeOK
<1>3. n \in Nat
  BY <1>1 DEF Reading!RequestState
<1> HIDE DEF n
<1>4. r \in Reading!RequestState /\ r.pc = "read" /\ r.id = i
  BY <1>1, <1>3 DEF Reading!RequestState
<1>5. b \in Seq(Events) /\ Len(b) <= BufferSize
  <2>1. consumer[i] \in Reading!Consumer
    BY <1>1 DEF SInv, Reading!TypeOK, Reading!Ids
  <2>2. /\ consumer[i].buffer \in Seq(Events) /\ consumer[i].buffer # <<>>
        /\ Len(consumer[i].buffer) <= BufferSize
    BY <1>1, <2>1 DEF SInv, Reading!TypeOK, Reading!Read, Reading!Consumer
  <2> QED BY <2>2, Limits
<1> HIDE DEF b, r
<1>6. /\ consumer' \in Seq(Reading!Consumer) /\ Reading!Ids' = Reading!Ids
      /\ \A j \in Reading!Ids : consumer'[j].idle = consumer[j].idle
            /\ Len(consumer'[j].buffer) <= BufferSize
  BY <1>1, <1>2, <1>5, Buffered DEF SInv
<1>7. /\ request' \in [Clients -> Reading!RequestState]
      /\ request'[c] = r /\ \A d \in Clients \ {c} : request'[d] = request[d]
      /\ \A d \in Clients :
           request'[d].pc \in {"subscribe", "read"} => request'[d].id \in Reading!Ids'
  BY <1>1, <1>2, <1>4, <1>6, RequestMoves DEF SInv
<1>8. UNCHANGED <<subs, flight, published, items, perOrg, doomed, open, overtaken>>
  BY DEF Reading!Read, Reading!bus
<1>9. Reading!TypeOK'
  BY <1>6, <1>7, <1>8 DEF SInv, Reading!TypeOK
<1> QED BY <1>1, <1>4, <1>6, <1>7, <1>8, <1>9, Quiet

LEMMA IdleSafe ==
  ASSUME Reading!StreamsAssumption, SInv, NEW i \in Reading!Ids, Reading!GrowIdle(i) PROVE SInv'
<1>1. /\ consumer' \in Seq(Reading!Consumer) /\ Reading!Ids' = Reading!Ids
      /\ \A j \in Reading!Ids : /\ j # i => consumer'[j].idle = consumer[j].idle
                        /\ Len(consumer'[j].buffer) <= BufferSize
  BY Flagged DEF Reading!GrowIdle, SInv
<1>2. /\ UNCHANGED <<subs, flight, published, items, perOrg, doomed, open, overtaken, request>>
      /\ \A c \in Clients : request[c].id = i => request[c].pc = "read"
  BY DEF Reading!GrowIdle, Reading!bus
<1>3. Reading!TypeOK'
  BY <1>1, <1>2 DEF SInv, Reading!TypeOK
<1> QED BY <1>1, <1>2, <1>3, Quiet

---------------------------------------------------------------------------
(***************************************************************************)
(* Requests come and go: the gate.                                         *)
(***************************************************************************)
\* A request arrives or ends, and the count of its organisation follows.
LEMMA Gate ==
  ASSUME Reading!StreamsAssumption, SInv, NEW c \in Clients, NEW r \in Reading!RequestState,
         request' = [request EXCEPT ![c] = r],
         r.pc \in {"none", "ensure"}, request[c].pc # "subscribe",
         UNCHANGED <<subs, flight, published, consumer, items, perOrg, doomed, overtaken>>,
         open' \in [Orgs -> Nat],
         \A o \in Orgs : open'[o] = Cardinality(Streamers(o))' /\ open'[o] <= MaxStreams
  PROVE  SInv'
<1>1. Reading!Ids' = Reading!Ids
  BY DEF Reading!Ids
<1>2. /\ request' \in [Clients -> Reading!RequestState]
      /\ request'[c] = r /\ \A d \in Clients \ {c} : request'[d] = request[d]
      /\ \A d \in Clients :
           request'[d].pc \in {"subscribe", "read"} => request'[d].id \in Reading!Ids'
  BY <1>1, RequestMoves DEF SInv
<1>3. Reading!TypeOK'
  BY <1>1, <1>2 DEF SInv, Reading!TypeOK
<1>4. Reading!CountersAgree'
  BY SameSets DEF SInv, Reading!CountersAgree, Streamers
<1>5. Reading!SubscribedUnlessSwept'
  BY <1>2 DEF SInv, Reading!SubscribedUnlessSwept
<1>6. ASSUME NEW d \in Clients PROVE Fresh(d)'
  BY <1>2 DEF SInv, Fresh, Reading!Name
<1>7. \A n \in Reading!Names : Vacated(n)'
  BY DEF SInv, Vacated
<1> QED BY <1>3, <1>4, <1>5, <1>6, <1>7 DEF SInv

LEMMA ArriveSafe ==
  ASSUME Reading!StreamsAssumption, SInv, NEW c \in Clients, Reading!Arrive(c) PROVE SInv'
<1> DEFINE o == Ask[c].org
           r == [pc |-> "ensure", id |-> 0, count |-> 0, number |-> request[c].number + 1]
<1>1. request[c] \in Reading!RequestState /\ request[c].pc = "none" /\ o \in Orgs
  BY Asked DEF SInv, Reading!TypeOK, Reading!Arrive
<1>2. r \in Reading!RequestState /\ r.pc = "ensure" /\ request' = [request EXCEPT ![c] = r]
  BY <1>1 DEF Reading!RequestState, Reading!Arrive
<1>3. request'[c] = r /\ \A d \in Clients \ {c} : request'[d] = request[d]
  BY <1>2 DEF SInv, Reading!TypeOK
<1> HIDE DEF r
<1>4. open \in [Orgs -> Nat]
      /\ \A q \in Orgs : open[q] = Cardinality(Streamers(q)) /\ open[q] <= MaxStreams
  BY Counted DEF SInv, Reading!TypeOK
<1>5. CASE Reading!Streaming(c)
  <2>1. open' = [open EXCEPT ![o] = @ + 1] /\ open[o] < MaxStreams
    BY <1>5 DEF Reading!Arrive
  <2>2. Streamers(o)' = Streamers(o) \cup {c} /\ c \notin Streamers(o)
    BY <1>1, <1>2, <1>3, <1>5 DEF Streamers, Reading!Streaming
  <2>3. \A q \in Orgs \ {o} : Streamers(q)' = Streamers(q)
    BY <1>3 DEF Streamers, Reading!Streaming
  <2>4. Cardinality(Streamers(o) \cup {c}) = Cardinality(Streamers(o)) + 1
    BY <2>2, Sized, FS_AddElement
  <2>5. open' \in [Orgs -> Nat]
    BY <2>1, <1>1, <1>4
  <2>6. ASSUME NEW q \in Orgs
        PROVE  open'[q] = Cardinality(Streamers(q))' /\ open'[q] <= MaxStreams
    <3>1. CASE q = o
      <4>1. open'[q] = open[o] + 1 /\ Cardinality(Streamers(q))' = Cardinality(Streamers(o)) + 1
        BY <3>1, <2>1, <2>2, <2>4, <1>1, <1>4
      <4> QED BY <4>1, <2>1, <1>1, <1>4, Limits
    <3>2. CASE q # o
      BY <3>2, <2>1, <2>3, <1>4
    <3> QED BY <3>1, <3>2
  <2> QED BY <1>1, <1>2, <2>5, <2>6, Gate DEF Reading!Arrive, Reading!bus, Reading!cache
<1>6. CASE ~Reading!Streaming(c)
  <2>1. open' = open
    BY <1>1, <1>4, <1>6 DEF Reading!Arrive
  <2>2. \A q \in Orgs : Streamers(q)' = Streamers(q)
    BY <1>1, <1>3, <1>6 DEF Streamers, Reading!Streaming
  <2>3. \A q \in Orgs : open'[q] = Cardinality(Streamers(q))' /\ open'[q] <= MaxStreams
    BY <1>4, <2>1, <2>2
  <2>4. UNCHANGED <<subs, flight, published, consumer, items, perOrg, doomed, overtaken>>
    BY DEF Reading!Arrive, Reading!bus, Reading!cache
  <2> QED BY <1>1, <1>2, <1>4, <2>1, <2>3, <2>4, Gate
<1> QED BY <1>5, <1>6

LEMMA LeaveSafe ==
  ASSUME Reading!StreamsAssumption, SInv, NEW c \in Clients, Reading!Leave(c), Reading!End(c),
         request[c].pc \in {"ensure", "read"}, UNCHANGED <<Reading!bus, Reading!cache>>
  PROVE  SInv'
<1> DEFINE o == Ask[c].org
           r == [pc |-> "none", id |-> 0, count |-> 0, number |-> request[c].number]
<1>1. request[c] \in Reading!RequestState /\ o \in Orgs
  BY Asked DEF SInv, Reading!TypeOK
<1>2. r \in Reading!RequestState /\ r.pc = "none" /\ request' = [request EXCEPT ![c] = r]
  BY <1>1 DEF Reading!RequestState, Reading!End
<1>3. request'[c] = r /\ \A d \in Clients \ {c} : request'[d] = request[d]
  BY <1>2 DEF SInv, Reading!TypeOK
<1> HIDE DEF r
<1>4. open \in [Orgs -> Nat]
      /\ \A q \in Orgs : open[q] = Cardinality(Streamers(q)) /\ open[q] <= MaxStreams
  BY Counted DEF SInv, Reading!TypeOK
<1>5. CASE Reading!Streaming(c)
  <2>1. open' = [open EXCEPT ![o] = @ - 1]
    BY <1>5 DEF Reading!Leave
  <2>2. Streamers(o)' = Streamers(o) \ {c} /\ c \in Streamers(o)
    BY <1>1, <1>2, <1>3, <1>5 DEF Streamers, Reading!Streaming
  <2>3. \A q \in Orgs \ {o} : Streamers(q)' = Streamers(q)
    BY <1>3 DEF Streamers, Reading!Streaming
  <2>4. /\ Cardinality(Streamers(o) \ {c}) = Cardinality(Streamers(o)) - 1
        /\ Cardinality(Streamers(o) \ {c}) \in Nat
    BY <2>2, Sized, FS_RemoveElement, FS_CardinalityType
  <2>5. open'[o] = Cardinality(Streamers(o))' /\ open'[o] \in Nat /\ open'[o] <= MaxStreams
    BY <2>1, <2>2, <2>4, <1>1, <1>4, Limits
  <2>6. \A q \in Orgs \ {o} : open'[q] = open[q]
    BY <2>1, <1>4
  <2>7. open' \in [Orgs -> Nat]
    BY <2>1, <2>5, <1>1, <1>4
  <2>8. \A q \in Orgs : open'[q] = Cardinality(Streamers(q))' /\ open'[q] <= MaxStreams
    BY <2>3, <2>5, <2>6, <1>4
  <2> QED BY <1>1, <1>2, <2>7, <2>8, Gate DEF Reading!bus, Reading!cache
<1>6. CASE ~Reading!Streaming(c)
  <2>1. open' = open
    BY <1>1, <1>4, <1>6 DEF Reading!Leave
  <2>2. \A q \in Orgs : Streamers(q)' = Streamers(q)
    BY <1>1, <1>3, <1>6 DEF Streamers, Reading!Streaming
  <2> QED BY <1>1, <1>2, <1>4, <2>1, <2>2, Gate DEF Reading!bus, Reading!cache
<1> QED BY <1>5, <1>6

---------------------------------------------------------------------------
(***************************************************************************)
(* Consumers are made, subscribed, evicted and unsubscribed.               *)
(***************************************************************************)
\* The new consumer has an id that nothing refers to yet.
LEMMA MadeSafe ==
  ASSUME Reading!StreamsAssumption, SInv, NEW c \in Clients, Reading!EnsureMade(c) PROVE SInv'
<1> DEFINE n  == Reading!Name(c)
           id == Len(consumer) + 1
           o  == Ask[c].org
           k  == [name |-> n, buffer |-> <<>>, evicted |-> FALSE, idle |-> FALSE]
           r  == [pc |-> "subscribe", id |-> id, count |-> 0, number |-> request[c].number]
<1>1. /\ n \in Reading!Names /\ n[1] = o /\ o \in Orgs /\ request[c] \in Reading!RequestState
      /\ request[c].pc = "ensure" /\ items[n] = 0 /\ perOrg[o] < MaxOrg
      /\ id \in Nat /\ id # 0 /\ id \notin Reading!Ids
  BY Asked DEF SInv, Reading!TypeOK, Reading!EnsureMade, Reading!Ids
<1>2. k \in Reading!Consumer /\ k.idle = FALSE /\ Len(k.buffer) <= BufferSize
  BY <1>1, Limits DEF Reading!Consumer
<1>3. r \in Reading!RequestState /\ r.pc = "subscribe" /\ r.id = id
  BY <1>1 DEF Reading!RequestState
<1>4. /\ consumer' = Append(consumer, k) /\ request' = [request EXCEPT ![c] = r]
      /\ items' = [items EXCEPT ![n] = id] /\ perOrg' = [perOrg EXCEPT ![o] = @ + 1]
      /\ overtaken' = IF n \in doomed THEN overtaken \cup {id} ELSE overtaken
      /\ UNCHANGED <<subs, flight, published, doomed, open>>
  BY DEF Reading!EnsureMade, Reading!bus
<1> HIDE DEF n, o, k, r
<1>5. /\ consumer' \in Seq(Reading!Consumer) /\ Reading!Ids' = Reading!Ids \cup {id} /\ consumer'[id] = k
      /\ \A j \in Reading!Ids : consumer'[j] = consumer[j]
  BY <1>2, <1>4 DEF SInv, Reading!TypeOK, Reading!Ids
<1>6. /\ request' \in [Clients -> Reading!RequestState]
      /\ request'[c] = r /\ \A d \in Clients \ {c} : request'[d] = request[d]
      /\ \A d \in Clients :
           request'[d].pc \in {"subscribe", "read"} => request'[d].id \in Reading!Ids'
  BY <1>3, <1>4, <1>5, RequestMoves DEF SInv
<1> HIDE DEF id
<1>7. /\ items' \in [Reading!Names -> {0} \cup Reading!Ids'] /\ items'[n] = id
      /\ \A m \in Reading!Names \ {n} : items'[m] = items[m]
  BY <1>1, <1>4, <1>5 DEF SInv, Reading!TypeOK
<1>8. Reading!TypeOK'
  <2>1. perOrg' \in [Orgs -> Nat]
    BY <1>1, <1>4 DEF SInv, Reading!TypeOK
  <2>2. subs' \in [Reading!Names -> SUBSET Reading!Ids'] /\ flight' \subseteq Events \X Reading!Ids'
        /\ overtaken' \subseteq Reading!Ids'
    BY <1>4, <1>5 DEF SInv, Reading!TypeOK
  <2>3. \A i \in Reading!Ids' : Len(consumer'[i].buffer) <= BufferSize
    BY <1>2, <1>5 DEF SInv, Reading!TypeOK
  <2> QED BY <1>4, <1>5, <1>6, <1>7, <2>1, <2>2, <2>3 DEF SInv, Reading!TypeOK
<1>9. Reading!CountersAgree'
  <2>1. \A q \in Orgs : Streamers(q)' = Streamers(q)
    BY <1>1, <1>3, <1>6 DEF Streamers, Reading!Streaming
  <2>2. Cached(o)' = Cached(o) \cup {n} /\ n \notin Cached(o)
    BY <1>1, <1>7 DEF Cached
  <2>3. \A q \in Orgs \ {o} : Cached(q)' = Cached(q)
    BY <1>1, <1>7 DEF Cached
  <2>4. Cardinality(Cached(o) \cup {n}) = Cardinality(Cached(o)) + 1
    BY <2>2, Sized, FS_AddElement
  <2>5. \A q \in Orgs : /\ perOrg[q] = Cardinality(Cached(q)) /\ perOrg[q] <= MaxOrg
                        /\ open[q] = Cardinality(Streamers(q)) /\ open[q] <= MaxStreams
    BY Counted DEF SInv
  <2>6. perOrg'[o] = perOrg[o] + 1 /\ \A q \in Orgs \ {o} : perOrg'[q] = perOrg[q]
    BY <1>1, <1>4 DEF SInv, Reading!TypeOK
  <2>7. perOrg[o] + 1 <= MaxOrg
    BY <1>1, Limits DEF SInv, Reading!TypeOK
  <2>8. ASSUME NEW q \in Orgs
        PROVE  /\ perOrg'[q] = Cardinality(Cached(q))' /\ perOrg'[q] <= MaxOrg
               /\ open'[q] = Cardinality(Streamers(q))' /\ open'[q] <= MaxStreams
    <3>1. open'[q] = Cardinality(Streamers(q))' /\ open'[q] <= MaxStreams
      BY <1>4, <2>1, <2>5
    <3>2. CASE q = o
      BY <3>1, <3>2, <1>1, <2>2, <2>4, <2>5, <2>6, <2>7
    <3>3. CASE q # o
      BY <3>1, <3>3, <2>3, <2>5, <2>6
    <3> QED BY <3>2, <3>3
  <2> QED BY <2>8, SameSets DEF Reading!CountersAgree, Cached, Streamers
<1>10. Reading!SubscribedUnlessSwept'
  <2> SUFFICES ASSUME NEW m \in Reading!Names, items'[m] # 0
      PROVE  \/ subs'[m] = {items'[m]} \/ items'[m] \in overtaken'
             \/ \E d \in Clients : request'[d].pc = "subscribe" /\ request'[d].id = items'[m]
    BY DEF Reading!SubscribedUnlessSwept
  <2>1. CASE m = n
    BY <2>1, <1>3, <1>6, <1>7
  <2>2. CASE m # n
    BY <2>2, <1>1, <1>4, <1>6, <1>7 DEF SInv, Reading!SubscribedUnlessSwept
  <2> QED BY <2>1, <2>2
<1>11. ASSUME NEW d \in Clients PROVE Fresh(d)'
  <2>1. ASSUME NEW e \in Clients, request[e].pc = "subscribe"
        PROVE  request[e].id \in Reading!Ids /\ request[e].id # 0 /\ Reading!Name(e) # n
               /\ Reading!Name(e) \in Reading!Names
    BY <2>1, <1>1, Asked DEF SInv, Fresh, Reading!TypeOK, Reading!Ids
  <2>2. CASE d = c
    <3>1. request'[d].id = id /\ Reading!Name(d) = n
      BY <2>2, <1>3, <1>6 DEF n
    <3>2. id \in overtaken' \/ subs'[n] = {}
      BY <1>1, <1>4 DEF SInv, Vacated
    <3>3. items'[n] = id /\ ~consumer'[id].idle
      BY <1>2, <1>5, <1>7
    <3>4. \A e \in Clients \ {c} : request'[e].pc = "subscribe" => request'[e].id # id
      BY <2>1, <1>1, <1>6
    <3>5. Reading!Name(d)' = n
      BY <3>1 DEF Reading!Name
    <3> QED BY <2>2, <3>1, <3>2, <3>3, <3>4, <3>5 DEF Fresh
  <2>3. CASE d # c
    <3> SUFFICES ASSUME request[d].pc = "subscribe" PROVE Fresh(d)'
      BY <2>3, <1>6 DEF Fresh
    <3>1. /\ request'[d] = request[d] /\ items'[Reading!Name(d)] = items[Reading!Name(d)]
          /\ consumer'[request[d].id] = consumer[request[d].id]
      BY <2>1, <2>3, <1>5, <1>6, <1>7
    <3>2. \A e \in Clients \ {d} : request'[e].pc = "subscribe" => request'[e].id # request[d].id
      BY <2>1, <1>1, <1>3, <1>6 DEF SInv, Fresh
    <3>3. Reading!Name(d)' = Reading!Name(d)
      BY DEF Reading!Name
    <3> QED BY <3>1, <3>2, <3>3, <1>4 DEF SInv, Fresh
  <2> QED BY <2>2, <2>3
<1>12. ASSUME NEW m \in Reading!Names PROVE Vacated(m)'
  <2>0. \A q \in Reading!Names : items[q] # id
    BY <1>1 DEF SInv, Reading!TypeOK
  <2>1. CASE m = n
    BY <2>0, <2>1, <1>1, <1>4, <1>7 DEF Vacated
  <2>2. CASE m # n
    BY <2>0, <2>2, <1>1, <1>4, <1>7 DEF SInv, Vacated
  <2> QED BY <2>1, <2>2
<1> QED BY <1>8, <1>9, <1>10, <1>11, <1>12 DEF SInv

LEMMA SubscribeSafe ==
  ASSUME Reading!StreamsAssumption, SInv, NEW c \in Clients, Reading!Subscribe(c) PROVE SInv'
<1> DEFINE n == Reading!Name(c)
           i == request[c].id
           r == [request[c] EXCEPT !.pc = "read"]
<1>1. /\ n \in Reading!Names /\ request[c] \in Reading!RequestState /\ request[c].pc = "subscribe"
      /\ i \in Reading!Ids /\ items[n] = i /\ i # 0
      /\ i \in overtaken \/ subs[n] = {}
      /\ \A d \in Clients \ {c} : request[d].pc = "subscribe" => request[d].id # i
  BY Asked DEF SInv, Reading!TypeOK, Reading!Subscribe, Fresh, Reading!Ids
<1>2. r \in Reading!RequestState /\ r.pc = "read" /\ r.id = i
  BY <1>1 DEF Reading!RequestState
<1>3. /\ request' = [request EXCEPT ![c] = r] /\ subs' = [subs EXCEPT ![n] = @ \cup {i}]
      /\ UNCHANGED <<flight, published, consumer, items, perOrg, doomed, overtaken, open>>
      /\ Reading!Ids' = Reading!Ids
  BY <1>1 DEF Reading!Subscribe, Reading!cache, Reading!Ids, SInv, Reading!TypeOK
<1> HIDE DEF n, i, r
<1>4. /\ request' \in [Clients -> Reading!RequestState]
      /\ request'[c] = r /\ \A d \in Clients \ {c} : request'[d] = request[d]
      /\ \A d \in Clients :
           request'[d].pc \in {"subscribe", "read"} => request'[d].id \in Reading!Ids'
  BY <1>1, <1>2, <1>3, RequestMoves DEF SInv
<1>5. /\ subs' \in [Reading!Names -> SUBSET Reading!Ids] /\ subs'[n] = subs[n] \cup {i}
      /\ \A m \in Reading!Names \ {n} : subs'[m] = subs[m]
  BY <1>1, <1>3 DEF SInv, Reading!TypeOK
<1>6. Reading!TypeOK'
  BY <1>3, <1>4, <1>5 DEF SInv, Reading!TypeOK
<1>7. Reading!CountersAgree'
  <2>1. \A q \in Orgs : Streamers(q)' = Streamers(q) /\ Cached(q)' = Cached(q)
    BY <1>1, <1>2, <1>3, <1>4 DEF Streamers, Cached, Reading!Streaming
  <2> QED BY <2>1, <1>3 DEF SInv, Reading!CountersAgree, Streamers, Cached
<1>8. Reading!SubscribedUnlessSwept'
  <2> SUFFICES ASSUME NEW m \in Reading!Names, items[m] # 0
      PROVE  \/ subs'[m] = {items[m]} \/ items[m] \in overtaken
             \/ \E d \in Clients : request'[d].pc = "subscribe" /\ request'[d].id = items[m]
    BY <1>3 DEF Reading!SubscribedUnlessSwept
  <2>1. CASE m = n
    BY <2>1, <1>1, <1>5
  <2>2. CASE m # n
    <3>1. CASE subs[m] = {items[m]}
      BY <2>2, <3>1, <1>5
    <3>2. CASE \E d \in Clients : request[d].pc = "subscribe" /\ request[d].id = items[m]
      <4>1. PICK d \in Clients : request[d].pc = "subscribe" /\ request[d].id = items[m]
        BY <3>2
      <4>2. CASE d = c
        BY <4>1, <4>2, <1>1, <2>2 DEF SInv, Vacated, i
      <4>3. CASE d # c
        BY <4>1, <4>3, <1>4
      <4> QED BY <4>2, <4>3
    <3> QED BY <3>1, <3>2 DEF SInv, Reading!SubscribedUnlessSwept
  <2> QED BY <2>1, <2>2
<1>9. ASSUME NEW d \in Clients PROVE Fresh(d)'
  <2>1. CASE d = c
    BY <2>1, <1>2, <1>4 DEF Fresh
  <2>2. CASE d # c
    <3>1. request[d].pc = "subscribe" => Reading!Name(d) # n /\ Reading!Name(d) \in Reading!Names
      BY <2>2, <1>1, Asked DEF SInv, Fresh
    <3> QED BY <2>2, <3>1, <1>2, <1>3, <1>4, <1>5 DEF SInv, Fresh, Reading!Name
  <2> QED BY <2>1, <2>2
<1>10. ASSUME NEW m \in Reading!Names PROVE Vacated(m)'
  BY <1>1, <1>3, <1>5 DEF SInv, Vacated
<1> QED BY <1>6, <1>7, <1>8, <1>9, <1>10 DEF SInv

\* The sweeper evicts what is idle, which nobody is subscribing.
LEMMA SweepSafe ==
  ASSUME Reading!StreamsAssumption, SInv, Reading!Sweep PROVE SInv'
<1> DEFINE Gone(o) == {n \in Reading!Stale : n[1] = o}
<1>1. /\ doomed = {} /\ doomed' = Reading!Stale
      /\ consumer' = [i \in Reading!Ids |->
           [consumer[i] EXCEPT !.evicted = @ \/ \E n \in Reading!Stale : items[n] = i]]
      /\ items' = [n \in Reading!Names |-> IF n \in Reading!Stale THEN 0 ELSE items[n]]
      /\ perOrg' = [o \in Orgs |-> Reading!Released(o)]
      /\ UNCHANGED <<subs, flight, published, overtaken, open, request>>
  BY DEF Reading!Sweep, Reading!bus
<1>2. Reading!Stale \subseteq Reading!Names
      /\ \A n \in Reading!Stale : items[n] \in Reading!Ids /\ consumer[items[n]].idle
  BY DEF Reading!Stale, SInv, Reading!TypeOK
<1>3. ASSUME NEW i \in Reading!Ids
      PROVE  /\ consumer'[i] \in Reading!Consumer /\ consumer'[i].idle = consumer[i].idle
             /\ consumer'[i].buffer = consumer[i].buffer
  <2>1. consumer[i] \in Reading!Consumer
    BY DEF SInv, Reading!TypeOK, Reading!Ids
  <2> DEFINE b == consumer[i].evicted \/ \E n \in Reading!Stale : items[n] = i
  <2>2. b \in BOOLEAN
    BY <2>1 DEF Reading!Consumer
  <2>3. consumer'[i] = [consumer[i] EXCEPT !.evicted = b]
    BY <1>1
  <2> HIDE DEF b
  <2> QED BY <2>1, <2>2, <2>3 DEF Reading!Consumer
<1>4. consumer' \in Seq(Reading!Consumer) /\ Reading!Ids' = Reading!Ids
  <2>1. Len(consumer) \in Nat /\ DOMAIN consumer' = 1 .. Len(consumer)
    BY <1>1 DEF SInv, Reading!TypeOK, Reading!Ids
  <2>2. consumer' \in [1 .. Len(consumer) -> Reading!Consumer]
    <3>1. consumer' = [i \in 1 .. Len(consumer) |-> consumer'[i]]
      BY <1>1 DEF Reading!Ids
    <3> QED BY <3>1, <1>3 DEF Reading!Ids
  <2>3. consumer' \in Seq(Reading!Consumer) /\ Len(consumer') = Len(consumer)
    BY <2>1, <2>2
  <2> QED BY <2>3 DEF Reading!Ids
<1>5. /\ items' \in [Reading!Names -> {0} \cup Reading!Ids]
      /\ \A n \in Reading!Names : items'[n] = IF n \in Reading!Stale THEN 0 ELSE items[n]
  BY <1>1 DEF SInv, Reading!TypeOK
<1>6. ASSUME NEW o \in Orgs
      PROVE  /\ Reading!Released(o) = Cardinality(Cached(o))' /\ Reading!Released(o) \in Nat
             /\ Reading!Released(o) <= MaxOrg
  <2>1. Gone(o) \subseteq Cached(o) /\ Cached(o) \cap Gone(o) = Gone(o)
    BY <1>2 DEF Cached, Reading!Stale
  <2>2. Cached(o)' = Cached(o) \ Gone(o)
    BY <1>5 DEF Cached
  <2>3. /\ Cardinality(Cached(o) \ Gone(o)) = Cardinality(Cached(o)) - Cardinality(Gone(o))
        /\ IsFiniteSet(Cached(o) \ Gone(o)) /\ IsFiniteSet(Gone(o))
    BY <2>1, Sized, FS_Difference, FS_Subset
  <2>4. Cardinality(Cached(o) \ Gone(o)) \in Nat /\ Cardinality(Gone(o)) \in Nat
    BY <2>3, FS_CardinalityType
  <2>5. perOrg[o] = Cardinality(Cached(o)) /\ perOrg[o] <= MaxOrg
    BY Counted DEF SInv
  <2>6. Reading!Released(o) = perOrg[o] - Cardinality(Gone(o))
    BY SameSets DEF Reading!Released, Reading!CountOf
  <2> HIDE DEF Gone
  <2> QED BY <2>2, <2>3, <2>4, <2>5, <2>6, Sized, Limits
<1>7. Reading!TypeOK'
  <2>1. perOrg' \in [Orgs -> Nat]
    BY <1>1, <1>6
  <2>2. \A i \in Reading!Ids : Len(consumer'[i].buffer) <= BufferSize
    BY <1>3 DEF SInv, Reading!TypeOK
  <2> QED BY <1>1, <1>2, <1>4, <1>5, <2>1, <2>2 DEF SInv, Reading!TypeOK
<1>8. Reading!CountersAgree'
  <2>1. \A q \in Orgs : Streamers(q)' = Streamers(q)
    BY <1>1 DEF Streamers, Reading!Streaming
  <2>2. ASSUME NEW q \in Orgs
        PROVE  /\ perOrg'[q] = Cardinality(Cached(q))' /\ perOrg'[q] <= MaxOrg
               /\ open'[q] = Cardinality(Streamers(q))' /\ open'[q] <= MaxStreams
    BY <1>1, <1>6, <2>1, Counted DEF SInv
  <2> QED BY <2>2, SameSets DEF Reading!CountersAgree, Cached, Streamers
<1>9. ASSUME NEW c \in Clients, request[c].pc = "subscribe"
      PROVE  Reading!Name(c) \in Reading!Names /\ Reading!Name(c) \notin Reading!Stale
             /\ request[c].id \in Reading!Ids
  BY <1>9, Asked DEF SInv, Reading!TypeOK, Fresh, Reading!Stale
<1>10. Reading!SubscribedUnlessSwept'
  BY <1>1, <1>5 DEF SInv, Reading!SubscribedUnlessSwept
<1>11. ASSUME NEW c \in Clients PROVE Fresh(c)'
  <2>1. Reading!Name(c)' = Reading!Name(c)
    BY DEF Reading!Name
  <2> QED BY <2>1, <1>1, <1>3, <1>5, <1>9 DEF SInv, Fresh
<1>12. ASSUME NEW n \in Reading!Names PROVE Vacated(n)'
  BY <1>1, <1>5 DEF SInv, Vacated
<1> QED BY <1>7, <1>8, <1>10, <1>11, <1>12 DEF SInv

LEMMA UnsubscribeSafe ==
  ASSUME Reading!StreamsAssumption, SInv, NEW n \in Reading!Names, Reading!Unsubscribe(n) PROVE SInv'
<1>1. /\ n \in doomed /\ doomed' = doomed \ {n} /\ subs' = [subs EXCEPT ![n] = {}]
      /\ UNCHANGED <<flight, published, consumer, items, perOrg, overtaken, open, request>>
  BY DEF Reading!Unsubscribe, Reading!Removed
<1>2. /\ subs' \in [Reading!Names -> SUBSET Reading!Ids] /\ subs'[n] = {}
      /\ \A m \in Reading!Names \ {n} : subs'[m] = subs[m]
  BY <1>1 DEF SInv, Reading!TypeOK
<1>3. Reading!TypeOK'
  BY <1>1, <1>2 DEF SInv, Reading!TypeOK, Reading!Ids
<1>4. Reading!CountersAgree'
  BY <1>1 DEF SInv, Reading!CountersAgree
<1>5. Reading!SubscribedUnlessSwept'
  BY <1>1, <1>2 DEF SInv, Reading!SubscribedUnlessSwept, Vacated
<1>6. ASSUME NEW c \in Clients PROVE Fresh(c)'
  <2>1. Reading!Name(c)' = Reading!Name(c) /\ Reading!Name(c) \in Reading!Names
    BY Asked DEF Reading!Name
  <2> QED BY <2>1, <1>1, <1>2 DEF SInv, Fresh
<1>7. ASSUME NEW m \in Reading!Names PROVE Vacated(m)'
  BY <1>1, <1>2 DEF SInv, Vacated
<1> QED BY <1>3, <1>4, <1>5, <1>6, <1>7 DEF SInv

---------------------------------------------------------------------------
LEMMA SStep == ASSUME Reading!StreamsAssumption, SInv, [Reading!Next]_Reading!vars PROVE SInv'
<1>1. ASSUME NEW c \in Clients,
             \/ Reading!Arrive(c) \/ Reading!Ensure(c) \/ Reading!Subscribe(c)
             \/ Reading!Read(c) \/ Reading!Finish(c)
      PROVE  SInv'
  BY <1>1, ArriveSafe, HitSafe, MadeSafe, LeaveSafe, SubscribeSafe, ReadSafe
     DEF Reading!Ensure, Reading!EnsureRefused, Reading!Finish
<1>2. CASE Reading!Sweeper
  BY <1>2, SweepSafe, UnsubscribeSafe DEF Reading!Sweeper
<1>3. CASE UNCHANGED Reading!vars
  <2>1. Reading!TypeOK'
    BY <1>3 DEF SInv, Reading!TypeOK, Reading!vars, Reading!Ids
  <2> QED BY <1>3, <2>1, Quiet DEF Reading!vars
<1> QED BY <1>1, <1>2, <1>3, BusSafe, IdleSafe DEF Reading!Next

\* The inductive invariant holds of every reachable state.
THEOREM CacheInvariant == Reading!StreamsAssumption => (Reading!Spec => []SInv)
<1> SUFFICES ASSUME Reading!StreamsAssumption PROVE Reading!Spec => []SInv
  OBVIOUS
<1>1. SInv /\ [Reading!Next]_Reading!vars => SInv'
  BY SStep
<1> QED BY <1>1, SInit, PTL DEF Reading!Spec

---------------------------------------------------------------------------
(***************************************************************************)
(* INGEST                                                                  *)
(*                                                                         *)
(* For any batches, senders, configurations and bounds: an event is        *)
(* recorded once in a window, what was answered has its check, and no      *)
(* cache hands a request a verifier of another configuration.              *)
(***************************************************************************)
\* The requests that have claimed e and are still to store its check.
Held(e) == {s \in Senders : Posting!At(s, "store") /\ Posting!Event(s) = e}

Settled(e) == stored[e] > 0 \/ e \in orphan \/ Held(e) # {}

Checking == {"auth", "verify", "validate"}
Applying == {"apply", "store"}

\* A request starts with the first event of its batch, and has settled the
\* events before the one it is at.
Placed(s) ==
  /\ posted[s].pc \in Checking => posted[s].next = 1
  /\ posted[s].pc \in Applying =>
       /\ posted[s].next \in 1 .. Len(Batch[s])
       /\ \A i \in 1 .. posted[s].next - 1 : Settled(Batch[s][i])

\* Every check stored or under way was paid for by a claim of its own.
Paid(e) ==
  stored[e] + Cardinality(Held(e)) <= expiries + (IF claim[e] = "fresh" THEN 1 ELSE 0)

RInv ==
  /\ \A s \in Senders : Placed(s)
  /\ \A e \in Events : claim[e] # "none" => Settled(e)
  /\ \A e \in acked : Settled(e)
  /\ \A e \in Events : Paid(e)

Fits(v, c) == v \in Configs /\ c \in Configs /\ PoolKey[v] = PoolKey[c]

\* The pool holds a verifier under its own key, the entry and each request the
\* verifier of the configuration they name.
VInv ==
  /\ \A c \in Configs : pool[PoolKey[c]] # None => Fits(pool[PoolKey[c]], c)
  /\ entry.for # None => Fits(entry.verifier, entry.for)
  /\ \A s \in Senders :
       /\ Posting!At(s, "auth") => posted[s].for \in Configs
       /\ Posting!At(s, "verify") => Fits(posted[s].verifier, posted[s].for)

IngInv == Posting!TypeOK /\ RInv /\ VInv

LEMMA Shapes ==
  ASSUME Posting!IngestAssumption
  PROVE  /\ \A s \in Senders : Batch[s] \in Seq(Events) /\ Len(Batch[s]) \in Nat
         /\ \A s \in Senders : \A i \in 1 .. Len(Batch[s]) : Batch[s][i] \in Events
BY DEF Posting!IngestAssumption

LEMMA HeldFinite ==
  ASSUME Posting!IngestAssumption, NEW e
  PROVE  IsFiniteSet(Held(e)) /\ Cardinality(Held(e)) \in Nat
<1>1. Held(e) \in SUBSET Senders
  BY DEF Held
<1>2. IsFiniteSet(Held(e))
  BY <1>1, FS_Subset, SameSets DEF Posting!IngestAssumption
<1> QED BY <1>2, FS_CardinalityType

LEMMA UnsentTyped ==
  Posting!Unsent \in Posting!RequestState /\ Posting!Unsent.pc = "unsent"
BY DEF Posting!Unsent, Posting!RequestState

LEMMA IngInit == ASSUME Posting!IngestAssumption, Posting!Init PROVE IngInv
<1>1. Posting!TypeOK
  BY UnsentTyped DEF Posting!Init, Posting!TypeOK, Posting!Settings, Posting!NoEntry
<1>2. \A s \in Senders : posted[s].pc = "unsent"
  BY UnsentTyped DEF Posting!Init
<1>3. \A e : Held(e) = {}
  BY <1>2 DEF Held, Posting!At
<1>4. \A e \in Events : Paid(e)
  BY <1>3, FS_EmptySet DEF Posting!Init, Paid
<1>5. RInv
  BY <1>2, <1>4 DEF Posting!Init, RInv, Placed, Checking, Applying
<1>6. VInv
  BY <1>2 DEF Posting!Init, VInv, Posting!At, Posting!NoEntry
<1> QED BY <1>1, <1>5, <1>6 DEF IngInv

---------------------------------------------------------------------------
(***************************************************************************)
(* What the move of one request does to the claims that are held.          *)
(***************************************************************************)
LEMMA Moved ==
  ASSUME Posting!TypeOK, NEW s \in Senders, NEW r \in Posting!RequestState, Posting!GoTo(s, r)
  PROVE  /\ posted' \in [Senders -> Posting!RequestState] /\ posted'[s] = r
         /\ \A t \in Senders \ {s} : posted'[t] = posted[t]
BY DEF Posting!TypeOK, Posting!GoTo

LEMMA HeldKept ==
  ASSUME Posting!TypeOK, NEW s \in Senders, NEW r \in Posting!RequestState, Posting!GoTo(s, r),
         posted[s].pc # "store", r.pc # "store", NEW e
  PROVE  Held(e)' = Held(e)
BY Moved DEF Held, Posting!At, Posting!Event

LEMMA HeldGained ==
  ASSUME Posting!TypeOK, NEW s \in Senders, NEW r \in Posting!RequestState, Posting!GoTo(s, r),
         posted[s].pc # "store", r.pc = "store", r.next = posted[s].next, NEW e
  PROVE  /\ s \notin Held(e)
         /\ Held(e)' = IF e = Posting!Event(s) THEN Held(e) \cup {s} ELSE Held(e)
BY Moved DEF Held, Posting!At, Posting!Event

LEMMA HeldLost ==
  ASSUME Posting!TypeOK, NEW s \in Senders, NEW r \in Posting!RequestState, Posting!GoTo(s, r),
         posted[s].pc = "store", r.pc # "store", NEW e
  PROVE  /\ s \in Held(e) <=> e = Posting!Event(s)
         /\ Held(e)' = Held(e) \ {s}
BY Moved DEF Held, Posting!At, Posting!Event

\* A request moves; the records follow.
LEMMA Recorded ==
  ASSUME Posting!TypeOK, RInv, NEW s \in Senders, NEW r \in Posting!RequestState, Posting!GoTo(s, r),
         \A e : Settled(e) => Settled(e)',
         r.pc \in Checking => r.next = 1,
         r.pc \in Applying =>
           /\ r.next \in 1 .. Len(Batch[s])
           /\ \A i \in 1 .. r.next - 1 : Settled(Batch[s][i])',
         \A e \in Events : claim'[e] # "none" => claim[e] # "none" \/ Settled(e)',
         \A e \in acked' : e \in acked \/ Settled(e)',
         \A e \in Events : Paid(e)'
  PROVE  RInv'
<1>1. ASSUME NEW t \in Senders PROVE Placed(t)'
  <2>1. CASE t = s
    BY <2>1, Moved DEF Placed
  <2>2. CASE t # s
    <3>1. posted'[t] = posted[t]
      BY <2>2, Moved
    <3> QED BY <3>1 DEF RInv, Placed
  <2> QED BY <2>1, <2>2
<1> QED BY <1>1 DEF RInv

\* A request moves that neither takes nor gives up a claim.
LEMMA Unclaimed ==
  ASSUME Posting!TypeOK, RInv, NEW s \in Senders, NEW r \in Posting!RequestState, Posting!GoTo(s, r),
         posted[s].pc # "store", r.pc # "store",
         UNCHANGED <<claim, stored, orphan, expiries>>,
         r.pc \in Checking => r.next = 1,
         r.pc = "apply" =>
           /\ r.next \in 1 .. Len(Batch[s])
           /\ \A i \in 1 .. r.next - 1 : Settled(Batch[s][i]),
         \A e \in acked' : e \in acked \/ Settled(e)
  PROVE  RInv'
<1>1. \A e : Held(e)' = Held(e)
  BY HeldKept
<1>2. \A e : Settled(e)' <=> Settled(e)
  BY <1>1 DEF Settled
<1>3. \A e \in Events : Paid(e)'
  BY <1>1 DEF RInv, Paid
<1> QED BY <1>2, <1>3, Recorded DEF RInv, Applying

\* A request moves to where it has no verifier to judge by.
LEMMA Unjudged ==
  ASSUME Posting!TypeOK, VInv, NEW s \in Senders, NEW r \in Posting!RequestState, Posting!GoTo(s, r),
         r.pc \notin {"auth", "verify"}, UNCHANGED Posting!caches
  PROVE  VInv'
BY Moved DEF VInv, Posting!At, Posting!caches

---------------------------------------------------------------------------
(***************************************************************************)
(* Up to the first event.                                                  *)
(***************************************************************************)
LEMMA RefusedTyped ==
  ASSUME NEW pc \in {"unsent", "validate", "done", "refused"}
  PROVE  /\ [Posting!Unsent EXCEPT !.pc = pc] \in Posting!RequestState
         /\ [Posting!Unsent EXCEPT !.pc = pc].pc = pc
         /\ [Posting!Unsent EXCEPT !.pc = pc].next = 1
BY DEF Posting!Unsent, Posting!RequestState

LEMMA ReceiveSafe ==
  ASSUME Posting!IngestAssumption, IngInv, NEW s \in Senders, Posting!Receive(s) PROVE IngInv'
<1> USE DEF IngInv
<1>1. posted[s].pc = "unsent" /\ UNCHANGED <<config, Posting!caches, Posting!records, Posting!bounds>>
  BY DEF Posting!Receive, Posting!At
<1>2. ASSUME NEW r \in Posting!RequestState, Posting!GoTo(s, r), r.pc \in {"validate", "auth", "refused"},
             r.pc = "auth" => r.for \in Configs, r.next = 1
      PROVE  IngInv'
  <2>1. Posting!TypeOK'
    BY <1>1, <1>2, Moved DEF Posting!TypeOK, Posting!caches, Posting!records, Posting!bounds
  <2>2. RInv'
    BY <1>1, <1>2, Unclaimed DEF Posting!records, Posting!bounds
  <2>3. VInv'
    BY <1>1, <1>2, Moved DEF VInv, Posting!At, Posting!caches
  <2> QED BY <2>1, <2>2, <2>3
<1>3. CASE \E pc \in {"validate", "refused"} : Posting!GoTo(s, [Posting!Unsent EXCEPT !.pc = pc])
  <2>1. PICK pc \in {"validate", "refused"} : Posting!GoTo(s, [Posting!Unsent EXCEPT !.pc = pc])
    BY <1>3
  <2> DEFINE r == [Posting!Unsent EXCEPT !.pc = pc]
  <2>2. r \in Posting!RequestState /\ r.pc = pc /\ r.next = 1
    BY RefusedTyped
  <2> HIDE DEF r
  <2>3. Posting!GoTo(s, r)
    BY <2>1 DEF r
  <2> QED BY <2>2, <2>3, <1>2
<1>4. CASE config \in Configs /\ Posting!GoTo(s, [Posting!Unsent EXCEPT !.pc = "auth", !.for = config])
  <2> DEFINE r == [Posting!Unsent EXCEPT !.pc = "auth", !.for = config]
  <2>1. r \in Posting!RequestState /\ r.pc = "auth" /\ r.for = config /\ r.next = 1
    BY <1>4 DEF Posting!Unsent, Posting!RequestState
  <2> HIDE DEF r
  <2>2. Posting!GoTo(s, r)
    BY <1>4 DEF r
  <2> QED BY <2>1, <2>2, <1>2, <1>4
<1> QED BY <1>3, <1>4 DEF Posting!Receive, Posting!Refuse

\* The verifier handed out, and what the two caches keep, fit.
LEMMA ResolveSafe ==
  ASSUME Posting!IngestAssumption, IngInv, NEW s \in Senders, Posting!Resolve(s) PROVE IngInv'
<1> USE DEF IngInv
<1> DEFINE cfg == posted[s].for
           v == Posting!Pooled(PoolKey[cfg], cfg)
           filled == [pool EXCEPT ![PoolKey[cfg]] = v]
<1>1. /\ posted[s].pc = "auth" /\ posted[s] \in Posting!RequestState /\ cfg \in Configs
      /\ UNCHANGED <<config, Posting!records, Posting!bounds>>
  BY DEF Posting!Resolve, Posting!At, Posting!TypeOK, VInv
<1>2. \A c \in Configs : PoolKey[c] \in DOMAIN pool /\ pool[PoolKey[c]] \in Configs \cup {None}
  BY DEF Posting!TypeOK
<1>3. Fits(v, cfg)
  BY <1>1, <1>2 DEF VInv, Fits, Posting!Pooled
<1>4. ASSUME NEW w, Fits(w, cfg), Posting!GoTo(s, [posted[s] EXCEPT !.pc = "verify", !.verifier = w]),
             entry' \in [for : Configs \cup {None}, verifier : Configs \cup {None}],
             pool' \in [{PoolKey[c] : c \in Configs} -> Configs \cup {None}],
             \A c \in Configs : pool'[PoolKey[c]] # None => Fits(pool'[PoolKey[c]], c),
             entry'.for # None => Fits(entry'.verifier, entry'.for)
      PROVE  IngInv'
  <2> DEFINE r == [posted[s] EXCEPT !.pc = "verify", !.verifier = w]
  <2>1. r \in Posting!RequestState /\ r.pc = "verify" /\ r.for = cfg /\ r.verifier = w /\ r.next = 1
    BY <1>1, <1>4 DEF Fits, Posting!RequestState, RInv, Placed, Checking
  <2>2. Posting!GoTo(s, r)
    BY <1>4
  <2> HIDE DEF r, cfg
  <2>3. /\ posted' \in [Senders -> Posting!RequestState] /\ posted'[s] = r
        /\ \A t \in Senders \ {s} : posted'[t] = posted[t]
    BY <2>1, <2>2, Moved
  <2>4. Posting!TypeOK'
    BY <1>1, <1>4, <2>3 DEF Posting!TypeOK, Posting!records, Posting!bounds
  <2>5. RInv'
    BY <1>1, <2>1, <2>2, Unclaimed DEF Posting!records, Posting!bounds
  <2>6. ASSUME NEW t \in Senders
        PROVE  /\ Posting!At(t, "auth")' => posted'[t].for \in Configs
               /\ Posting!At(t, "verify")' => Fits(posted'[t].verifier, posted'[t].for)
    BY <2>1, <2>3, <1>4 DEF VInv, Posting!At
  <2>7. VInv'
    BY <2>6, <1>4 DEF VInv, Fits
  <2> QED BY <2>4, <2>5, <2>7
<1>5. CASE Posting!EntryFits(cfg)
  <2>1. /\ Posting!GoTo(s, [posted[s] EXCEPT !.pc = "verify", !.verifier = entry.verifier])
        /\ UNCHANGED Posting!caches
    BY <1>5 DEF Posting!Resolve
  <2>2. Fits(entry.verifier, cfg)
    BY <1>1, <1>5 DEF Posting!EntryFits, VInv, Posting!IngestAssumption
  <2> QED BY <2>1, <2>2, <1>4 DEF Posting!caches, Posting!TypeOK, VInv
<1>6. CASE ~Posting!EntryFits(cfg)
  <2>1. /\ Posting!GoTo(s, [posted[s] EXCEPT !.pc = "verify", !.verifier = v])
        /\ entry' = [for |-> cfg, verifier |-> v]
        /\ pool' = IF entry.for = None THEN filled
                   ELSE [filled EXCEPT ![PoolKey[entry.for]] = None]
    BY <1>6 DEF Posting!Resolve
  <2>2. /\ filled \in [{PoolKey[c] : c \in Configs} -> Configs \cup {None}]
        /\ \A c \in Configs : filled[PoolKey[c]] # None => Fits(filled[PoolKey[c]], c)
    <3>1. v \in Configs
      BY <1>3 DEF Fits
    <3> HIDE DEF v
    <3>2. filled \in [{PoolKey[c] : c \in Configs} -> Configs \cup {None}]
      BY <3>1 DEF Posting!TypeOK
    <3>3. \A c \in Configs : filled[PoolKey[c]] =
                             IF PoolKey[c] = PoolKey[cfg] THEN v ELSE pool[PoolKey[c]]
      BY <1>2
    <3> QED BY <3>1, <3>2, <3>3, <1>3, <1>1 DEF VInv, Fits
  <2>3. entry' \in [for : Configs \cup {None}, verifier : Configs \cup {None}]
          /\ Fits(entry'.verifier, entry'.for)
    BY <2>1, <1>1, <1>3 DEF Fits
  <2> HIDE DEF filled
  <2>4. /\ pool' \in [{PoolKey[c] : c \in Configs} -> Configs \cup {None}]
        /\ \A c \in Configs : pool'[PoolKey[c]] # None => Fits(pool'[PoolKey[c]], c)
    BY <2>1, <2>2
  <2> QED BY <2>1, <2>3, <2>4, <1>3, <1>4
<1> QED BY <1>5, <1>6

LEMMA VerifySafe ==
  ASSUME Posting!IngestAssumption, IngInv, NEW s \in Senders,
         Posting!Verify(s) \/ Posting!Validate(s)
  PROVE  IngInv'
<1> USE DEF IngInv
<1>1. /\ posted[s].pc \in {"verify", "validate"} /\ posted[s] \in Posting!RequestState
      /\ UNCHANGED <<config, Posting!caches, Posting!records, Posting!bounds>>
  BY DEF Posting!Verify, Posting!Validate, Posting!At, Posting!TypeOK
<1>2. ASSUME NEW r \in Posting!RequestState, Posting!GoTo(s, r), r.pc \in {"validate", "apply", "refused"},
             r.pc = "apply" => r.next \in 1 .. Len(Batch[s]), r.next = 1
      PROVE  IngInv'
  <2>1. Posting!TypeOK'
    BY <1>1, <1>2, Moved DEF Posting!TypeOK, Posting!caches, Posting!records, Posting!bounds
  <2>2. RInv'
    <3>1. r.pc = "apply" => \A i \in 1 .. r.next - 1 : Settled(Batch[s][i])
      BY <1>2
    <3> QED BY <1>1, <1>2, <3>1, Unclaimed DEF Posting!records, Posting!bounds
  <2>3. VInv'
    BY <1>1, <1>2, Unjudged
  <2> QED BY <2>1, <2>2, <2>3
<1>3. CASE Posting!Refuse(s)
  <2> DEFINE r == [Posting!Unsent EXCEPT !.pc = "refused"]
  <2>1. r \in Posting!RequestState /\ r.pc = "refused" /\ r.next = 1
    BY RefusedTyped
  <2> HIDE DEF r
  <2>2. Posting!GoTo(s, r)
    BY <1>3 DEF r, Posting!Refuse
  <2> QED BY <2>1, <2>2, <1>2
<1>4. ASSUME NEW pc \in {"validate", "apply"}, Posting!GoTo(s, [posted[s] EXCEPT !.pc = pc]),
             pc = "apply" => Posting!BatchOK(Batch[s])
      PROVE  IngInv'
  <2> DEFINE r == [posted[s] EXCEPT !.pc = pc]
  <2>1. r \in Posting!RequestState /\ r.pc = pc /\ r.next = 1
    BY <1>1 DEF Posting!RequestState, RInv, Placed, Checking
  <2> HIDE DEF r
  <2>2. Posting!GoTo(s, r)
    BY <1>4 DEF r
  <2>3. Posting!BatchOK(Batch[s]) => 1 \in 1 .. Len(Batch[s])
    BY Shapes DEF Posting!BatchOK
  <2> QED BY <2>1, <2>2, <2>3, <1>2, <1>4
<1> QED BY <1>3, <1>4 DEF Posting!Verify, Posting!Validate

---------------------------------------------------------------------------
(***************************************************************************)
(* apply.                                                                  *)
(***************************************************************************)
LEMMA Advanced ==
  ASSUME NEW q \in Posting!RequestState, NEW m \in Nat
  PROVE  /\ [q EXCEPT !.pc = "apply", !.next = m] \in Posting!RequestState
         /\ [q EXCEPT !.pc = "apply", !.next = m].pc = "apply"
         /\ [q EXCEPT !.pc = "apply", !.next = m].next = m
BY DEF Posting!RequestState

LEMMA GoOnMoves ==
  ASSUME Posting!TypeOK, NEW s \in Senders, Posting!GoOn(s)
  PROVE  \E r \in Posting!RequestState : Posting!GoTo(s, r) /\ r.pc \in {"done", "apply"}
<1>1. CASE Posting!GoTo(s, [Posting!Unsent EXCEPT !.pc = "done"])
  BY <1>1, RefusedTyped
<1>2. CASE Posting!GoTo(s, [posted[s] EXCEPT !.pc = "apply", !.next = @ + 1])
  <2> DEFINE m == posted[s].next + 1
             r == [posted[s] EXCEPT !.pc = "apply", !.next = m]
  <2>1. posted[s] \in Posting!RequestState /\ m \in Nat
    BY DEF Posting!TypeOK, Posting!RequestState
  <2>2. Posting!GoTo(s, r)
    BY <1>2
  <2> HIDE DEF m
  <2>3. r \in Posting!RequestState /\ r.pc = "apply"
    BY <2>1, Advanced
  <2> QED BY <2>2, <2>3
<1> QED BY <1>1, <1>2 DEF Posting!GoOn

\* An event that is settled lets the request go on: to the next event, or to
\* an answer that covers the whole batch.
LEMMA GoesOn ==
  ASSUME Posting!IngestAssumption, Posting!TypeOK, NEW s \in Senders, posted[s].pc \in Applying,
         posted[s].next \in 1 .. Len(Batch[s]), Posting!GoOn(s),
         \A i \in 1 .. posted[s].next : Settled(Batch[s][i])'
  PROVE  \E r \in Posting!RequestState :
           /\ Posting!GoTo(s, r) /\ r.pc \in {"done", "apply"}
           /\ r.pc = "apply" => /\ r.next \in 1 .. Len(Batch[s])
                               /\ \A i \in 1 .. r.next - 1 : Settled(Batch[s][i])'
           /\ \A e \in acked' : e \in acked \/ Settled(e)'
           /\ acked' \subseteq acked \cup Events
<1> DEFINE n == posted[s].next
<1>1. posted[s] \in Posting!RequestState /\ n \in Nat /\ Len(Batch[s]) \in Nat
      /\ DOMAIN Batch[s] = 1 .. Len(Batch[s])
  BY Shapes DEF Posting!TypeOK, Posting!RequestState
<1>2. CASE n = Len(Batch[s])
  <2> DEFINE r == [Posting!Unsent EXCEPT !.pc = "done"]
  <2>1. r \in Posting!RequestState /\ r.pc = "done"
    BY RefusedTyped
  <2>2. Posting!GoTo(s, r) /\ acked' = acked \cup {Batch[s][i] : i \in DOMAIN Batch[s]}
    BY <1>2 DEF Posting!GoOn
  <2>3. \A e \in acked' : e \in acked \/ Settled(e)'
    BY <2>2, <1>1, <1>2
  <2>4. acked' \subseteq acked \cup Events
    BY <2>2, <1>1, Shapes
  <2> HIDE DEF r
  <2> QED BY <2>1, <2>2, <2>3, <2>4
<1>3. CASE n # Len(Batch[s])
  <2> DEFINE r == [posted[s] EXCEPT !.pc = "apply", !.next = n + 1]
  <2>0. n + 1 \in Nat
    BY <1>1
  <2>1. r \in Posting!RequestState /\ r.pc = "apply" /\ r.next = n + 1
    BY <1>1, <2>0, Advanced
  <2>2. Posting!GoTo(s, r) /\ acked' = acked
    BY <1>1, <1>3 DEF Posting!GoOn
  <2> HIDE DEF r
  <2>3. r.next \in 1 .. Len(Batch[s]) /\ r.next - 1 = n
    BY <1>1, <1>3, <2>1
  <2>4. acked' \subseteq acked \cup Events
    BY <2>2
  <2> QED BY <2>1, <2>2, <2>3, <2>4
<1> QED BY <1>2, <1>3

\* The event a request is at.
LEMMA EventTyped ==
  ASSUME Posting!IngestAssumption, Posting!TypeOK, RInv, NEW s \in Senders, posted[s].pc \in Applying
  PROVE  /\ Posting!Event(s) \in Events /\ Posting!Event(s) = Batch[s][posted[s].next]
         /\ posted[s].next \in 1 .. Len(Batch[s]) /\ posted[s].next \in Nat
         /\ \A i \in 1 .. posted[s].next : i # posted[s].next => Settled(Batch[s][i])
<1>1. /\ posted[s].next \in 1 .. Len(Batch[s])
      /\ \A i \in 1 .. posted[s].next - 1 : Settled(Batch[s][i])
  BY DEF RInv, Placed
<1>2. posted[s].next \in Nat
  BY DEF Posting!TypeOK, Posting!RequestState
<1> QED BY <1>1, <1>2, Shapes DEF Posting!Event

LEMMA TrySeenSafe ==
  ASSUME Posting!IngestAssumption, IngInv, NEW s \in Senders, Posting!TrySeen(s) PROVE IngInv'
<1> USE DEF IngInv
<1> DEFINE ev == Posting!Event(s)
<1>1. /\ posted[s].pc = "apply" /\ posted[s] \in Posting!RequestState
      /\ UNCHANGED <<config, Posting!caches, stored, orphan, Posting!bounds>>
  BY DEF Posting!TrySeen, Posting!At, Posting!TypeOK
<1>2. /\ ev \in Events /\ ev = Batch[s][posted[s].next]
      /\ posted[s].next \in 1 .. Len(Batch[s]) /\ posted[s].next \in Nat
      /\ \A i \in 1 .. posted[s].next : i # posted[s].next => Settled(Batch[s][i])
  BY <1>1, EventTyped DEF Applying
<1> HIDE DEF ev
<1>3. CASE Posting!Free(ev)
  <2> DEFINE r == [posted[s] EXCEPT !.pc = "store"]
  <2>1. r \in Posting!RequestState /\ r.pc = "store" /\ r.next = posted[s].next
    BY <1>1 DEF Posting!RequestState
  <2>2. Posting!GoTo(s, r) /\ claim' = [claim EXCEPT ![ev] = "fresh"] /\ UNCHANGED acked
    BY <1>3 DEF Posting!TrySeen, ev
  <2> HIDE DEF r
  <2>3. \A e : s \notin Held(e) /\ Held(e)' = IF e = ev THEN Held(e) \cup {s} ELSE Held(e)
    BY <1>1, <2>1, <2>2, HeldGained DEF ev
  <2>4. \A e : Settled(e) => Settled(e)'
    BY <1>1, <2>3 DEF Settled
  <2>5. \A e : e = ev => Settled(e)'
    BY <2>3 DEF Settled
  <2>6. claim' \in [Events -> {"none", "fresh", "old"}] /\ claim'[ev] = "fresh"
        /\ \A e \in Events \ {ev} : claim'[e] = claim[e]
    BY <1>2, <2>2 DEF Posting!TypeOK
  <2>7. ASSUME NEW e \in Events PROVE Paid(e)'
    <3>1. Paid(e)
      BY DEF RInv
    <3>2. CASE e = ev
      <4>1. Cardinality(Held(e) \cup {s}) = Cardinality(Held(e)) + 1
        BY <2>3, HeldFinite, FS_AddElement
      <4>2. claim[e] # "fresh" /\ claim'[e] = "fresh" /\ stored'[e] = stored[e]
            /\ expiries' = expiries /\ stored[e] \in Nat /\ expiries \in Nat
        BY <1>1, <1>3, <2>6, <3>2 DEF Posting!Free, Posting!TypeOK, Posting!bounds
      <4>3. Cardinality(Held(e))' = Cardinality(Held(e)) + 1
        BY <2>3, <3>2, <4>1
      <4>4. stored[e] + Cardinality(Held(e)) <= expiries
        BY <3>1, <4>2, HeldFinite DEF Paid
      <4> QED BY <4>2, <4>3, <4>4, HeldFinite DEF Paid
    <3>3. CASE e # ev
      BY <1>1, <2>3, <2>6, <3>1, <3>3 DEF Paid, Posting!bounds
    <3> QED BY <3>2, <3>3
  <2>8. Posting!TypeOK'
    BY <1>1, <2>1, <2>2, <2>6, Moved DEF Posting!TypeOK, Posting!caches, Posting!bounds
  <2>9. RInv'
    <3>1. \A i \in 1 .. r.next - 1 : Settled(Batch[s][i])'
      BY <1>2, <2>1, <2>4
    <3> QED BY <1>2, <2>1, <2>2, <2>4, <2>5, <2>6, <2>7, <3>1, Recorded
            DEF Applying, Checking
  <2>10. VInv'
    BY <1>1, <2>1, <2>2, Unjudged
  <2> QED BY <2>8, <2>9, <2>10
<1>4. CASE ~Posting!Free(ev)
  <2>1. Posting!GoOn(s) /\ UNCHANGED claim
    BY <1>4 DEF Posting!TrySeen, ev
  <2>2. Settled(ev)
    BY <1>2, <1>4 DEF Posting!Free, RInv
  <2>3. PICK r \in Posting!RequestState : Posting!GoTo(s, r) /\ r.pc \in {"done", "apply"}
    BY <2>1, GoOnMoves
  <2>4. \A e : Settled(e)' <=> Settled(e)
    <3>1. \A e : Held(e)' = Held(e)
      BY <1>1, <2>3, HeldKept
    <3> QED BY <1>1, <3>1 DEF Settled
  <2>5. \A i \in 1 .. posted[s].next : Settled(Batch[s][i])'
    BY <1>2, <2>2, <2>4
  <2>6. PICK q \in Posting!RequestState :
           /\ Posting!GoTo(s, q) /\ q.pc \in {"done", "apply"}
           /\ q.pc = "apply" => /\ q.next \in 1 .. Len(Batch[s])
                               /\ \A i \in 1 .. q.next - 1 : Settled(Batch[s][i])'
           /\ \A e \in acked' : e \in acked \/ Settled(e)'
           /\ acked' \subseteq acked \cup Events
    BY <1>1, <1>2, <2>1, <2>5, GoesOn DEF Applying
  <2>7. Posting!TypeOK'
    BY <1>1, <2>1, <2>6, Moved DEF Posting!TypeOK, Posting!caches, Posting!bounds
  <2>8. RInv'
    BY <1>1, <2>1, <2>4, <2>6, Unclaimed DEF Posting!bounds, Checking
  <2>9. VInv'
    BY <1>1, <2>6, Unjudged
  <2> QED BY <2>7, <2>8, <2>9
<1> QED BY <1>3, <1>4

LEMMA StoreSafe ==
  ASSUME Posting!IngestAssumption, IngInv, NEW s \in Senders, Posting!Store(s) PROVE IngInv'
<1> USE DEF IngInv
<1> DEFINE ev == Posting!Event(s)
<1>1. /\ posted[s].pc = "store" /\ posted[s] \in Posting!RequestState
      /\ UNCHANGED <<config, Posting!caches, claim, Posting!bounds>>
  BY DEF Posting!Store, Posting!At, Posting!TypeOK
<1>2. /\ ev \in Events /\ ev = Batch[s][posted[s].next]
      /\ posted[s].next \in 1 .. Len(Batch[s]) /\ posted[s].next \in Nat
      /\ \A i \in 1 .. posted[s].next : i # posted[s].next => Settled(Batch[s][i])
  BY <1>1, EventTyped DEF Applying
<1>3. ASSUME NEW r \in Posting!RequestState, Posting!GoTo(s, r), r.pc # "store"
      PROVE  \A e : /\ s \in Held(e) <=> e = ev
                   /\ Held(e)' = Held(e) \ {s}
  BY <1>1, <1>3, HeldLost
<1> HIDE DEF ev
<1>4. CASE ev \in BadData
  <2> DEFINE r == [Posting!Unsent EXCEPT !.pc = "refused"]
  <2>1. r \in Posting!RequestState /\ r.pc = "refused"
    BY RefusedTyped
  <2>2. Posting!GoTo(s, r) /\ orphan' = orphan \cup {ev} /\ UNCHANGED <<stored, acked>>
    BY <1>4 DEF Posting!Store, Posting!Refuse, ev
  <2> HIDE DEF r
  <2>3. \A e : /\ s \in Held(e) <=> e = ev
              /\ Held(e)' = Held(e) \ {s}
    BY <1>3, <2>1, <2>2
  <2>4. \A e : Settled(e) => Settled(e)'
    BY <2>2, <2>3 DEF Settled
  <2>5. ASSUME NEW e \in Events PROVE Paid(e)'
    <3>1. Cardinality(Held(e))' <= Cardinality(Held(e)) /\ Cardinality(Held(e))' \in Nat
      <4>1. /\ Held(e) \ {s} \in SUBSET Held(e)
            /\ IsFiniteSet(Held(e)) /\ IsFiniteSet(Held(e) \ {s})
        BY HeldFinite, FS_RemoveElement
      <4>2. /\ Cardinality(Held(e) \ {s}) <= Cardinality(Held(e))
            /\ Cardinality(Held(e) \ {s}) \in Nat
        BY <4>1, FS_Subset, FS_CardinalityType
      <4> QED BY <2>3, <4>2
    <3>2. /\ stored'[e] = stored[e] /\ stored[e] \in Nat
          /\ claim'[e] = claim[e] /\ expiries' = expiries /\ expiries \in Nat
      BY <1>1, <2>2 DEF Posting!TypeOK, Posting!bounds
    <3>3. Paid(e)
      BY DEF RInv
    <3> QED BY <3>1, <3>2, <3>3, HeldFinite DEF Paid
  <2>6. Posting!TypeOK'
    BY <1>1, <1>2, <2>1, <2>2, Moved DEF Posting!TypeOK, Posting!caches, Posting!bounds
  <2>7. RInv'
    BY <1>1, <2>1, <2>2, <2>4, <2>5, Recorded DEF Applying, Checking
  <2>8. VInv'
    BY <1>1, <2>1, <2>2, Unjudged
  <2> QED BY <2>6, <2>7, <2>8
<1>5. CASE ev \notin BadData
  <2>1. /\ stored' = [stored EXCEPT ![ev] = @ + 1] /\ Posting!GoOn(s) /\ UNCHANGED orphan
    BY <1>5 DEF Posting!Store, Posting!Stores, ev
  <2>2. stored' \in [Events -> Nat] /\ stored'[ev] = stored[ev] + 1 /\ stored[ev] \in Nat
        /\ \A e \in Events \ {ev} : stored'[e] = stored[e]
    BY <1>2, <2>1 DEF Posting!TypeOK
  <2>3. PICK q \in Posting!RequestState : Posting!GoTo(s, q) /\ q.pc \in {"done", "apply"}
    BY <2>1, GoOnMoves
  <2>4. \A e : /\ s \in Held(e) <=> e = ev
              /\ Held(e)' = Held(e) \ {s}
    BY <1>3, <2>3
  <2>5. \A e : e = ev => Settled(e)'
    BY <2>2 DEF Settled
  <2>6. ASSUME NEW e \in Events, Settled(e) PROVE Settled(e)'
    <3>1. CASE e = ev
      BY <2>5, <3>1
    <3>2. CASE e # ev
      BY <2>1, <2>2, <2>4, <2>6, <3>2 DEF Settled
    <3> QED BY <3>1, <3>2
  <2>7. \A i \in 1 .. posted[s].next : Settled(Batch[s][i])'
    BY <1>2, <2>5, <2>6, Shapes
  <2>8. PICK r \in Posting!RequestState :
           /\ Posting!GoTo(s, r) /\ r.pc \in {"done", "apply"}
           /\ r.pc = "apply" => /\ r.next \in 1 .. Len(Batch[s])
                               /\ \A i \in 1 .. r.next - 1 : Settled(Batch[s][i])'
           /\ \A e \in acked' : e \in acked \/ Settled(e)'
           /\ acked' \subseteq acked \cup Events
    BY <1>1, <1>2, <2>1, <2>7, GoesOn DEF Applying
  <2>9. ASSUME NEW e \in Events PROVE Paid(e)'
    <3>1. /\ claim'[e] = claim[e] /\ expiries' = expiries /\ expiries \in Nat
          /\ Paid(e) /\ stored[e] \in Nat
      BY <1>1 DEF Posting!TypeOK, Posting!bounds, RInv
    <3>2. CASE e = ev
      <4>1. Cardinality(Held(e))' = Cardinality(Held(e)) - 1
        BY <2>4, <3>2, HeldFinite, FS_RemoveElement
      <4>2. stored'[e] = stored[e] + 1
        BY <2>2, <3>2
      <4> QED BY <3>1, <4>1, <4>2, HeldFinite DEF Paid
    <3>3. CASE e # ev
      <4>1. Held(e)' = Held(e) /\ stored'[e] = stored[e]
        BY <2>2, <2>4, <3>3
      <4> QED BY <3>1, <4>1 DEF Paid
    <3> QED BY <3>2, <3>3
  <2>10. Posting!TypeOK'
    BY <1>1, <2>1, <2>2, <2>8, Moved DEF Posting!TypeOK, Posting!caches, Posting!bounds
  <2>11. RInv'
    <3>1. ASSUME NEW t \in Senders PROVE Placed(t)'
      <4>1. CASE t = s
        BY <2>8, <4>1, Moved DEF Placed, Checking, Applying
      <4>2. CASE t # s
        <5>1. posted'[t] = posted[t] /\ Placed(t)
          BY <2>8, <4>2, Moved DEF RInv
        <5>2. posted[t].pc \in Applying => \A i \in 1 .. posted[t].next - 1 :
                 Batch[t][i] \in Events
          BY <5>1, Shapes DEF Placed, Posting!TypeOK, Posting!RequestState
        <5> QED BY <2>6, <5>1, <5>2 DEF Placed
      <4> QED BY <4>1, <4>2
    <3>2. acked \subseteq Events
      BY DEF Posting!TypeOK
    <3> QED BY <1>1, <2>6, <2>8, <2>9, <3>1, <3>2 DEF RInv
  <2>12. VInv'
    BY <1>1, <2>8, Unjudged
  <2> QED BY <2>10, <2>11, <2>12
<1> QED BY <1>4, <1>5

---------------------------------------------------------------------------
(***************************************************************************)
(* Failures, retries and the passing of time.                              *)
(***************************************************************************)
\* A request that fails leaves its claim behind.
LEMMA FailSafe ==
  ASSUME Posting!IngestAssumption, IngInv, NEW s \in Senders, Posting!Fail(s) PROVE IngInv'
<1> USE DEF IngInv
<1> DEFINE r == [Posting!Unsent EXCEPT !.pc = "refused"]
<1>1. r \in Posting!RequestState /\ r.pc = "refused"
  BY RefusedTyped
<1>2. /\ Posting!GoTo(s, r) /\ failures' = failures + 1 /\ orphan' = orphan \cup Posting!Claimed({s})
      /\ UNCHANGED <<config, Posting!caches, claim, stored, acked, edits, expiries>>
  BY DEF Posting!Fail, Posting!Refuse
<1> HIDE DEF r
<1>3. /\ \A e : Held(e) \ {s} \subseteq Held(e)' /\ Held(e)' \subseteq Held(e)
      /\ \A e : s \in Held(e) => e \in Posting!Claimed({s})
  BY <1>1, <1>2, Moved DEF Held, Posting!At, Posting!Event, Posting!Claimed
<1>4. \A e : Settled(e) => Settled(e)'
  BY <1>2, <1>3 DEF Settled
<1>5. ASSUME NEW e \in Events PROVE Paid(e)'
  <2>1. Cardinality(Held(e))' <= Cardinality(Held(e)) /\ Cardinality(Held(e))' \in Nat
    BY <1>3, HeldFinite, FS_Subset, FS_CardinalityType
  <2>2. /\ stored'[e] = stored[e] /\ stored[e] \in Nat
        /\ claim'[e] = claim[e] /\ expiries' = expiries /\ expiries \in Nat /\ Paid(e)
    BY <1>2 DEF Posting!TypeOK, RInv
  <2> QED BY <2>1, <2>2, HeldFinite DEF Paid
<1>6. Posting!TypeOK'
  <2>1. Posting!Claimed({s}) \subseteq Events
    <3>1. Posting!At(s, "store") => Posting!Event(s) \in Events
      BY EventTyped DEF Posting!At, Applying
    <3> QED BY <3>1 DEF Posting!Claimed
  <2>2. posted' \in [Senders -> Posting!RequestState]
    BY <1>1, <1>2, Moved
  <2>3. failures' \in Nat /\ edits' \in Nat /\ expiries' \in Nat
    BY <1>2 DEF Posting!TypeOK
  <2>4. orphan' \subseteq Events
    <3>1. orphan \subseteq Events
      BY DEF Posting!TypeOK
    <3>2. orphan' = orphan \cup Posting!Claimed({s})
      BY <1>2
    <3> HIDE DEF IngInv
    <3> QED BY <2>1, <3>1, <3>2
  <2>5. /\ config' \in Posting!Settings /\ claim' \in [Events -> {"none", "fresh", "old"}]
        /\ entry' \in [for : Configs \cup {None}, verifier : Configs \cup {None}]
        /\ pool' \in [{PoolKey[c] : c \in Configs} -> Configs \cup {None}]
        /\ stored' \in [Events -> Nat] /\ acked' \subseteq Events
    BY <1>2 DEF Posting!TypeOK, Posting!caches
  <2>6. Posting!Settings' = Posting!Settings
    BY DEF Posting!Settings
  <2>7. {edits, failures, expiries}' \subseteq Nat
    BY <2>3
  <2> QED BY <2>2, <2>4, <2>5, <2>6, <2>7 DEF Posting!TypeOK
<1>7. RInv'
  BY <1>1, <1>2, <1>4, <1>5, Recorded DEF Applying, Checking
<1>8. VInv'
  BY <1>1, <1>2, Unjudged
<1> QED BY <1>6, <1>7, <1>8

LEMMA CrashSafe ==
  ASSUME Posting!IngestAssumption, IngInv, Posting!Crash PROVE IngInv'
<1> USE DEF IngInv
<1>1. /\ failures' = failures + 1 /\ orphan' = orphan \cup Posting!Claimed(Senders) /\ entry' = Posting!NoEntry
      /\ pool' = [k \in DOMAIN pool |-> None]
      /\ UNCHANGED <<config, claim, stored, acked, edits, expiries>>
  BY DEF Posting!Crash
<1>2. \A s \in Senders : posted'[s] \in Posting!RequestState /\ posted'[s].pc \in {"unsent", "done", "refused"}
  BY RefusedTyped DEF Posting!Crash, Posting!TypeOK
<1>3. posted' \in [Senders -> Posting!RequestState]
  <2>1. posted' = [s \in Senders |-> posted'[s]]
    BY DEF Posting!Crash
  <2> QED BY <1>2, <2>1
<1>4. \A e : Held(e)' = {}
  BY <1>2 DEF Held, Posting!At
<1>5. \A e : Held(e) # {} => e \in Posting!Claimed(Senders)
  BY DEF Held, Posting!Claimed
<1>6. \A e : Settled(e) => Settled(e)'
  BY <1>1, <1>5 DEF Settled
<1>7. Posting!TypeOK'
  <2>1. Posting!Claimed(Senders) \subseteq Events
    <3>1. \A s \in Senders : Posting!At(s, "store") => Posting!Event(s) \in Events
      BY EventTyped DEF Posting!At, Applying
    <3> QED BY <3>1 DEF Posting!Claimed
  <2> QED BY <1>1, <1>3, <2>1 DEF Posting!TypeOK, Posting!NoEntry
<1>8. ASSUME NEW e \in Events PROVE Paid(e)'
  <2>1. Cardinality(Held(e))' = 0
    BY <1>4, FS_EmptySet
  <2>2. /\ stored'[e] = stored[e] /\ stored[e] \in Nat
        /\ claim'[e] = claim[e] /\ expiries' = expiries /\ expiries \in Nat /\ Paid(e)
    BY <1>1 DEF Posting!TypeOK, RInv
  <2> QED BY <2>1, <2>2, HeldFinite DEF Paid
<1>9. RInv'
  BY <1>1, <1>2, <1>6, <1>8 DEF RInv, Placed, Checking, Applying
<1>10. VInv'
  BY <1>1, <1>2 DEF VInv, Posting!At, Posting!NoEntry, Posting!TypeOK
<1> QED BY <1>7, <1>9, <1>10

LEMMA ResendSafe ==
  ASSUME Posting!IngestAssumption, IngInv, NEW s \in Senders, Posting!Resend(s) PROVE IngInv'
<1> USE DEF IngInv
<1>1. /\ Posting!GoTo(s, Posting!Unsent) /\ posted[s].pc \in {"refused", "done"} /\ failures' \in Nat
      /\ UNCHANGED <<config, Posting!caches, Posting!records, edits, expiries>>
  BY DEF Posting!Resend, Posting!At, Posting!TypeOK
<1>2. Posting!TypeOK'
  BY <1>1, UnsentTyped, Moved DEF Posting!TypeOK, Posting!caches, Posting!records
<1>3. RInv'
  BY <1>1, UnsentTyped, Unclaimed DEF Posting!records, Checking
<1>4. VInv'
  BY <1>1, UnsentTyped, Unjudged
<1> QED BY <1>2, <1>3, <1>4

LEMMA OutsideSafe ==
  ASSUME Posting!IngestAssumption, IngInv,
         \/ \E x \in Posting!Settings : Posting!SetConfig(x)
         \/ \E k \in DOMAIN pool : Posting!Lapse(k)
         \/ \E e \in Events : Posting!ClaimAges(e)
         \/ UNCHANGED Posting!vars
  PROVE  IngInv'
<1> USE DEF IngInv
<1>1. UNCHANGED <<posted, stored, acked, orphan>>
  BY DEF Posting!SetConfig, Posting!Lapse, Posting!ClaimAges, Posting!records, Posting!vars
<1>2. \A e : Held(e)' = Held(e)
  BY <1>1 DEF Held, Posting!At, Posting!Event
<1>3. \A e : Settled(e)' <=> Settled(e)
  BY <1>1, <1>2 DEF Settled
<1>4. \A s \in Senders : Placed(s)'
  BY <1>1, <1>3 DEF RInv, Placed
<1>5. CASE UNCHANGED <<claim, expiries>>
  <2>1. \A e \in Events : Paid(e)'
    BY <1>1, <1>2, <1>5 DEF RInv, Paid
  <2>2. RInv'
    BY <1>1, <1>3, <1>4, <1>5, <2>1 DEF RInv
  <2>3. CASE \E x \in Posting!Settings : Posting!SetConfig(x)
    BY <2>2, <2>3 DEF Posting!SetConfig, Posting!TypeOK, Posting!caches, Posting!records, VInv, Posting!At
  <2>4. CASE \E k \in DOMAIN pool : Posting!Lapse(k)
    BY <2>2, <2>4 DEF Posting!Lapse, Posting!TypeOK, Posting!records, Posting!bounds, VInv, Posting!At
  <2>5. CASE \E e \in Events : Posting!ClaimAges(e)
    BY <1>5, <2>5 DEF Posting!ClaimAges, Posting!TypeOK
  <2>6. CASE UNCHANGED Posting!vars
    BY <2>2, <2>6 DEF Posting!vars, Posting!TypeOK, VInv, Posting!At
  <2> QED BY <2>3, <2>4, <2>5, <2>6
<1>6. ASSUME NEW e \in Events, Posting!ClaimAges(e) PROVE IngInv'
  <2>1. /\ claim[e] = "fresh" /\ expiries' = expiries + 1
        /\ claim' = [claim EXCEPT ![e] = "old"]
        /\ UNCHANGED <<config, Posting!caches, edits, failures>>
    BY <1>6 DEF Posting!ClaimAges
  <2>2. claim' \in [Events -> {"none", "fresh", "old"}] /\ claim'[e] = "old"
        /\ \A f \in Events \ {e} : claim'[f] = claim[f]
    BY <2>1 DEF Posting!TypeOK
  <2>3. Posting!TypeOK'
    BY <1>1, <2>1, <2>2 DEF Posting!TypeOK, Posting!caches
  <2>4. ASSUME NEW f \in Events PROVE Paid(f)'
    <3>1. /\ stored'[f] = stored[f] /\ stored[f] \in Nat /\ expiries \in Nat /\ Paid(f)
          /\ Cardinality(Held(f))' = Cardinality(Held(f))
      BY <1>1, <1>2 DEF Posting!TypeOK, RInv
    <3> QED BY <2>1, <2>2, <3>1, HeldFinite DEF Paid
  <2>5. RInv'
    BY <1>1, <1>3, <1>4, <2>1, <2>2, <2>4 DEF RInv
  <2>6. VInv'
    BY <1>1, <2>1 DEF VInv, Posting!At, Posting!caches
  <2> QED BY <2>3, <2>5, <2>6
<1> QED BY <1>5, <1>6 DEF Posting!SetConfig, Posting!Lapse, Posting!records, Posting!bounds, Posting!vars

---------------------------------------------------------------------------
LEMMA IngStep == ASSUME Posting!IngestAssumption, IngInv, [Posting!Next]_Posting!vars PROVE IngInv'
<1>1. ASSUME NEW s \in Senders, Posting!Step(s) \/ Posting!Fail(s) \/ Posting!Resend(s) PROVE IngInv'
  BY <1>1, ReceiveSafe, ResolveSafe, VerifySafe, TrySeenSafe, StoreSafe, FailSafe,
     ResendSafe
     DEF Posting!Step
<1> QED BY <1>1, CrashSafe, OutsideSafe DEF Posting!Next

\* The inductive invariant holds of every reachable state.
THEOREM IngestInvariant == Posting!IngestAssumption => (Posting!Spec => []IngInv)
<1> SUFFICES ASSUME Posting!IngestAssumption PROVE Posting!Spec => []IngInv
  OBVIOUS
<1>1. IngInv /\ [Posting!Next]_Posting!vars => IngInv'
  BY IngStep
<1> QED BY <1>1, IngInit, PTL DEF Posting!Spec

---------------------------------------------------------------------------
(***************************************************************************)
(* THE INTERFACE                                                           *)
(***************************************************************************)
\* Every behaviour of the interface is one of each part.
LEMMA PartsRun == InterfaceSpec => Spec /\ Reading!Spec /\ Posting!Spec
<1>1. InterfaceInit => Init /\ Reading!Init /\ Posting!Init
  BY DEF InterfaceInit
<1>2. [SignStep \/ ReadStep \/ PostStep]_<<signing, reading, posting>> =>
        [Next]_vars /\ [Reading!Next]_Reading!vars /\ [Posting!Next]_Posting!vars
  BY DEF SignStep, ReadStep, PostStep, signing, reading, posting, Reading!vars, Posting!vars
<1> QED BY <1>1, <1>2, PTL DEF InterfaceSpec, Spec, Reading!Spec, Posting!Spec

\* The states of the three parts are well formed; perOrg counts the consumers
\* in the cache and the gate the open streams, within their limits, in
\* whatever order requests, refusals and sweeps come; and Rotate leaves one
\* active key, but for rotations that were cut short or overlapped.
THEOREM WellFormed == InterfaceSpec => []Types
<1>1. KInv /\ StrayKeysBounded /\ SInv /\ IngInv => Types
  BY DEF KInv, KeysSound, SInv, IngInv, Types
<1> QED BY <1>1, PartsRun, KeysHold, StraysAreBounded, CacheInvariant, IngestInvariant,
           InterfaceAssumption, PTL

\* A consumer in the cache is the one subscription of its name once ensure
\* has returned, unless it was made while the sweeper was about to remove
\* its predecessor's.
THEOREM CachedIsSubscribed == InterfaceSpec => []SubscribedUnlessSwept
<1>1. SInv => SubscribedUnlessSwept
  BY DEF SInv, SubscribedUnlessSwept
<1> QED BY <1>1, PartsRun, CacheInvariant, InterfaceAssumption, PTL

\* Whoever sends an event, at the same time or again after errors, crashes and
\* lost answers, it is recorded once in a window; and what was answered with
\* 200 is recorded, but for claims that outlived the request that made them.
THEOREM OnceAndForAll == InterfaceSpec => []RecordedOnce
<1>1. ASSUME IngInv PROVE RecordedOnce
  <2> USE InterfaceAssumption
  <2>1. ASSUME NEW e \in Events PROVE stored[e] <= 1 + expiries
    <3>1. stored[e] \in Nat /\ expiries \in Nat /\ Paid(e)
      BY <1>1 DEF IngInv, Posting!TypeOK, RInv
    <3> QED BY <3>1, HeldFinite DEF Paid
  <2>2. \A e : Held(e) # {} => e \in Posting!Claimed(Senders)
    BY DEF Held, Posting!Claimed
  <2>3. Posting!AckedIsStored
    BY <1>1, <2>2 DEF Posting!AckedIsStored, IngInv, RInv, Settled
  <2> QED BY <2>1, <2>3 DEF RecordedOnce, Posting!RecordedOnce, Posting!OncePerWindow
<1> QED BY <1>1, PartsRun, IngestInvariant, InterfaceAssumption, PTL

\* The two verifier caches, filled, replaced and invalidated by requests of
\* different configurations, never give a request a verifier of another one.
THEOREM JudgedByItsOwn == InterfaceSpec => []JudgedAsConfigured
<1>1. IngInv => JudgedAsConfigured
  BY DEF IngInv, VInv, Fits, JudgedAsConfigured, Posting!JudgedAsConfigured
<1> QED BY <1>1, PartsRun, IngestInvariant, InterfaceAssumption, PTL
=============================================================================
