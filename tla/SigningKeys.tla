---------------------------- MODULE SigningKeys ----------------------------
(***************************************************************************)
(* The keys that sign CloudEvent tokens (internal/auth/jwks): generation   *)
(* at boot, the rotation that every replica of the server runs on its own, *)
(* the published key set and the signers.  The mutex of Rotate is local to *)
(* a process; replicas share only the table of keys.                       *)
(*                                                                         *)
(* Time passes in coarse units, weeks in the code.  A boot, a rotation and *)
(* the minting of a token take far less than that, so the clock waits for  *)
(* them.  Keys are numbered in the order of their created_at.              *)
(***************************************************************************)
EXTENDS Integers, FiniteSets

CONSTANTS
  Replicas,
  Callers,          \* goroutines that mint tokens
  ActiveKeyMaxAge,
  RetiringOverlap,
  ExpiredKeyPruneAge,
  TokenTTL,
  NoTime,           \* retired_at of a key that is not retired
  MaxTime,          \* bound: clock
  MaxKeys,          \* bound: keys generated
  MaxUpsets         \* bound: failed database calls and crashes

ASSUME SigningKeysAssumption ==
  /\ {ActiveKeyMaxAge, RetiringOverlap, ExpiredKeyPruneAge, TokenTTL} \subseteq Nat
  /\ ActiveKeyMaxAge > 0 /\ TokenTTL > 0
  /\ RetiringOverlap >= TokenTTL
  /\ NoTime \notin Nat /\ IsFiniteSet(Replicas)
  /\ {MaxTime, MaxKeys, MaxUpsets} \subseteq Nat

VARIABLES
  now,
  keys,      \* the table: for each kid its row, or NoKey
  made,      \* kids generated so far
  replica,   \* what each replica's boot or rotation is at
  signer,    \* the key of the signer each caller holds, 0 for none
  tokens,    \* tokens that have not expired: key and expiry
  upsets,
  overlaps   \* history: keys saved although another replica's was fresh

vars == <<now, keys, made, replica, signer, tokens, upsets, overlaps>>

Kids == 1 .. MaxKeys
NoKey == [status |-> "none", created |-> 0, retired |-> NoTime]

Row == [status : {"none", "active", "retiring", "expired"},
        created : Nat, retired : Nat \cup {NoTime}]

\* kid: the key being saved; old: the active key it replaces, 0 for none;
\* todo: the retiring keys still to expire.
ReplicaState ==
  [pc : {"idle", "boot", "save", "retire", "expire", "prune"},
   kid : 0 .. MaxKeys, old : 0 .. MaxKeys, todo : SUBSET Kids]

Idle == [pc |-> "idle", kid |-> 0, old |-> 0, todo |-> {}]

TypeOK ==
  /\ now \in Nat
  /\ keys \in [Kids -> Row]
  /\ made \in 0 .. MaxKeys
  /\ replica \in [Replicas -> ReplicaState]
  /\ signer \in [Callers -> 0 .. MaxKeys]
  /\ tokens \subseteq [kid : Kids, exp : Nat]
  /\ upsets \in Nat /\ overlaps \in Nat

Init ==
  /\ now = 0
  /\ keys = [k \in Kids |-> NoKey] /\ made = 0
  /\ replica = [r \in Replicas |-> Idle]
  /\ signer = [c \in Callers |-> 0] /\ tokens = {}
  /\ upsets = 0 /\ overlaps = 0

WithStatus(statuses) == {k \in Kids : keys[k].status \in statuses}
Active == WithStatus({"active"})
Public == WithStatus({"active", "retiring"})   \* ListPublic, the JWK Set

IsLatest(k, set) == k \in set /\ \A j \in set : j <= k
LatestActive == IF Active = {} THEN 0 ELSE CHOOSE k \in Active : IsLatest(k, Active)

At(r, state) == replica' = [replica EXCEPT ![r] = state]

NewRow == [status |-> "active", created |-> now, retired |-> NoTime]

---------------------------------------------------------------------------
(***************************************************************************)
(* EnsureInitialKey and Rotate.                                            *)
(***************************************************************************)
Generate(r, pc, old) ==
  /\ made < MaxKeys
  /\ made' = made + 1
  /\ At(r, [pc |-> pc, kid |-> made + 1, old |-> old, todo |-> {}])

Boot(r) ==
  /\ replica[r].pc = "idle" /\ Public = {}
  /\ Generate(r, "boot", 0)
  /\ UNCHANGED <<now, keys, signer, tokens, upsets, overlaps>>

Aged(k) == now - keys[k].created >= ActiveKeyMaxAge

RotateStart(r) ==
  /\ replica[r].pc = "idle"
  /\ IF LatestActive = 0 \/ Aged(LatestActive)
     THEN Generate(r, "save", LatestActive)
     ELSE At(r, [Idle EXCEPT !.pc = "expire"]) /\ UNCHANGED made
  /\ UNCHANGED <<now, keys, signer, tokens, upsets, overlaps>>

\* What follows Save, which EnsureInitialKey calls as well.
AfterSave(r) ==
  CASE replica[r].pc = "boot"                       -> Idle
    [] replica[r].pc = "save" /\ replica[r].old = 0 -> [Idle EXCEPT !.pc = "expire"]
    [] replica[r].pc = "save" /\ replica[r].old # 0 -> [replica[r] EXCEPT !.pc = "retire"]

Save(r) ==
  /\ replica[r].pc \in {"boot", "save"}
  /\ keys' = [keys EXCEPT ![replica[r].kid] = NewRow]
  /\ At(r, AfterSave(r))
  /\ overlaps' = overlaps + (IF Active \subseteq {replica[r].old} THEN 0 ELSE 1)
  /\ UNCHANGED <<now, made, signer, tokens, upsets>>

\* UpdateStatus looks at the kid only; it fails when the row is gone.
Retired(k) == [keys[k] EXCEPT !.status = "retiring", !.retired = now]

Retire(r) ==
  LET old == replica[r].old IN
  /\ replica[r].pc = "retire"
  /\ IF keys[old] = NoKey
     THEN At(r, Idle) /\ UNCHANGED keys
     ELSE /\ keys' = [keys EXCEPT ![old] = Retired(old)]
          /\ At(r, [Idle EXCEPT !.pc = "expire"])
  /\ UNCHANGED <<now, made, signer, tokens, upsets, overlaps>>

\* Step 3 lists the keys again, ...
BugOverdue(k) == keys[k].status = "retiring" /\ now - keys[k].retired >= ActiveKeyMaxAge
Overdue(k) == keys[k].status = "retiring" /\ now - keys[k].retired >= RetiringOverlap

ExpireList(r) ==
  /\ replica[r].pc = "expire"
  /\ At(r, [pc |-> "prune", kid |-> 0, old |-> 0, todo |-> {k \in Kids : Overdue(k)}])
  /\ UNCHANGED <<now, keys, made, signer, tokens, upsets, overlaps>>

\* ... and expires those that are overdue one by one.
Expire(r, k) ==
  /\ replica[r].pc = "prune" /\ k \in replica[r].todo
  /\ IF keys[k] = NoKey
     THEN At(r, Idle) /\ UNCHANGED keys
     ELSE /\ keys' = [keys EXCEPT ![k] = [@ EXCEPT !.status = "expired"]]
          /\ At(r, [replica[r] EXCEPT !.todo = @ \ {k}])
  /\ UNCHANGED <<now, made, signer, tokens, upsets, overlaps>>

Prunable(k) == keys[k].status = "expired" /\ keys[k].retired < now - ExpiredKeyPruneAge

Prune(r) ==
  /\ replica[r].pc = "prune" /\ replica[r].todo = {}
  /\ keys' = [k \in Kids |-> IF Prunable(k) THEN NoKey ELSE keys[k]]
  /\ At(r, Idle)
  /\ UNCHANGED <<now, made, signer, tokens, upsets, overlaps>>

\* A database call fails and Rotate returns, or the replica crashes.
Upset(r) ==
  /\ upsets < MaxUpsets /\ replica[r].pc # "idle"
  /\ upsets' = upsets + 1
  /\ At(r, Idle)
  /\ UNCHANGED <<now, keys, made, signer, tokens, overlaps>>

---------------------------------------------------------------------------
(***************************************************************************)
(* Minting: a caller gets a signer for the active key and signs with it,   *)
(* while replicas may be rotating.                                         *)
(***************************************************************************)
SignerKeys == {k \in Kids : IsLatest(k, Active)}

GetActiveSigner(c) ==
  /\ signer[c] = 0
  /\ \E k \in SignerKeys : signer' = [signer EXCEPT ![c] = k]
  /\ UNCHANGED <<now, keys, made, replica, tokens, upsets, overlaps>>

Sign(c) ==
  /\ signer[c] # 0
  /\ tokens' = tokens \cup {[kid |-> signer[c], exp |-> now + TokenTTL]}
  /\ signer' = [signer EXCEPT ![c] = 0]
  /\ UNCHANGED <<now, keys, made, replica, upsets, overlaps>>

Tick ==
  /\ now < MaxTime
  /\ \A r \in Replicas : replica[r].pc = "idle"
  /\ \A c \in Callers : signer[c] = 0
  /\ now' = now + 1
  /\ tokens' = {t \in tokens : t.exp > now + 1}
  /\ UNCHANGED <<keys, made, replica, signer, upsets, overlaps>>

Rotate(r) ==
  RotateStart(r) \/ Save(r) \/ Retire(r) \/ ExpireList(r) \/ Prune(r)
    \/ \E k \in Kids : Expire(r, k)

Next ==
  \/ \E r \in Replicas : Boot(r) \/ Rotate(r) \/ Upset(r)
  \/ \E c \in Callers : GetActiveSigner(c) \/ Sign(c)
  \/ Tick

Spec == Init /\ [][Next]_vars

---------------------------------------------------------------------------
\* "RetiringOverlap is how long a retiring key stays in the JWK Set ... so
\* in-flight tokens still verify": whoever fetches the key set finds the key
\* of every token that has not expired, whichever replicas rotated, failed or
\* crashed since it was minted.
TokensVerify == \A t \in tokens : t.kid \in Public

\* Once there is a key there is an active one, so that GetActiveSigner does
\* not fail in the middle of a rotation or after one that went wrong.
SignerRemains == Public # {} => Active # {}

\* Rotate replaces the active key.  Only a rotation that was cut short or
\* overlapped with another leaves one more, which later rotations, looking at
\* the latest only, never retire.
StrayKeysBounded ==
  Cardinality(Active) <=
    1 + upsets + overlaps + Cardinality({r \in Replicas : replica[r].pc = "retire"})
=============================================================================
