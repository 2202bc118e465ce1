------------------------------- MODULE Ingest -------------------------------
(***************************************************************************)
(* CloudEvents sent to a monitor (internal/api/handlers/cloudevents.go):   *)
(* the organisation's token verifier with its two caches, the validation   *)
(* of a batch, and its events applied one by one, each claimed in the      *)
(* idempotency table before its check is stored.  Senders repeat a batch   *)
(* whose answer was an error or got lost.                                  *)
(*                                                                         *)
(* One monitor stands for all: claims, like configurations, are apart for  *)
(* different monitors and organisations.                                   *)
(***************************************************************************)
EXTENDS Integers, Sequences, FiniteSets

CONSTANTS
  Senders,
  Events,       \* ids of events
  Batch,        \* Batch[s]: the events that a sender wants to have recorded
  BadData,      \* events whose data Ingest cannot use
  Malformed,    \* events that do not pass the validation of the envelope
  MaxBatchLen,  \* maxIngestBatchLen
  Configs,      \* OIDC configurations
  PoolKey,      \* PoolKey[cfg]: issuer, key set and sorted audiences of cfg
  Accepted,     \* Accepted[s]: the pool keys of which the sender's token is good
  None,
  MaxEdits,     \* bound: changes of the configuration
  MaxUpsets,    \* bound: failed statements, lost answers and crashes
  MaxExpiries   \* bound: expiries of claims

IngestAssumption ==
  /\ Batch \in [Senders -> Seq(Events)]
  /\ BadData \subseteq Events /\ Malformed \subseteq Events
  /\ {None, "broken"} \cap Configs = {} /\ None # "broken"
  /\ PoolKey \in [Configs -> {PoolKey[c] : c \in Configs}]
  /\ IsFiniteSet(Senders)
  /\ {MaxBatchLen, MaxEdits, MaxUpsets, MaxExpiries} \subseteq Nat

VARIABLES
  config,    \* the setting of the organisation: a configuration, None or "broken"
  entry,     \* verifierCache: the configuration it was made for and its verifier
  pool,      \* verifierPool: for each key the verifier, named by its configuration
  request,   \* what each sender's request is at
  claim,     \* the idempotency row of each event: none, fresh or older than the TTL
  stored,    \* how many checks each event has left
  acked,     \* history: events of batches that were answered 200
  orphan,    \* history: events whose claim outlived a request that failed
  edits, upsets, expiries

vars == <<config, entry, pool, request, claim, stored, acked, orphan,
          edits, upsets, expiries>>

Settings == Configs \cup {None, "broken"}
NoEntry == [for |-> None, verifier |-> None]

\* next: the position in the batch; with: the configuration the request has
\* loaded and the verifier it was given.
RequestState ==
  [pc : {"unsent", "auth", "verify", "validate", "apply", "store", "done", "refused"},
   next : Nat, for : Configs \cup {None}, verifier : Configs \cup {None}]

Unsent == [pc |-> "unsent", next |-> 1, for |-> None, verifier |-> None]

TypeOK ==
  /\ config \in Settings
  /\ entry \in [for : Configs \cup {None}, verifier : Configs \cup {None}]
  /\ pool \in [{PoolKey[c] : c \in Configs} -> Configs \cup {None}]
  /\ request \in [Senders -> RequestState]
  /\ claim \in [Events -> {"none", "fresh", "old"}]
  /\ stored \in [Events -> Nat]
  /\ acked \subseteq Events /\ orphan \subseteq Events
  /\ {edits, upsets, expiries} \subseteq Nat

Init ==
  /\ config = None
  /\ entry = NoEntry
  /\ pool = [k \in {PoolKey[c] : c \in Configs} |-> None]
  /\ request = [s \in Senders |-> Unsent]
  /\ claim = [e \in Events |-> "none"] /\ stored = [e \in Events |-> 0]
  /\ acked = {} /\ orphan = {}
  /\ edits = 0 /\ upsets = 0 /\ expiries = 0

caches  == <<entry, pool>>
records == <<claim, stored, acked, orphan>>
bounds  == <<edits, upsets, expiries>>

GoTo(s, state) == request' = [request EXCEPT ![s] = state]
At(s, pc) == request[s].pc = pc
Refuse(s) == GoTo(s, [Unsent EXCEPT !.pc = "refused"])
Event(s) == Batch[s][request[s].next]

---------------------------------------------------------------------------
(***************************************************************************)
(* Ingest up to the first event.                                           *)
(***************************************************************************)
\* The monitor of the integration key and the setting of its organisation are
\* read.  No setting, or type "none", lets the request through; a setting
\* that cannot be understood does not.
Receive(s) ==
  /\ At(s, "unsent")
  /\ \/ config = "broken" /\ Refuse(s)
     \/ config = None /\ GoTo(s, [Unsent EXCEPT !.pc = "validate"])
     \/ config \in Configs /\ GoTo(s, [Unsent EXCEPT !.pc = "auth", !.for = config])
  /\ UNCHANGED <<config, caches, records, bounds>>

\* resolveVerifier, under its mutex: the organisation's entry if it was made
\* for this very configuration; otherwise the pool's verifier, or a new one,
\* after which the pool forgets the verifier of the entry that is replaced.
Pooled(k, new) == IF pool[k] # None THEN pool[k] ELSE new

BugEntryFits(cfg) == entry.for # None
EntryFits(cfg) == entry.for = cfg

Resolve(s) ==
  LET cfg == request[s].for
      v   == Pooled(PoolKey[cfg], cfg)
      filled == [pool EXCEPT ![PoolKey[cfg]] = v]
  IN
  /\ At(s, "auth")
  /\ IF EntryFits(cfg)
     THEN /\ GoTo(s, [request[s] EXCEPT !.pc = "verify", !.verifier = entry.verifier])
          /\ UNCHANGED caches
     ELSE /\ GoTo(s, [request[s] EXCEPT !.pc = "verify", !.verifier = v])
          /\ entry' = [for |-> cfg, verifier |-> v]
          /\ pool' = IF entry.for = None THEN filled
                     ELSE [filled EXCEPT ![PoolKey[entry.for]] = None]
  /\ UNCHANGED <<config, records, bounds>>

\* Discovery or the key set may be unavailable: the next request tries again.
Verify(s) ==
  /\ At(s, "verify")
  /\ \/ /\ PoolKey[request[s].verifier] \in Accepted[s]
        /\ GoTo(s, [request[s] EXCEPT !.pc = "validate"])
     \/ Refuse(s)
  /\ UNCHANGED <<config, caches, records, bounds>>

\* The whole batch is checked before any of it is applied.
BatchOK(b) ==
  /\ b # <<>> /\ Len(b) <= MaxBatchLen
  /\ \A i \in DOMAIN b : b[i] \notin Malformed

Validate(s) ==
  /\ At(s, "validate")
  /\ IF BatchOK(Batch[s]) THEN GoTo(s, [request[s] EXCEPT !.pc = "apply"]) ELSE Refuse(s)
  /\ UNCHANGED <<config, caches, records, bounds>>

---------------------------------------------------------------------------
(***************************************************************************)
(* apply.                                                                  *)
(***************************************************************************)
\* On to the next event; after the last one the answer is 200.
GoOn(s) ==
  IF request[s].next = Len(Batch[s])
  THEN /\ GoTo(s, [Unsent EXCEPT !.pc = "done"])
       /\ acked' = acked \cup {Batch[s][i] : i \in DOMAIN Batch[s]}
  ELSE /\ GoTo(s, [request[s] EXCEPT !.pc = "apply", !.next = @ + 1])
       /\ UNCHANGED acked

\* TrySeen: one statement inserts the row, or refreshes it when it is old.
Free(e) == claim[e] # "fresh"

TrySeen(s) ==
  /\ At(s, "apply")
  /\ IF Free(Event(s))
     THEN /\ claim' = [claim EXCEPT ![Event(s)] = "fresh"]
          /\ GoTo(s, [request[s] EXCEPT !.pc = "store"])
          /\ UNCHANGED acked
     ELSE GoOn(s) /\ UNCHANGED claim
  /\ UNCHANGED <<config, caches, stored, orphan, bounds>>

\* The data is decoded only now, when the event is already claimed.
BugStores(e) == 0
Stores(e) == 1

Store(s) ==
  /\ At(s, "store")
  /\ IF Event(s) \in BadData
     THEN Refuse(s) /\ orphan' = orphan \cup {Event(s)} /\ UNCHANGED <<stored, acked>>
     ELSE /\ stored' = [stored EXCEPT ![Event(s)] = @ + Stores(Event(s))]
          /\ GoOn(s)
          /\ UNCHANGED orphan
  /\ UNCHANGED <<config, caches, claim, bounds>>

---------------------------------------------------------------------------
(***************************************************************************)
(* Failures, retries and the passing of time.                              *)
(***************************************************************************)
Claimed(set) == {Event(s) : s \in {t \in set : At(t, "store")}}

\* A statement fails, or the sender goes away and its context is cancelled.
Fail(s) ==
  /\ upsets < MaxUpsets /\ request[s].pc \notin {"unsent", "done", "refused"}
  /\ upsets' = upsets + 1
  /\ Refuse(s)
  /\ orphan' = orphan \cup Claimed({s})
  /\ UNCHANGED <<config, caches, claim, stored, acked, edits, expiries>>

Crash ==
  /\ upsets < MaxUpsets
  /\ upsets' = upsets + 1
  /\ request' = [s \in Senders |->
       IF request[s].pc \in {"unsent", "done"} THEN request[s]
       ELSE [Unsent EXCEPT !.pc = "refused"]]
  /\ orphan' = orphan \cup Claimed(Senders)
  /\ entry' = NoEntry
  /\ pool' = [k \in DOMAIN pool |-> None]
  /\ UNCHANGED <<config, claim, stored, acked, edits, expiries>>

\* A sender repeats what was not answered with 200, or an answer that was lost.
Resend(s) ==
  /\ \/ At(s, "refused") /\ UNCHANGED upsets
     \/ At(s, "done") /\ upsets < MaxUpsets /\ upsets' = upsets + 1
  /\ GoTo(s, Unsent)
  /\ UNCHANGED <<config, caches, records, edits, expiries>>

SetConfig(x) ==
  /\ edits < MaxEdits /\ x # config
  /\ edits' = edits + 1
  /\ config' = x
  /\ UNCHANGED <<caches, request, records, upsets, expiries>>

\* The TTL of a verifier in the pool has passed; the entry has none.
Lapse(k) ==
  /\ pool[k] # None
  /\ pool' = [pool EXCEPT ![k] = None]
  /\ UNCHANGED <<config, entry, request, records, bounds>>

\* ingestIdempotencyTTL has passed.
ClaimAges(e) ==
  /\ claim[e] = "fresh" /\ expiries < MaxExpiries
  /\ expiries' = expiries + 1
  /\ claim' = [claim EXCEPT ![e] = "old"]
  /\ UNCHANGED <<config, caches, request, stored, acked, orphan, edits, upsets>>

Step(s) == Receive(s) \/ Resolve(s) \/ Verify(s) \/ Validate(s) \/ TrySeen(s) \/ Store(s)

Next ==
  \/ \E s \in Senders : Step(s) \/ Fail(s) \/ Resend(s)
  \/ Crash
  \/ \E x \in Settings : SetConfig(x)
  \/ \E k \in DOMAIN pool : Lapse(k)
  \/ \E e \in Events : ClaimAges(e)

Spec == Init /\ [][Next]_vars

---------------------------------------------------------------------------
\* "The ce-id dedupe window lets the sender retry without creating
\* duplicates": within the TTL an event leaves one check, whoever sends it at
\* the same time or again after errors, crashes and lost answers.
OncePerWindow == \A e \in Events : stored[e] <= 1 + expiries

\* What was answered with 200 has its check.  The exceptions are those of a
\* claim made before its check: the request that holds it is still to store
\* the check, or failed in between, and the event is a duplicate ever since.
AckedIsStored ==
  \A e \in acked : stored[e] > 0 \/ e \in orphan \cup Claimed(Senders)

\* A sender that repeats until it is answered with 200 has its events recorded
\* once.
RecordedOnce == OncePerWindow /\ AckedIsStored

\* A token is judged by a verifier of the configuration the request has read,
\* however often the configuration changes while requests that have read
\* another one fill, replace and invalidate the same cache entries.
JudgedAsConfigured ==
  \A s \in Senders : At(s, "verify") =>
    PoolKey[request[s].verifier] = PoolKey[request[s].for]
=============================================================================
