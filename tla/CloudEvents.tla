---------------------------- MODULE CloudEvents ----------------------------
(***************************************************************************)
(* The CloudEvents interface of the server: the keys that sign what it     *)
(* sends, reading by polling and streaming, and ingest.  The three parts   *)
(* share no state, so that their steps interleave freely.  What a property *)
(* of one part says is in the part's own module.                           *)
(***************************************************************************)
EXTENDS SigningKeys, Sequences

CONSTANTS
  Events,
  Orgs, Filters, OrgOf, Clients, Ask, BufferSize, PollMax, MaxOrg, MaxStreams,
  MaxConsumers, MaxRequests,
  Senders, Batch, BadData, Malformed, MaxBatchLen, Configs, PoolKey, Accepted, None,
  MaxEdits, MaxExpiries

VARIABLES
  subs, flight, published, consumer, items, perOrg, doomed, open, request, overtaken,
  config, entry, pool, posted, claim, stored, acked, orphan, edits, failures, expiries

signing == vars
reading == <<subs, flight, published, consumer, items, perOrg, doomed, open, request,
             overtaken>>
posting == <<config, entry, pool, posted, claim, stored, acked, orphan, edits, failures,
             expiries>>

Reading == INSTANCE Streams
Posting == INSTANCE Ingest WITH request <- posted, upsets <- failures

ASSUME InterfaceAssumption == Reading!StreamsAssumption /\ Posting!IngestAssumption

---------------------------------------------------------------------------
InterfaceInit == Init /\ Reading!Init /\ Posting!Init

SignStep == Next /\ UNCHANGED <<reading, posting>>
ReadStep == Reading!Next /\ UNCHANGED <<signing, posting>>
PostStep == Posting!Next /\ UNCHANGED <<signing, reading>>

InterfaceSpec ==
  InterfaceInit /\ [][SignStep \/ ReadStep \/ PostStep]_<<signing, reading, posting>>

---------------------------------------------------------------------------
\* The states of the three parts are well formed, the counts of consumers and
\* of open streams are true and within their limits, and there are an active
\* key and only as many more as rotations were cut short or overlapped.
Types ==
  /\ Reading!TypeOK /\ Reading!CountersAgree
  /\ TypeOK /\ SignerRemains /\ StrayKeysBounded
  /\ Posting!TypeOK

\* A cached consumer gets the events of its organisation, unless it was made
\* while the sweeper was dropping its predecessor's subscription.
SubscribedUnlessSwept == Reading!SubscribedUnlessSwept

\* Nothing stays subscribed when the requests have stopped.
NothingLeaks == Reading!NothingLeaks

\* An event has one check at most, and one that was answered with 200 has it.
RecordedOnce == Posting!RecordedOnce

\* A token is judged by the configuration that the request has read.
JudgedAsConfigured == Posting!JudgedAsConfigured
=============================================================================
