--------------------------- MODULE MCCloudEvents ---------------------------
(***************************************************************************)
(* An instance of the CloudEvents interface.  Its parts share no state:    *)
(* each behaviour is one of the part that Init chooses, while the others   *)
(* stay as they are.                                                       *)
(***************************************************************************)
EXTENDS CloudEvents, TLC

\* Reading: one organisation, whose two filters compete for its consumers.
\* The poller and the streamer share a consumer; the other client needs one more.
CONSTANTS o1, e1, e2, all, some, poller, streamer, other

OneOrg == [e \in Events |-> o1]
Asked ==
  (poller   :> [mode |-> "poll",   org |-> o1, filter |-> all]) @@
  (streamer :> [mode |-> "stream", org |-> o1, filter |-> all]) @@
  (other    :> [mode |-> "stream", org |-> o1, filter |-> some])

\* Ingest: two senders with an event in common, three configurations of which
\* two differ in nothing that the verifier depends on.
CONSTANTS s1, s2, a1, a2, b1

Batches == (s1 :> <<e1, e2>>) @@ (s2 :> <<e1>>)
Keys == (a1 :> "a") @@ (a2 :> "a") @@ (b1 :> "b")
Tokens == (s1 :> {"a", "b"}) @@ (s2 :> {"b"})

---------------------------------------------------------------------------
VARIABLE part

MCInit == part \in {"signing", "reading", "posting"} /\ InterfaceInit

MCNext ==
  /\ \/ part = "signing" /\ SignStep
     \/ part = "reading" /\ ReadStep
     \/ part = "posting" /\ PostStep
  /\ UNCHANGED part

MCSpec == MCInit /\ [][MCNext]_<<part, signing, reading, posting>> /\ Reading!Fairness
=============================================================================
