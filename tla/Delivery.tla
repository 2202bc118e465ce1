------------------------------ MODULE Delivery ------------------------------
(***************************************************************************)
(* Outgoing CloudEvents: the router (internal/cloudevents/router.go) makes *)
(* a notification job of an event for each channel of its organisation,    *)
(* the dispatcher and the pool of Notify take it from there, and the       *)
(* provider (internal/notify/providers/cloudevent_http.go) obtains a       *)
(* bearer token (internal/cloudevents/oidc/client.go) and posts the event. *)
(*                                                                         *)
(* Notify's Attempt is what Send does in several steps here, between which *)
(* the other workers of the pool use the same token cache.  The provider   *)
(* makes an oidc.Client for every Send, so the singleflight group of a     *)
(* client never has a second caller.                                       *)
(***************************************************************************)
EXTENDS Notify

CONSTANTS
  Channels,
  Target,      \* the channel of a job; Key[j] names organisation and event
  Filtered,    \* jobs of events that their channel's event_types leave out
  Secured      \* jobs of channels with OIDC, all with one cache key

ASSUME DeliveryAssumption ==
  /\ Target \in [Jobs -> Channels]
  /\ Filtered \subseteq Jobs /\ Secured \subseteq Jobs

VARIABLES
  cached,     \* what is left of the life of the token in the cache
  send,       \* what each worker's Send is at, and its token when handed out
  received    \* history: jobs whose event the sink has received

allVars == <<vars, cached, send, received>>

\* ending: less than refreshAheadWindow is left.
Lives == {"none", "long", "ending", "over"}

\* A token is handed out with refreshAheadWindow, which outlasts a Send, left.
SendState ==
  [at : {"none", "drop", "miss", "fetch"}, token : {"none"}]
    \cup [at : {"post"}, token : {"none", "long"}]

\* No event is posted with a token that may expire on its way, although
\* workers read, drop and replace the cached one without coordination.
DeliveryTypeOK ==
  /\ TypeOK
  /\ cached \in Lives
  /\ send \in [Workers -> SendState]
  /\ received \subseteq Jobs

NoSend == [at |-> "none", token |-> "none"]

DeliveryInit ==
  /\ Init
  /\ cached = "none"
  /\ send = [w \in Workers |-> NoSend]
  /\ received = {}

own == <<cached, send, received>>
Job(w) == worker[w].job

---------------------------------------------------------------------------
(***************************************************************************)
(* Send ends well, or badly: the branches of Notify's Attempt.             *)
(***************************************************************************)
rest == <<seen, queue, closed, stopped, cancelled, returned, accepted, expiries>>

Done(w) ==
  /\ Settle(w, "sent")
  /\ send' = [send EXCEPT ![w] = NoSend]
  /\ UNCHANGED <<rest, failures>>

BugFailed(w) ==
  /\ failures' = [failures EXCEPT ![Job(w)] = @ + 1]
  /\ send' = [send EXCEPT ![w] = NoSend]
  /\ Settle(w, "dead")
  /\ UNCHANGED rest
Failed(w) ==
  /\ failures' = [failures EXCEPT ![Job(w)] = @ + 1]
  /\ send' = [send EXCEPT ![w] = NoSend]
  /\ \/ LastAttempt(w) /\ Settle(w, "dead")
     \/ /\ ~LastAttempt(w)
        /\ worker' = [worker EXCEPT ![w].pc = "backoff"]
        /\ UNCHANGED stage
  /\ UNCHANGED rest

GoTo(w, point, token) ==
  send' = [send EXCEPT ![w] = [at |-> point, token |-> token]] /\ UNCHANGED vars

Usable(t) == t = "long"

\* Token's look into the cache, with what it does on a miss.
Look(w, miss) ==
  IF Usable(cached) THEN GoTo(w, "post", cached) ELSE GoTo(w, miss, "none")

\* A configuration or an event that cannot be read is an error like any other;
\* an event that the channel does not want counts as sent; one that needs no
\* token is posted; otherwise Token looks into the cache, ...
Start(w) ==
  /\ worker[w].pc = "send" /\ send[w].at = "none"
  /\ \/ Failed(w)
     \/ Job(w) \in Filtered /\ Done(w)
     \/ Job(w) \notin Filtered \cup Secured /\ GoTo(w, "post", "none")
     \/ /\ Job(w) \in Secured \ Filtered
        /\ Look(w, IF cached = "none" THEN "miss" ELSE "drop")
  /\ UNCHANGED <<cached, received>>

\* ... drops what is there, by then perhaps another worker's new token, ...
Drop(w) ==
  /\ send[w].at = "drop"
  /\ cached' = "none"
  /\ GoTo(w, "miss", "none")
  /\ UNCHANGED received

\* ... looks again as the leader of its own singleflight, ...
Recheck(w) ==
  /\ send[w].at = "miss"
  /\ Look(w, "fetch")
  /\ UNCHANGED <<cached, received>>

\* ... and fetches: tokens live longer than refreshAheadWindow when issued.
Fetch(w) ==
  /\ send[w].at = "fetch"
  /\ \/ cached' = "long" /\ GoTo(w, "post", "long")
     \/ Failed(w) /\ UNCHANGED cached
  /\ UNCHANGED received

\* The sink may receive the event without our learning of it.  Every status
\* outside 2xx is an error to the worker, permanent or not.
BugAnswered(ok, arrives) == ok
Answered(ok, arrives) == ok /\ arrives

Post(w) ==
  /\ send[w].at = "post"
  /\ \E arrives, ok \in BOOLEAN :
       /\ received' = received \cup (IF arrives THEN {Job(w)} ELSE {})
       /\ IF Answered(ok, arrives) THEN Done(w) ELSE Failed(w)
  /\ UNCHANGED cached

---------------------------------------------------------------------------
\* The cached token ages.
Age ==
  /\ \/ cached = "long" /\ cached' = "ending"
     \/ cached = "ending" /\ cached' = "over"
  /\ UNCHANGED <<vars, send, received>>

\* Other channels' tokens push this one out of the cache of maxEntries, or
\* DeleteExpired removes it.
Evict ==
  /\ cached # "none"
  /\ cached' = "none"
  /\ UNCHANGED <<vars, send, received>>

\* Router.handle, for the event and one channel of its organisation that is an
\* enabled cloudevent_http one.  A job that cannot be made or published, or the
\* rest of a list that cannot be read, is never published.
Handle(j) == Publish(j)

SendStep(w) == Start(w) \/ Drop(w) \/ Recheck(w) \/ Fetch(w) \/ Post(w)

\* Notify's own steps but Attempt.
PoolStep(w) == Take(w) \/ Backoff(w) \/ Exit(w)

DeliveryNext ==
  \/ \E w \in Workers : SendStep(w)
  \/ Age \/ Evict
  \/ /\ \/ \E j \in Jobs : Handle(j) \/ SubmitStep(j)
        \/ \E k \in Keys : Expire(k)
        \/ \E w \in Workers : PoolStep(w)
        \/ Cancel \/ StopStep
     /\ UNCHANGED own

DeliverySpec ==
  /\ DeliveryInit /\ [][DeliveryNext]_allVars
  /\ \A w \in Workers :
       WF_allVars(SendStep(w) \/ (PoolStep(w) /\ UNCHANGED own))
  /\ \A j \in Jobs : SF_allVars(SubmitStep(j) /\ UNCHANGED own)
  /\ WF_allVars(StopStep /\ UNCHANGED own)

---------------------------------------------------------------------------
\* Whatever the workers do to the token cache between them, the steps of a
\* Send amount to one attempt of Notify.
ImplementsNotify == Spec

\* What counts as sent has reached the sink: no other worker's token, failure
\* or shutdown makes a delivery succeed that did not.
SentIsReceived ==
  \A j \in Jobs \ Filtered : stage[j] = "sent" => j \in received

\* The ends of a job are what they are called: sent is received, and dead is
\* tried as often as allowed or given up at shutdown.
EndsAreTrue == DeliveryTypeOK /\ SentIsReceived /\ DeadMeansExhausted

\* "For each cloudevent_http channel [the router] publishes a
\* domain.NotificationJob to notify.request": a job is discarded as a
\* duplicate only when its own channel has a job for the event.  The key the
\* router gives does not name the channel.
DuplicateMeansSameChannel ==
  \A j \in Jobs : stage[j] = "duplicate" =>
    \E i \in Jobs \ {j} : Key[i] = Key[j] /\ Target[i] = Target[j]
=============================================================================
