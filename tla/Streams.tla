------------------------------ MODULE Streams ------------------------------
(***************************************************************************)
(* Reading an organisation's CloudEvents by polling and by streaming       *)
(* (internal/api/handlers/cloudevents_consumer.go, _poll.go, _stream.go,   *)
(* _ratelimit.go) from the in-memory bus (internal/bus/channel.go).  Each  *)
(* organisation and filter has one cached consumer, a subscription with a  *)
(* buffer; polls and streams of that filter read the same buffer.  A       *)
(* sweeper evicts the consumers that nobody asked for in five minutes.     *)
(*                                                                         *)
(* PullSubscribe never fails on this bus, so ensure's error path, which    *)
(* would take the consumer out of the cache again, is left out.            *)
(***************************************************************************)
EXTENDS Integers, Sequences, FiniteSets

CONSTANTS
  Orgs, Events, Filters,
  OrgOf,         \* the organisation whose subject an event is published on
  Clients,       \* HTTP clients, one request at a time
  Ask,           \* what a client asks for: [mode, org, filter]
  BufferSize,    \* ceConsumerBufferSize
  PollMax,       \* a poll's max
  MaxOrg,        \* consumers an organisation may have
  MaxStreams,    \* streams an organisation may have open
  MaxConsumers,  \* bound: consumers created
  MaxRequests    \* bound: requests of each client

Modes == {"poll", "stream"}
Names == Orgs \X Filters   \* ceConsumerName: a hash stands for the filter

StreamsAssumption ==
  /\ OrgOf \in [Events -> Orgs]
  /\ Ask \in [Clients -> [mode : Modes, org : Orgs, filter : Filters]]
  /\ {BufferSize, PollMax, MaxOrg, MaxStreams} \subseteq Nat \ {0}
  /\ {MaxConsumers, MaxRequests} \subseteq Nat
  /\ IsFiniteSet(Orgs) /\ IsFiniteSet(Filters) /\ IsFiniteSet(Clients)

VARIABLES
  subs,       \* the bus: for each queue name the consumers subscribed under it
  flight,     \* deliveries on their way, each in a goroutine of its own
  published,  \* events published
  consumer,   \* all consumers made: name, buffer, evicted flag, idle past the TTL
  items,      \* the cache: for each name its consumer, 0 for none
  perOrg,     \* the cache's count of each organisation's consumers
  doomed,     \* names the sweeper has evicted and not yet unsubscribed
  open,       \* the gate's count of each organisation's streams
  request,    \* what each client's request is doing
  overtaken   \* history: consumers made while their name was doomed

vars == <<subs, flight, published, consumer, items, perOrg, doomed, open, request,
          overtaken>>

Consumer == [name : Names, buffer : Seq(Events), evicted : BOOLEAN, idle : BOOLEAN]

Ids == 1 .. Len(consumer)

RequestState ==
  [pc : {"none", "ensure", "subscribe", "read"}, id : Nat, count : Nat, number : Nat]

TypeOK ==
  /\ subs \in [Names -> SUBSET Ids]
  /\ flight \subseteq Events \X Ids
  /\ published \subseteq Events
  /\ consumer \in Seq(Consumer)
  /\ \A i \in Ids : Len(consumer[i].buffer) <= BufferSize
  /\ items \in [Names -> {0} \cup Ids]
  /\ perOrg \in [Orgs -> Nat] /\ open \in [Orgs -> Nat]
  /\ doomed \subseteq Names
  /\ request \in [Clients -> RequestState]
  /\ \A c \in Clients : request[c].pc \in {"subscribe", "read"} => request[c].id \in Ids
  /\ overtaken \subseteq Ids

NoRequest == [pc |-> "none", id |-> 0, count |-> 0, number |-> 0]

Init ==
  /\ subs = [n \in Names |-> {}] /\ flight = {} /\ published = {}
  /\ consumer = <<>> /\ items = [n \in Names |-> 0]
  /\ perOrg = [o \in Orgs |-> 0] /\ doomed = {} /\ open = [o \in Orgs |-> 0]
  /\ request = [c \in Clients |-> NoRequest]
  /\ overtaken = {}

bus   == <<subs, flight, published>>
cache == <<consumer, items, perOrg, doomed, overtaken>>

Name(c) == <<Ask[c].org, Ask[c].filter>>

---------------------------------------------------------------------------
(***************************************************************************)
(* The bus.  Publish takes a snapshot of the subscriptions of the subject  *)
(* and picks one member of each queue.  There are no acknowledgements: a   *)
(* delivery that finds its consumer evicted or the buffer full is lost.    *)
(***************************************************************************)
Subscribed(o) == {n \in Names : n[1] = o /\ subs[n] # {}}

Deliveries(e) ==
  {{<<e, member[n]>> : n \in DOMAIN member} :
     member \in {m \in [Subscribed(OrgOf[e]) -> Ids] :
                   \A n \in DOMAIN m : m[n] \in subs[n]}}

Publish(e) ==
  /\ e \notin published
  /\ published' = published \cup {e}
  /\ \E d \in Deliveries(e) : flight' = flight \cup d
  /\ UNCHANGED <<subs, cache, open, request>>

BugFits(i) == ~consumer[i].evicted
Fits(i) == ~consumer[i].evicted /\ Len(consumer[i].buffer) < BufferSize

Deliver(e, i) ==
  /\ <<e, i>> \in flight
  /\ flight' = flight \ {<<e, i>>}
  /\ consumer' =
       IF Fits(i) THEN [consumer EXCEPT ![i].buffer = Append(@, e)] ELSE consumer
  /\ UNCHANGED <<subs, published, items, perOrg, doomed, overtaken, open, request>>

---------------------------------------------------------------------------
(***************************************************************************)
(* A request.  A stream first passes the gate; one that is refused, there  *)
(* or for want of a consumer, is answered 429.                             *)
(***************************************************************************)
Streaming(c) == Ask[c].mode = "stream"

Leave(c) == open' = [open EXCEPT ![Ask[c].org] = @ - (IF Streaming(c) THEN 1 ELSE 0)]

End(c) ==
  request' = [request EXCEPT ![c] =
    [pc |-> "none", id |-> 0, count |-> 0, number |-> @.number]]

Arrive(c) ==
  /\ request[c].pc = "none" /\ request[c].number < MaxRequests
  /\ Streaming(c) => open[Ask[c].org] < MaxStreams
  /\ open' = [open EXCEPT ![Ask[c].org] = @ + (IF Streaming(c) THEN 1 ELSE 0)]
  /\ request' = [request EXCEPT ![c] =
       [pc |-> "ensure", id |-> 0, count |-> 0, number |-> @.number + 1]]
  /\ UNCHANGED <<bus, cache>>

\* ensure, the part under the lock: found, refused, or made and put in the cache.
EnsureHit(c) ==
  /\ request[c].pc = "ensure" /\ items[Name(c)] # 0
  /\ consumer' = [consumer EXCEPT ![items[Name(c)]].idle = FALSE]
  /\ request' = [request EXCEPT ![c] =
       [pc |-> "read", id |-> items[Name(c)], count |-> 0, number |-> @.number]]
  /\ UNCHANGED <<bus, items, perOrg, doomed, overtaken, open>>

EnsureRefused(c) ==
  /\ request[c].pc = "ensure" /\ items[Name(c)] = 0
  /\ perOrg[Ask[c].org] >= MaxOrg
  /\ Leave(c) /\ End(c)
  /\ UNCHANGED <<bus, cache>>

EnsureMade(c) ==
  /\ request[c].pc = "ensure" /\ items[Name(c)] = 0
  /\ perOrg[Ask[c].org] < MaxOrg
  /\ Len(consumer) < MaxConsumers
  /\ LET id == Len(consumer) + 1 IN
     /\ consumer' = Append(consumer,
          [name |-> Name(c), buffer |-> <<>>, evicted |-> FALSE, idle |-> FALSE])
     /\ items' = [items EXCEPT ![Name(c)] = id]
     /\ request' = [request EXCEPT ![c] =
          [pc |-> "subscribe", id |-> id, count |-> 0, number |-> @.number]]
     /\ overtaken' = IF Name(c) \in doomed THEN overtaken \cup {id} ELSE overtaken
  /\ perOrg' = [perOrg EXCEPT ![Ask[c].org] = @ + 1]
  /\ UNCHANGED <<bus, doomed, open>>

\* ... and the part after it.
Subscribe(c) ==
  /\ request[c].pc = "subscribe"
  /\ subs' = [subs EXCEPT ![Name(c)] = @ \cup {request[c].id}]
  /\ request' = [request EXCEPT ![c].pc = "read"]
  /\ UNCHANGED <<flight, published, cache, open>>

\* What the request's own filter does not let through is read all the same.
Read(c) ==
  LET i == request[c].id IN
  /\ request[c].pc = "read" /\ consumer[i].buffer # <<>>
  /\ Streaming(c) \/ request[c].count < PollMax
  /\ request' = [request EXCEPT ![c].count = IF Streaming(c) THEN @ ELSE @ + 1]
  /\ consumer' = [consumer EXCEPT ![i].buffer = Tail(@)]
  /\ UNCHANGED <<bus, items, perOrg, doomed, overtaken, open>>

\* The poll is full, has waited long enough for a first or for another event,
\* or its client is gone; a stream ends with its client.
Finish(c) ==
  /\ request[c].pc = "read"
  /\ Leave(c) /\ End(c)
  /\ UNCHANGED <<bus, cache>>

---------------------------------------------------------------------------
(***************************************************************************)
(* The sweeper.  Only ensure touches a consumer, so one that a stream is   *)
(* reading grows idle as well.  The TTL is minutes: it does not pass while *)
(* a request subscribes or polls, or while the sweeper is at work.         *)
(***************************************************************************)
GrowIdle(i) ==
  /\ doomed = {}
  /\ items[consumer[i].name] = i /\ ~consumer[i].idle
  /\ \A c \in Clients : request[c].id = i => Streaming(c) /\ request[c].pc = "read"
  /\ consumer' = [consumer EXCEPT ![i].idle = TRUE]
  /\ UNCHANGED <<bus, items, perOrg, doomed, overtaken, open, request>>

Stale == {n \in Names : items[n] # 0 /\ consumer[items[n]].idle}

CountOf(o, names) == Cardinality({n \in names : n[1] = o})

Released(o) == perOrg[o] - CountOf(o, Stale)

Sweep ==
  /\ doomed = {} /\ Stale # {}
  /\ consumer' = [i \in Ids |->
       [consumer[i] EXCEPT !.evicted = @ \/ \E n \in Stale : items[n] = i]]
  /\ items' = [n \in Names |-> IF n \in Stale THEN 0 ELSE items[n]]
  /\ perOrg' = [o \in Orgs |-> Released(o)]
  /\ doomed' = Stale
  /\ UNCHANGED <<bus, overtaken, open, request>>

\* Unsubscribe removes every subscription under the name.
BugNoneRemoved(n) == subs
BugSubjectRemoved(n) == [m \in Names |-> IF m[1] = n[1] THEN {} ELSE subs[m]]
Removed(n) == [subs EXCEPT ![n] = {}]

Unsubscribe(n) ==
  /\ n \in doomed
  /\ subs' = Removed(n)
  /\ doomed' = doomed \ {n}
  /\ UNCHANGED <<flight, published, consumer, items, perOrg, overtaken, open, request>>

Sweeper == Sweep \/ \E n \in Names : Unsubscribe(n)

Ensure(c) == EnsureHit(c) \/ EnsureRefused(c) \/ EnsureMade(c)

Next ==
  \/ \E e \in Events : Publish(e)
  \/ \E d \in flight : Deliver(d[1], d[2])
  \/ \E c \in Clients : Arrive(c) \/ Ensure(c) \/ Subscribe(c) \/ Read(c) \/ Finish(c)
  \/ \E i \in Ids : GrowIdle(i)
  \/ Sweeper

Spec == Init /\ [][Next]_vars

\* Goroutines that can go on do, time passes and the ticker of the sweeper
\* fires; nobody is obliged to publish, to ask or to close a stream.
Fairness ==
  /\ \A c \in Clients : WF_vars(Ensure(c)) /\ WF_vars(Subscribe(c))
  /\ \A i \in 1 .. MaxConsumers : WF_vars(i \in Ids /\ GrowIdle(i))
  /\ WF_vars(Sweeper)

---------------------------------------------------------------------------
\* The cap on an organisation's consumers and the gate on its streams count
\* what they are meant to bound, whatever order requests, refusals and sweeps
\* come in: a count that drifts up locks the organisation out for good, one
\* that drifts down lifts the cap.
CountersAgree ==
  \A o \in Orgs :
    /\ perOrg[o] = Cardinality({n \in Names : n[1] = o /\ items[n] # 0})
    /\ perOrg[o] <= MaxOrg
    /\ open[o] = Cardinality({c \in Clients :
         Ask[c].org = o /\ Streaming(c) /\ request[c].pc # "none"})
    /\ open[o] <= MaxStreams

\* A consumer in the cache gets every event of its organisation: once its
\* ensure has returned it is subscribed and the only member of its queue, so
\* that no event goes to an evicted consumer in its place.  The exception is a
\* consumer made between the sweeper's eviction of its predecessor and the
\* Unsubscribe by name that follows: it shares the queue until then and is
\* deaf from then on.
SubscribedUnlessSwept ==
  \A n \in Names : items[n] # 0 =>
    \/ subs[n] = {items[n]}
    \/ items[n] \in overtaken
    \/ \E c \in Clients : request[c].pc = "subscribe" /\ request[c].id = items[n]

\* "drops the underlying subscription as well, preventing the long-lived
\* orphan-subscription leak": once requests stop coming, nothing stays
\* subscribed, cached or counted.
NothingLeaks ==
  <>[](\A c \in Clients : request[c].pc = "none") =>
    <>[](\A n \in Names : subs[n] = {} /\ items[n] = 0 /\ perOrg[n[1]] = 0)
=============================================================================
