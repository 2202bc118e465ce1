-------------------------------- MODULE Hub --------------------------------
(***************************************************************************)
(* Live updates over web sockets (internal/api/ws.go): the hub forwards    *)
(* alert events from the bus to the clients of the organisation.  Each     *)
(* client has a read pump, the handler itself, and a write pump; a         *)
(* delivery from the bus runs broadcast in a goroutine of its own.         *)
(***************************************************************************)
EXTENDS Integers, Sequences, FiniteSets

CONSTANTS
  Orgs, Clients,
  OrgOf,        \* the organisation of each client, from its token
  BufferSize,   \* capacity of a client's send channel
  MaxEvents     \* bound: alert events

VARIABLES
  pump,       \* the read pump of each client
  writer,     \* whether its write pump runs
  connected,  \* whether its connection is up
  send,       \* frames in its channel
  shut,       \* clients whose channel is closed
  byOrg,      \* the registered clients of each organisation
  sending,    \* broadcasts under way: the clients still to visit, and whether
              \* the map they range over is still the one in byOrg
  events,
  fate        \* what became of the process

vars == <<pump, writer, connected, send, shut, byOrg, sending, events, fate>>

TypeOK ==
  /\ pump \in [Clients -> {"none", "reading", "leaving", "gone"}]
  /\ writer \in [Clients -> BOOLEAN] /\ connected \in [Clients -> BOOLEAN]
  /\ send \in [Clients -> 0 .. BufferSize]
  /\ shut \subseteq Clients
  /\ byOrg \in [Orgs -> SUBSET Clients]
  /\ sending \subseteq [event : Nat, org : Orgs, left : SUBSET Clients, live : BOOLEAN]
  /\ events \in Nat
  /\ fate \in {"runs", "send on closed channel", "concurrent map access"}

Init ==
  /\ pump = [c \in Clients |-> "none"]
  /\ writer = [c \in Clients |-> FALSE] /\ connected = [c \in Clients |-> FALSE]
  /\ send = [c \in Clients |-> 0] /\ shut = {}
  /\ byOrg = [o \in Orgs |-> {}] /\ sending = {} /\ events = 0 /\ fate = "runs"

(***************************************************************************)
(* register and unregister write the map under the lock, but a broadcast   *)
(* ranges over the same map without it.  The runtime may notice and kill   *)
(* the process; if not, the loop may visit a new client or not.            *)
(* The last client of an organisation takes its map along.                 *)
(***************************************************************************)
Ranging(o) == {b \in sending : b.org = o /\ b.live}

WriteMap(o, clients) ==
  /\ byOrg' = [byOrg EXCEPT ![o] = clients]
  /\ IF Ranging(o) # {} THEN fate' \in {"runs", "concurrent map access"}
     ELSE UNCHANGED fate

Register(c) ==
  LET o == OrgOf[c] IN
  /\ fate = "runs" /\ pump[c] = "none"
  /\ WriteMap(o, byOrg[o] \cup {c})
  /\ \E seen \in SUBSET Ranging(o) :
       sending' = (sending \ seen) \cup {[b EXCEPT !.left = @ \cup {c}] : b \in seen}
  /\ pump' = [pump EXCEPT ![c] = "reading"]
  /\ writer' = [writer EXCEPT ![c] = TRUE]
  /\ connected' = [connected EXCEPT ![c] = TRUE]
  /\ UNCHANGED <<send, shut, events>>

\* The client goes away, or its connection breaks.
Disconnect(c) ==
  /\ fate = "runs" /\ connected[c]
  /\ connected' = [connected EXCEPT ![c] = FALSE]
  /\ UNCHANGED <<pump, writer, send, shut, byOrg, sending, events, fate>>

\* Read fails: the pump closes the channel and returns, ...
StopReading(c) ==
  /\ fate = "runs" /\ pump[c] = "reading" /\ ~connected[c]
  /\ pump' = [pump EXCEPT ![c] = "leaving"]
  /\ shut' = shut \cup {c}
  /\ UNCHANGED <<writer, connected, send, byOrg, sending, events, fate>>

\* ... and only then runs its deferred unregister.
Unregister(c) ==
  LET o == OrgOf[c]
      rest == byOrg[o] \ {c} IN
  /\ fate = "runs" /\ pump[c] = "leaving"
  /\ WriteMap(o, rest)
  /\ sending' = (sending \ Ranging(o))
       \cup {[b EXCEPT !.left = @ \ {c}, !.live = rest # {}] : b \in Ranging(o)}
  /\ pump' = [pump EXCEPT ![c] = "gone"]
  /\ UNCHANGED <<writer, connected, send, shut, events>>

\* A frame is written; a write that fails closes the connection.
Write(c) ==
  /\ fate = "runs" /\ writer[c] /\ send[c] > 0
  /\ send' = [send EXCEPT ![c] = @ - 1]
  /\ \E ok \in {connected[c], FALSE} :
       /\ writer' = [writer EXCEPT ![c] = ok]
       /\ connected' = [connected EXCEPT ![c] = @ /\ ok]
  /\ UNCHANGED <<pump, shut, byOrg, sending, events, fate>>

\* The channel is closed and empty.
StopWriting(c) ==
  /\ fate = "runs" /\ writer[c] /\ send[c] = 0 /\ c \in shut
  /\ writer' = [writer EXCEPT ![c] = FALSE]
  /\ connected' = [connected EXCEPT ![c] = FALSE]
  /\ UNCHANGED <<pump, send, shut, byOrg, sending, events, fate>>

---------------------------------------------------------------------------
\* SubscribeToBus: a trigger or a recovery reaches broadcast.
Broadcast(o) ==
  /\ fate = "runs" /\ events < MaxEvents
  /\ events' = events + 1
  /\ sending' = sending \cup {[event |-> events', org |-> o, left |-> byOrg[o],
                                     live |-> byOrg[o] # {}]}
  /\ UNCHANGED <<pump, writer, connected, send, shut, byOrg, fate>>

\* The non-blocking send to one client: it panics when the channel is closed.
Send(b, c) ==
  /\ fate = "runs" /\ b \in sending /\ c \in b.left
  /\ sending' = (sending \ {b}) \cup {[b EXCEPT !.left = @ \ {c}]}
  /\ IF c \in shut
     THEN fate' = "send on closed channel" /\ UNCHANGED send
     ELSE /\ send' = [send EXCEPT ![c] = IF @ < BufferSize THEN @ + 1 ELSE @]
          /\ UNCHANGED fate
  /\ UNCHANGED <<pump, writer, connected, shut, byOrg, events>>

EndBroadcast(b) ==
  /\ fate = "runs" /\ b \in sending /\ b.left = {}
  /\ sending' = sending \ {b}
  /\ UNCHANGED <<pump, writer, connected, send, shut, byOrg, events, fate>>

Next ==
  \/ \E c \in Clients :
       \/ Register(c) \/ Disconnect(c) \/ StopReading(c) \/ Unregister(c)
       \/ Write(c) \/ StopWriting(c)
  \/ \E o \in Orgs : Broadcast(o)
  \/ \E b \in sending : EndBroadcast(b) \/ \E c \in b.left : Send(b, c)

Spec == Init /\ [][Next]_vars

---------------------------------------------------------------------------
\* "broadcast sends data to all clients in the given org.  Slow clients that
\* can't keep up have their message dropped": a client that leaves while an
\* event is broadcast does not disturb the others.  It closes its channel
\* before it unregisters, and nothing recovers the goroutine that sends to it.
BroadcastIsHarmless == fate # "send on closed channel"
=============================================================================
