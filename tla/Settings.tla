------------------------------ MODULE Settings ------------------------------
(***************************************************************************)
(* What an organisation sets up beside its monitors: the steps of its      *)
(* escalation policies, the states of its monitors and the match rules     *)
(* that lead to them, and its notification channels                        *)
(* (internal/api/handlers/escalations.go, monitor_states.go and            *)
(* notification_channels.go), statement by statement.                      *)
(*                                                                         *)
(* Steps and rules are replaced alike: one DELETE and an INSERT for each   *)
(* new one, with no transaction around them.  Owners are the policies and  *)
(* the monitors; an item of a list is the state of a rule, or NoState for  *)
(* a step.                                                                 *)
(***************************************************************************)
EXTENDS Integers, Sequences, FiniteSets

CONSTANTS
  Clients,
  Policies, RuledMonitors,
  StepLists, RuleLists,  \* the lists that requests bring
  Builtins, Customs, NoState,
  Secrets, NoSecret, Mask,
  MaxRequests            \* bound

Owners == Policies \cup RuledMonitors
States == Builtins \cup Customs
Lists(o) == IF o \in Policies THEN StepLists ELSE RuleLists

SettingsAssumption ==
  /\ Owners # {}
  /\ Policies \cap RuledMonitors = {} /\ Builtins \cap Customs = {}
  /\ StepLists \subseteq Seq({NoState}) /\ RuleLists \subseteq Seq(States)
  /\ NoSecret \notin Secrets /\ MaxRequests \in Nat

VARIABLES
  owners,   \* rows of escalation_policies and monitors
  items,    \* rows of escalation_steps and monitor_match_rules
  states,   \* rows of org_monitor_states
  channel,  \* the secret of a channel and the rest of its row
  view,     \* what each client was last shown of the secret
  request, sent,
  goal,     \* history: the list of the request that cleared the items last
  torn,     \* history: owners whose items two requests have replaced at once
  cut,      \* history: owners of which a replacement has stopped short
  asked,    \* history: the secret that was last set or removed on purpose
  overtaken,\* history: whether an outdated copy of the channel was written
  removed   \* history: whether the secret has ever been removed

children == <<owners, items, states, goal, torn, cut>>
channels == <<channel, view, asked, overtaken, removed>>
vars == <<children, channels, request, sent>>

Shown == {NoSecret, Mask}
ChannelRow == [secret : Secrets \cup {NoSecret, Mask}, enabled : BOOLEAN]
Idle == [pc |-> "idle", o |-> CHOOSE o \in Owners : TRUE, list |-> <<>>, done |-> 0,
         row |-> [secret |-> NoSecret, enabled |-> TRUE], new |-> NoSecret]

TypeOK ==
  /\ owners \subseteq Owners
  /\ \A o \in Owners : \A i \in items[o] :
       /\ i.pos \in Nat /\ i.by \in Clients \cup {0}
       /\ IF o \in Policies THEN i.item = NoState ELSE i.item \in states
  /\ \A o \in Owners \ owners : items[o] = {}
  /\ Builtins \subseteq states /\ states \subseteq States
  /\ channel \in ChannelRow
  /\ view \in [Clients -> Shown]
  /\ request \in [Clients -> [pc : {"idle", "clear", "fill", "channel"}, o : Owners,
                              list : StepLists \cup RuleLists \cup {<<>>}, done : Nat,
                              row : ChannelRow, new : Secrets \cup {NoSecret, Mask}]]
  /\ torn \subseteq Owners /\ cut \subseteq Owners
  /\ sent \in 0..MaxRequests

Init ==
  /\ owners = Owners /\ states = States
  /\ items = [o \in Owners |-> {}]
  /\ goal = [o \in Owners |-> [by |-> 0, list |-> <<>>]]
  /\ torn = {} /\ cut = {}
  /\ \E s \in Secrets : channel = [secret |-> s, enabled |-> TRUE] /\ asked = s
  /\ view = [c \in Clients |-> NoSecret]
  /\ overtaken = FALSE /\ removed = FALSE
  /\ request = [c \in Clients |-> Idle] /\ sent = 0

GoTo(c, state) == request' = [request EXCEPT ![c] = state]
Begin(c, state) ==
  /\ request[c].pc = "idle" /\ sent < MaxRequests
  /\ sent' = sent + 1
  /\ GoTo(c, state)

---------------------------------------------------------------------------
(***************************************************************************)
(* ReplaceSteps and ReplaceRules.                                          *)
(***************************************************************************)
\* GetByID; ReplaceRules also holds its list against the states there are.
Valid(o, l) == o \in Policies \/ \A i \in DOMAIN l : l[i] \in states

ReadOwner(c, o, l) ==
  /\ o \in owners /\ Valid(o, l)
  /\ Begin(c, [Idle EXCEPT !.pc = "clear", !.o = o, !.list = l])
  /\ UNCHANGED <<children, channels>>

Filling(o) == {c \in Clients : request[c].pc = "fill" /\ request[c].o = o}

BugKept(o) == items[o]
Kept(o) == {}

\* With nothing to insert the request is over.
Clear(c) ==
  LET r == request[c] IN
  /\ r.pc = "clear"
  /\ items' = [items EXCEPT ![r.o] = Kept(r.o)]
  /\ goal' = [goal EXCEPT ![r.o] = [by |-> c, list |-> r.list]]
  /\ torn' = IF Filling(r.o) = {} THEN torn ELSE torn \cup {r.o}
  /\ cut' = cut \ {r.o}
  /\ GoTo(c, IF r.list = <<>> THEN Idle ELSE [r EXCEPT !.pc = "fill"])
  /\ UNCHANGED <<owners, states, channels, sent>>

\* The foreign keys: the owner and the state of a rule must exist still.
Insertable(o, item) == o \in owners /\ (item \in states \/ o \in Policies)

Insert(c) ==
  LET r == request[c]
      n == r.done + 1
  IN
  /\ r.pc = "fill"
  /\ IF Insertable(r.o, r.list[n])
     THEN /\ items' = [items EXCEPT ![r.o] =
                         @ \cup {[pos |-> n, item |-> r.list[n], by |-> c]}]
          /\ GoTo(c, IF n = Len(r.list) THEN Idle ELSE [r EXCEPT !.done = n])
          /\ UNCHANGED cut
     ELSE /\ cut' = cut \cup {r.o}
          /\ GoTo(c, Idle)
          /\ UNCHANGED items
  /\ UNCHANGED <<owners, states, goal, torn, channels, sent>>

---------------------------------------------------------------------------
(***************************************************************************)
(* Policies, monitors and states go; custom states come.                   *)
(***************************************************************************)
OneStatement == sent < MaxRequests /\ sent' = sent + 1 /\ UNCHANGED request

\* The items go with their owner.
DeleteOwner(o) ==
  /\ OneStatement /\ o \in owners
  /\ owners' = owners \ {o}
  /\ items' = [items EXCEPT ![o] = {}]
  /\ goal' = [goal EXCEPT ![o] = [by |-> 0, list |-> <<>>]]
  /\ UNCHANGED <<states, torn, cut, channels>>

\* Deleting one that a rule names fails: the rules do not go with it.
BugUsed(s) == FALSE
Used(s) == \E o \in Owners : \E i \in items[o] : i.item = s

DeleteState(s) ==
  /\ OneStatement /\ s \in states \ Builtins /\ ~Used(s)
  /\ states' = states \ {s}
  /\ UNCHANGED <<owners, items, goal, torn, cut, channels>>

---------------------------------------------------------------------------
(***************************************************************************)
(* Channels.                                                               *)
(***************************************************************************)
\* Get: a secret is not shown, only that there is one.
Redacted(s) == IF s = NoSecret THEN NoSecret ELSE Mask

GetChannel(c) ==
  /\ OneStatement
  /\ view' = [view EXCEPT ![c] = Redacted(channel.secret)]
  /\ UNCHANGED <<children, channel, asked, overtaken, removed>>

\* The body: what the client was shown, unless it sets or removes the secret.
ReadChannel(c, new) ==
  /\ new \in Secrets \cup {NoSecret, view[c]}
  /\ Begin(c, [Idle EXCEPT !.pc = "channel", !.row = channel, !.new = new])
  /\ UNCHANGED <<children, channels>>

Merged(new, old) == IF new = Mask /\ old # NoSecret THEN old ELSE new

WriteChannel(c, enabled) ==
  LET r == request[c]
      secret == Merged(r.new, r.row.secret)
  IN
  /\ r.pc = "channel"
  /\ channel' = [secret |-> secret, enabled |-> enabled]
  /\ asked' = IF r.new = Mask THEN asked ELSE r.new
  /\ overtaken' = (overtaken \/ channel # r.row)
  /\ removed' = (removed \/ secret = NoSecret)
  /\ GoTo(c, Idle)
  /\ UNCHANGED <<children, view, sent>>

---------------------------------------------------------------------------
\* A statement fails, or the client goes away.
Fail(c) ==
  /\ request[c].pc # "idle"
  /\ cut' = IF request[c].pc = "fill" THEN cut \cup {request[c].o} ELSE cut
  /\ GoTo(c, Idle)
  /\ UNCHANGED <<owners, items, states, goal, torn, channels, sent>>

Next ==
  \/ \E c \in Clients :
       \/ \E o \in Owners : \E l \in Lists(o) : ReadOwner(c, o, l)
       \/ Clear(c) \/ Insert(c) \/ Fail(c)
       \/ GetChannel(c)
       \/ \E new \in Secrets \cup {NoSecret, Mask} : ReadChannel(c, new)
       \/ \E enabled \in BOOLEAN : WriteChannel(c, enabled)
  \/ \E o \in Owners : DeleteOwner(o)
  \/ \E s \in States : DeleteState(s)

Spec == Init /\ [][Next]_vars

---------------------------------------------------------------------------
\* Whoever reads a list, the engine its steps or the evaluator its rules,
\* finds a beginning of the list that one request has brought, and all of it
\* once the request is answered; unless two requests replace it at once.
ListsOfOneRequest ==
  \A o \in Owners \ torn :
    LET l == goal[o].list
        First(n) == {[pos |-> i, item |-> l[i], by |-> goal[o].by] : i \in 1..n}
    IN  \E n \in 0..Len(l) :
          /\ items[o] = First(n)
          /\ Filling(o) = {} /\ o \notin cut => n = Len(l)

\* "preserved on write when the client echoes back the sentinel": the secret
\* is the one set last, however often clients that were shown the mask write
\* the channel.  The exceptions: an outdated copy brings an older secret back,
\* and the mask is stored when the secret was removed since it was shown.
SecretsKept == ~overtaken /\ ~removed => channel.secret = asked
=============================================================================
