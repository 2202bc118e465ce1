------------------------------- MODULE Reply -------------------------------
(***************************************************************************)
(* The reply path (internal/notify/providers/cloudevent_http.go,           *)
(* internal/cloudevents/reply): a worker posts an outbound CloudEvent to a *)
(* sink; the sink may answer with a reply event that names an earlier      *)
(* outbound event.  The dispatcher finds that event in an LRU registry,    *)
(* checks the reply against the channel's settings and a rate limiter, and *)
(* one of thirteen handlers changes an alert or writes a row about it.  A  *)
(* send that failed is retried, with the reply it brought.                 *)
(*                                                                         *)
(* Each SQL statement is one step.  What a reply says beyond the ids it    *)
(* names (texts, lengths, URLs, filters, enumerations) is the field valid. *)
(***************************************************************************)
EXTENDS AlertStore, Sequences, FiniteSets

CONSTANTS
  Senders,       \* workers of the cloudevent_http pool
  Events,        \* outbound events
  Orgs,
  EventAlert,    \* EventAlert[e]: alert_id in the event's data, or NoId
  OrgOf,         \* OrgOf[i]: organisation of an event, alert, monitor, owner, channel
  MonitorIn,     \* MonitorIn[e]: monitor_id in the event's data
  Enabled,       \* ids of the channels that are enabled
  Replies,       \* what sinks may answer
  Remediations,  \* remediation ids, chosen by the sink
  Earlier,       \* Earlier[x]: the row of x when the process starts
  Channels,      \* channel settings: accepted types, trust flags, rate limit
  MonitorOf,     \* MonitorOf[a]: monitor of alert a
  Window, TTL, MaxEntries,
  NoId, NoBucket,
  Upsets,        \* bound: the alerts and monitors that recover, go or change
  Menus          \* bounds: what happens together (see Menu)

Types == {"claimed", "enriched", "linked", "ack_with_context", "ownership",
          "deduplicated", "escalated", "suppressed", "route", "status_page",
          "remediation_started", "remediation_result", "deregister"}

\* trustRequiredReplyTypes.
Elevated == Types \ {"claimed", "enriched", "linked", "deduplicated"}

\* allowedRemediationOutcomes.
Outcomes == {"success", "failure", "partial"}

\* A row of alert_remediations; status "none" is the absence of a row.
RemediationRow ==
  [status : {"none", "in_progress"} \cup Outcomes, alert : Alerts \cup {NoId},
   source : Replies \cup {NoId}]

\* The jobs, <<event, channel>>, that the pool is given to send, what the sinks
\* may answer, and how many POSTs, ticks of the clock and upsets there are.
Menu == [jobs : SUBSET (Events \X Channels), replies : SUBSET Replies,
         sends : Nat, time : Nat, upsets : Nat]

ASSUME ReplyAssumption ==
  /\ {Window, TTL, MaxEntries} \subseteq Nat \ {0}
  /\ EventAlert \in [Events -> Alerts \cup {NoId}] /\ NoId \notin Alerts
  /\ \A r \in Replies :
       /\ r.type \in Types \cup {"other"}
       /\ r.type = "escalated" => r.target \in Int
       /\ r.valid /\ r.type = "remediation_started" => r.target \in Remediations
       /\ r.valid /\ r.type = "remediation_result" => r.result \in Outcomes
  /\ \A c \in Channels : c.limit \in Nat \ {0}
  /\ NoBucket \notin [start : Nat, count : Nat, prev : Nat]
  /\ Menus \subseteq Menu
  /\ \A e \in Events : OrgOf[e] \in Orgs
  /\ Earlier \in [Remediations -> RemediationRow]
  /\ \A x \in Remediations : Earlier[x].status # "none" =>
       OrgOf[Earlier[x].source.ref] = OrgOf[Earlier[x].alert]
  /\ MonitorOf \in [Alerts -> Monitors]
  /\ \A a \in Alerts : OrgOf[MonitorOf[a]] = OrgOf[a]

VARIABLES
  alerts,        \* rows of alerts (AlertStore)
  marks,         \* the owner_id and duplicate_of columns
  enabled,       \* monitors.enabled
  latest,        \* latest check of each monitor: "up" within a minute, or not
  remediations,  \* alert_remediations
  written,       \* rows of alert_suppressions, alert_routing_rules and
                 \* alert_status_page_refs with source_reply_id r
  timeline,      \* alert_events made by replies
  audit,         \* cloudevent_reply_audit
  registry,      \* MemoryRegistry.order, front first
  buckets,       \* rateLimiter.buckets
  setbacks,      \* history: how often an overtaken caller has set a bucket back
  now,
  sender,        \* the workers
  menu,          \* the menu of this behaviour
  sends, upsets,
  log,           \* history: every Record
  grants,        \* history: every reply let through, at the time its caller read
  completions    \* history: results applied to each remediation, by an earlier
                 \* process too

rows == <<alerts, marks, enabled, remediations, written, timeline, completions>>
memory == <<registry, buckets, setbacks, log, grants>>
world == <<latest, now, menu>>
vars == <<rows, memory, world, audit, sender, sends, upsets>>

Keys == Orgs \X Types

Idle == [pc |-> "idle", event |-> NoId, channel |-> NoId, reply |-> NoId,
         copy |-> NoId, outcome |-> "none", at |-> 0]

NoRemediation == [status |-> "none", alert |-> NoId, source |-> NoId]

TypeOK ==
  /\ alerts \in [Alerts -> AlertRow]
  /\ \A a \in Alerts : marks[a].owner # NoId => marks[a].owner \in DOMAIN OrgOf
  /\ \A a \in Alerts : marks[a].duplicate \in Alerts \cup {NoId}
  /\ remediations \in [Remediations -> RemediationRow]
  /\ Len(registry) <= MaxEntries
  /\ \A i, j \in DOMAIN registry : registry[i].event = registry[j].event => i = j
  /\ \A k \in Keys : buckets[k] # NoBucket =>
       buckets[k].count \in Nat /\ buckets[k].start <= now
  /\ \A s \in Senders : sender[s].pc \in
       {"idle", "dispatch", "allow", "check", "apply", "reread", "resolve", "event", "audit"}

Init ==
  /\ alerts = [a \in Alerts |-> [monitor |-> MonitorOf[a], status |-> "firing", step |-> 1]]
  /\ marks = [a \in Alerts |-> [owner |-> NoId, duplicate |-> NoId]]
  /\ enabled = [m \in Monitors |-> TRUE]
  /\ latest = [m \in Monitors |-> "up"]
  /\ remediations = Earlier
  /\ written = [r \in Replies |-> 0]
  /\ timeline = {} /\ audit = {}
  /\ registry = <<>> /\ log = <<>>
  /\ buckets = [k \in Keys |-> NoBucket] /\ grants = <<>>
  /\ setbacks = [k \in Keys |-> 0]
  /\ now = 0 /\ sends = 0 /\ upsets = 0
  /\ sender = [s \in Senders |-> Idle]
  /\ menu \in Menus
  /\ completions = [x \in Remediations |-> IF Earlier[x].status \in Outcomes THEN 1 ELSE 0]

---------------------------------------------------------------------------
(***************************************************************************)
(* The registry, a list with the latest event in front.                    *)
(***************************************************************************)
Expired(entry) == now - entry.at > TTL

Holds(reg, e) == \E i \in DOMAIN reg : reg[i].event = e

\* removeLocked.
Removed(reg, i) ==
  [n \in 1..(Len(reg) - 1) |-> IF n < i THEN reg[n] ELSE reg[n + 1]]
Others(reg, e) ==
  IF Holds(reg, e) THEN Removed(reg, CHOOSE i \in DOMAIN reg : reg[i].event = e) ELSE reg

\* evictLocked drops expired entries from the back until it finds one that is
\* not, and then those beyond the capacity.
LiveLen(reg) ==
  CHOOSE n \in 0..Len(reg) :
    /\ n > 0 => ~Expired(reg[n])
    /\ \A i \in (n + 1)..Len(reg) : Expired(reg[i])
Evicted(reg) ==
  [n \in 1..(IF LiveLen(reg) > MaxEntries THEN MaxEntries ELSE LiveLen(reg)) |-> reg[n]]

\* MoveToFront or PushFront.
InFront(entry, reg) ==
  [n \in 1..(Len(reg) + 1) |-> IF n = 1 THEN entry ELSE reg[n - 1]]

Record(reg, e) == Evicted(InFront([event |-> e, at |-> now], Others(reg, e)))

Lookup(reg, e) ==
  \E i \in DOMAIN reg : reg[i].event = e /\ ~Expired(reg[i])

\* An expired entry is removed by the lookup that finds it.
AfterLookup(reg, e) ==
  IF Holds(reg, e) /\ ~Lookup(reg, e) THEN Others(reg, e) ELSE reg

(***************************************************************************)
(* The rate limiter: a sliding window made of two counters per key.  The   *)
(* least recently used bucket is evicted beyond ten thousand of them; that *)
(* is left out.                                                            *)
(***************************************************************************)
Aligned(t) == t - (t % Window)

\* The window becomes that of t, whichever way it has to move: backwards too.
BugRolled(b, t) ==
  IF b # NoBucket /\ b.start = Aligned(t) THEN b
  ELSE [start |-> Aligned(t), count |-> 0, prev |-> 0]
Rolled(b, t) ==
  CASE b # NoBucket /\ b.start = Aligned(t)          -> b
    [] b # NoBucket /\ b.start + Window = Aligned(t) ->
         [start |-> Aligned(t), count |-> 0, prev |-> b.count]
    [] OTHER -> [start |-> Aligned(t), count |-> 0, prev |-> 0]

\* A rolled bucket's window holds t, so that neither clamp of elapsed applies.
Admits(b, t, limit) ==
  b.count * Window + b.prev * (Window - (t - b.start)) + Window <= limit * Window

\* A caller that read t has been overtaken if another one, with a later window,
\* had the lock before it; when there is no bucket to tell, the clock does.
Overtaken(k, t) ==
  IF buckets[k] = NoBucket THEN Aligned(t) < Aligned(now) ELSE Aligned(t) < buckets[k].start

\* sweepOnce, which reads the clock before it takes the lock too.
Sweep ==
  /\ \E t \in 0..now :
       LET old == {k \in Keys : buckets[k] # NoBucket /\ t - buckets[k].start >= 2 * Window}
       IN /\ old # {}
          /\ buckets' = [k \in Keys |-> IF k \in old THEN NoBucket ELSE buckets[k]]
  /\ UNCHANGED <<rows, registry, setbacks, log, grants, world, audit, sender, sends, upsets>>

---------------------------------------------------------------------------
(***************************************************************************)
(* Send, with the response.  The event is recorded before it is posted, on *)
(* every attempt; a reply is dispatched whatever the status of the         *)
(* response, and when that is a failure the job is sent again: any job may *)
(* follow any, so a retry is another Send.                                 *)
(***************************************************************************)
\* handleReply: a response without a CloudEvent, or with one that does not
\* parse, brings no reply.
Responses == menu.replies \cup {NoId}

Send(s) ==
  /\ sender[s].pc = "idle" /\ sends < menu.sends
  /\ sends' = sends + 1
  /\ \E j \in menu.jobs, r \in Responses :
       /\ registry' = Record(registry, j[1])
       /\ log' = Append(log, [event |-> j[1], at |-> now])
       /\ sender' = [sender EXCEPT ![s] =
            IF r = NoId THEN Idle
            ELSE [pc |-> "dispatch", event |-> j[1], channel |-> j[2], reply |-> r,
                  copy |-> NoId, outcome |-> "none", at |-> 0]]
  /\ UNCHANGED <<rows, buckets, setbacks, grants, world, audit, upsets>>

---------------------------------------------------------------------------
(***************************************************************************)
(* The audit table has a unique index on (org, alert, reply id); an insert *)
(* that it refuses is only logged.                                         *)
(***************************************************************************)
WriteAudit(table, org, alert, r, outcome) ==
  IF \E x \in table : x.org = org /\ x.alert = alert /\ x.reply.id = r.id
  THEN table
  ELSE table \cup {[org |-> org, alert |-> alert, reply |-> r, outcome |-> outcome]}

\* auditReject.  An unknown alertref has no entry to name an alert.
AuditReject(org, r, outcome) ==
  WriteAudit(audit, org,
    IF outcome = "unknown_alertref" THEN NoId ELSE EventAlert[r.ref], r, outcome)

\* The outcome of the checks of dispatchCore that come before the limiter.
\* ChannelID is the provider's type on both sides, so that check is left out.
Verdict(r, org, c) ==
  IF r.ref = NoId THEN "ignored"
  ELSE IF ~Lookup(registry, r.ref) THEN "unknown_alertref"
  ELSE IF OrgOf[r.ref] # org THEN "org_mismatch"
  ELSE IF r.type \notin Types THEN "unknown_type"
  ELSE IF r.type \notin c.accepted THEN "ignored"
  ELSE IF r.type \in Elevated /\ ~c.trusted THEN "trust_required"
  ELSE IF r.type = "deregister" /\ ~c.deregister THEN "trust_required"
  ELSE "pass"

\* The checks; a reply that passes them goes on to the limiter.
Dispatch(s) ==
  LET r == sender[s].reply
      org == OrgOf[sender[s].event]
      v == Verdict(r, org, sender[s].channel)
  IN
  /\ sender[s].pc = "dispatch"
  /\ registry' = AfterLookup(registry, r.ref)
  /\ IF v = "pass"
     THEN sender' = [sender EXCEPT ![s] = [@ EXCEPT !.pc = "allow", !.at = now]]
     ELSE sender' = [sender EXCEPT ![s] = Idle]
  /\ audit' = IF v \in {"pass", "ignored"} THEN audit ELSE AuditReject(org, r, v)
  /\ UNCHANGED <<rows, buckets, setbacks, log, grants, world, sends, upsets>>

\* Allow reads the clock and then takes the lock: when a caller has it, its t is
\* any time since the checks, and callers need not come in the order of theirs.
Allow(s) ==
  LET r == sender[s].reply
      org == OrgOf[sender[s].event]
      limit == sender[s].channel.limit
      k == <<org, r.type>>
  IN
  /\ sender[s].pc = "allow"
  /\ \E t \in sender[s].at..now :
       LET b == Rolled(buckets[k], t)
           turn == setbacks[k] + (IF Overtaken(k, t) THEN 1 ELSE 0)
       IN
       /\ setbacks' = [setbacks EXCEPT ![k] = turn]
       /\ \/ /\ Admits(b, t, limit)
             /\ buckets' = [buckets EXCEPT ![k] = [b EXCEPT !.count = @ + 1]]
             /\ grants' = Append(grants, [key |-> k, at |-> t, limit |-> limit, turn |-> turn])
             /\ sender' = [sender EXCEPT ![s] = [@ EXCEPT !.pc = "check", !.at = 0]]
             /\ UNCHANGED audit
          \/ /\ ~Admits(b, t, limit)
             /\ buckets' = [buckets EXCEPT ![k] = b]
             /\ audit' = AuditReject(org, r, "rate_limited")
             /\ sender' = [sender EXCEPT ![s] = Idle]
             /\ UNCHANGED grants
  /\ UNCHANGED <<rows, registry, log, world, sends, upsets>>

---------------------------------------------------------------------------
(***************************************************************************)
(* The handlers.  Each first tests the reply and reads what it needs       *)
(* (Check), then changes rows one statement at a time; a refusal is        *)
(* audited too.  Handled is a step within a handler.                       *)
(***************************************************************************)
Org(s) == OrgOf[sender[s].reply.ref]

\* effectiveAlertID: requireAlertScopedEntry leaves only the entry's alert.
Subject(s) == EventAlert[sender[s].reply.ref]

Goto(s, pc) == sender' = [sender EXCEPT ![s].pc = pc]
Conclude(s, o) == sender' = [sender EXCEPT ![s] = [@ EXCEPT !.pc = "audit", !.outcome = o]]
Take(s, pc, copy) == sender' = [sender EXCEPT ![s] = [@ EXCEPT !.pc = pc, !.copy = copy]]

Handled == UNCHANGED <<memory, world, audit, sends, upsets>>

InOrg(s, i) == i \in DOMAIN OrgOf /\ OrgOf[i] = Org(s)

\* loadAndVerifyAlert.
Loads(s) == Exists(alerts, Subject(s)) /\ InOrg(s, Subject(s))

\* Lengths, URLs, match filters and enumerations.
WellFormed(r) == r.valid

\* The opening of every alert handler: the reply's fields, cross_alert,
\* requireAlertScopedEntry, loadAndVerifyAlert.
AlertScoped(s) ==
  LET r == sender[s].reply IN
  /\ WellFormed(r)
  /\ Subject(s) # NoId
  /\ r.alert # NoId => r.alert = Subject(s)
  /\ Loads(s)

BugDuplicateAllowed(s) ==
  LET r == sender[s].reply
  IN r.target # Subject(s) /\ r.target \in Alerts /\ Exists(alerts, r.target)
DuplicateAllowed(s) ==
  LET r == sender[s].reply
  IN r.target # Subject(s) /\ r.target \in Alerts /\ Exists(alerts, r.target)
     /\ InOrg(s, r.target)

OwnerAllowed(s) == InOrg(s, sender[s].reply.target)

TargetAllowed(s) == InOrg(s, sender[s].reply.target) /\ sender[s].reply.target \in Enabled

\* lookupEscalationStepUUID counts positions from zero; index 0 asks for no
\* step, and then there must be a new severity.
StepAllowed(s) == sender[s].reply.target < NumSteps

ResultAllowed(s) ==
  LET x == sender[s].reply.target
  IN /\ x \in Remediations
     /\ remediations[x].status = "in_progress"
     /\ remediations[x].alert = Subject(s)

\* The monitor need not be the entry's if the entry names none.
MonitorAllowed(s) ==
  LET r == sender[s].reply
      m == MonitorIn[r.ref]
  IN WellFormed(r) /\ r.target \in Monitors /\ (m # NoId => m = r.target) /\ InOrg(s, r.target)

Allowed(s) ==
  LET t == sender[s].reply.type IN
  IF t = "deregister" THEN MonitorAllowed(s)
  ELSE /\ AlertScoped(s)
       /\ t = "deduplicated" => DuplicateAllowed(s)
       /\ t = "ownership" => OwnerAllowed(s)
       /\ t = "route" => TargetAllowed(s)
       /\ t = "escalated" => StepAllowed(s)
       /\ t = "remediation_result" => ResultAllowed(s)

Check(s) ==
  /\ sender[s].pc = "check"
  /\ IF Allowed(s)
     THEN Take(s, "apply", IF Subject(s) \in Alerts THEN alerts[Subject(s)] ELSE NoId)
     ELSE Conclude(s, "rejected")
  /\ Handled /\ UNCHANGED rows

Applying(s, type) == sender[s].pc = "apply" /\ sender[s].reply.type = type

\* CreateEvent: the row must have its alert.
AddEvent(s) ==
  timeline' = IF Exists(alerts, Subject(s))
              THEN timeline \cup {[alert |-> Subject(s), reply |-> sender[s].reply]}
              ELSE timeline

\* The handlers that only write to the timeline (writeTimelineEvent).
Noted(s) ==
  /\ AddEvent(s)
  /\ Conclude(s, IF Exists(alerts, Subject(s)) THEN "accepted" ELSE "handler_error")
  /\ UNCHANGED <<alerts, marks, enabled, remediations, written, completions>> /\ Handled

Claimed(s) == Applying(s, "claimed") /\ Noted(s)
Enriched(s) == Applying(s, "enriched") /\ Noted(s)
Linked(s) == Applying(s, "linked") /\ Noted(s)

\* The handlers that call a statement of alerts_phase5.go, an update of one
\* column with an event after it: no row is an error.
Marked(s, done) ==
  IF Exists(alerts, Subject(s))
  THEN done /\ Goto(s, "event")
  ELSE Conclude(s, "handler_error") /\ UNCHANGED <<alerts, marks>>

SetOwner(a, owner) == marks' = [marks EXCEPT ![a].owner = owner]
MarkDuplicate(a, primary) == marks' = [marks EXCEPT ![a].duplicate = primary]

AckReply(s) ==
  /\ Applying(s, "ack_with_context")
  /\ Marked(s, alerts' = AckWithContext(alerts, Subject(s)) /\ UNCHANGED marks)
  /\ Handled /\ UNCHANGED <<enabled, remediations, written, timeline, completions>>

Ownership(s) ==
  /\ Applying(s, "ownership")
  /\ Marked(s, SetOwner(Subject(s), sender[s].reply.target) /\ UNCHANGED alerts)
  /\ Handled /\ UNCHANGED <<enabled, remediations, written, timeline, completions>>

Deduplicated(s) ==
  /\ Applying(s, "deduplicated")
  /\ Marked(s, MarkDuplicate(Subject(s), sender[s].reply.target) /\ UNCHANGED alerts)
  /\ Handled /\ UNCHANGED <<enabled, remediations, written, timeline, completions>>

\* The copy loaded by Check is written back, with a new step or severity.
Escalated(s) ==
  LET i == sender[s].reply.target
      row == [sender[s].copy EXCEPT !.step = IF i > 0 THEN i + 1 ELSE @]
  IN
  /\ Applying(s, "escalated")
  /\ alerts' = UpdateAlert(alerts, Subject(s), row)
  /\ IF UpdateOK(alerts, Subject(s), row) THEN Goto(s, "event")
     ELSE Conclude(s, "handler_error")
  /\ Handled
  /\ UNCHANGED <<marks, enabled, remediations, written, timeline, completions>>

\* The handlers that insert a row under an id of its own.
CreateSuppression(r) == written' = [written EXCEPT ![r] = @ + 1]
CreateRoutingRule(r) == written' = [written EXCEPT ![r] = @ + 1]
CreateStatusPageRef(r) == written' = [written EXCEPT ![r] = @ + 1]

Inserted(s) ==
  /\ Goto(s, "event")
  /\ Handled /\ UNCHANGED <<alerts, marks, enabled, remediations, timeline, completions>>

Suppressed(s) == Applying(s, "suppressed") /\ CreateSuppression(sender[s].reply) /\ Inserted(s)
Route(s) == Applying(s, "route") /\ CreateRoutingRule(sender[s].reply) /\ Inserted(s)
StatusPage(s) ==
  Applying(s, "status_page") /\ CreateStatusPageRef(sender[s].reply) /\ Inserted(s)

\* The sink chooses the primary key; the organisation is read from the alert.
CreateRemediation(x, a, r) ==
  remediations' = [remediations EXCEPT ![x] =
    [status |-> "in_progress", alert |-> a, source |-> r]]

BugRemediationStarted(s) ==
  LET x == sender[s].reply.target IN
  /\ Applying(s, "remediation_started")
  /\ IF remediations[x].status = "none" THEN CreateRemediation(x, Subject(s), sender[s].reply)
     ELSE UNCHANGED remediations
  /\ Goto(s, "event")
  /\ Handled /\ UNCHANGED <<alerts, marks, enabled, written, timeline, completions>>
RemediationStarted(s) ==
  LET x == sender[s].reply.target IN
  /\ Applying(s, "remediation_started")
  /\ \/ /\ remediations[x].status = "none" /\ Exists(alerts, Subject(s))
        /\ CreateRemediation(x, Subject(s), sender[s].reply)
        /\ Goto(s, "event")
     \/ /\ remediations[x].status # "none" \/ ~Exists(alerts, Subject(s))
        /\ Conclude(s, "handler_error")
        /\ UNCHANGED remediations
  /\ Handled /\ UNCHANGED <<alerts, marks, enabled, written, timeline, completions>>

\* Complete: UPDATE ... WHERE status = 'in_progress'.
BugCompletes(x) == remediations[x].status # "none"
Completes(x) == remediations[x].status = "in_progress"

RemediationResult(s) ==
  LET x == sender[s].reply.target IN
  /\ Applying(s, "remediation_result")
  /\ \/ /\ Completes(x)
        /\ remediations' = [remediations EXCEPT ![x].status = sender[s].reply.result]
        /\ completions' = [completions EXCEPT ![x] = @ + 1]
        /\ Goto(s, "reread")
     \/ /\ ~Completes(x)
        /\ Conclude(s, "rejected")
        /\ UNCHANGED <<remediations, completions>>
  /\ Handled /\ UNCHANGED <<alerts, marks, enabled, written, timeline>>

\* After a success the alert and the latest check are read, and the copy of
\* the alert is written back as resolved; an error of that update is ignored.
Reread(s) ==
  LET row == alerts[Subject(s)]
      resolves == /\ sender[s].reply.result = "success"
                  /\ IsActive(row) /\ latest[row.monitor] = "up"
  IN
  /\ sender[s].pc = "reread"
  /\ Take(s, IF resolves THEN "resolve" ELSE "event", row)
  /\ Handled /\ UNCHANGED rows

AutoResolve(s) ==
  /\ sender[s].pc = "resolve"
  /\ alerts' = UpdateAlert(alerts, Subject(s),
                 [sender[s].copy EXCEPT !.status = "resolved"])
  /\ Goto(s, "event")
  /\ Handled /\ UNCHANGED <<marks, enabled, remediations, written, timeline, completions>>

Disable(m) == enabled' = [enabled EXCEPT ![m] = FALSE]

Deregister(s) ==
  /\ Applying(s, "deregister")
  /\ Disable(sender[s].reply.target)
  /\ Conclude(s, "accepted")
  /\ Handled /\ UNCHANGED <<alerts, marks, remediations, written, timeline, completions>>

\* The event is part of the store's function for a marked alert, and its
\* failure an error; the other handlers ignore it.
Event(s) ==
  /\ sender[s].pc = "event"
  /\ AddEvent(s)
  /\ Conclude(s, IF /\ sender[s].reply.type \in {"ack_with_context", "ownership", "deduplicated"}
                    /\ ~Exists(alerts, Subject(s))
                 THEN "handler_error" ELSE "accepted")
  /\ Handled /\ UNCHANGED <<alerts, marks, enabled, remediations, written, completions>>

Audit(s) ==
  /\ sender[s].pc = "audit"
  /\ audit' = WriteAudit(audit, Org(s), Subject(s), sender[s].reply, sender[s].outcome)
  /\ sender' = [sender EXCEPT ![s] = Idle]
  /\ UNCHANGED <<rows, memory, world, sends, upsets>>

Handler(s) ==
  \/ Check(s) \/ Claimed(s) \/ Enriched(s) \/ Linked(s) \/ AckReply(s) \/ Ownership(s)
  \/ Deduplicated(s) \/ Escalated(s) \/ Suppressed(s) \/ Route(s) \/ StatusPage(s)
  \/ RemediationStarted(s) \/ RemediationResult(s) \/ Reread(s) \/ AutoResolve(s)
  \/ Deregister(s) \/ Event(s) \/ Audit(s)

---------------------------------------------------------------------------
(***************************************************************************)
(* What else happens: the engine resolves an alert, an alert goes with its *)
(* monitor, a check comes in, time passes, the process restarts.           *)
(***************************************************************************)
Upset == upsets < menu.upsets /\ upsets' = upsets + 1

Resolve(a) ==
  /\ Upset
  /\ IsActive(alerts[a])
  /\ alerts' = [alerts EXCEPT ![a].status = "resolved"]
  /\ UNCHANGED <<marks, enabled, remediations, written, timeline, completions,
                 memory, world, audit, sender, sends>>

Purge(a) ==
  /\ Upset
  /\ Exists(alerts, a)
  /\ alerts' = [alerts EXCEPT ![a].status = "none"]
  /\ timeline' = {t \in timeline : t.alert # a}
  /\ UNCHANGED <<marks, enabled, remediations, written, completions,
                 memory, world, audit, sender, sends>>

CheckIn(m) ==
  /\ Upset
  /\ latest' = [latest EXCEPT ![m] = IF @ = "up" THEN "not up" ELSE "up"]
  /\ UNCHANGED <<rows, memory, now, menu, audit, sender, sends>>

Tick ==
  /\ now < menu.time
  /\ now' = now + 1
  /\ UNCHANGED <<rows, memory, latest, menu, audit, sender, sends, upsets>>

\* The registry and the limiter live in memory.
Restart ==
  /\ Upset
  /\ registry' = <<>> /\ log' = <<>> /\ grants' = <<>>
  /\ buckets' = [k \in Keys |-> NoBucket] /\ setbacks' = [k \in Keys |-> 0]
  /\ sender' = [s \in Senders |-> Idle]
  /\ UNCHANGED <<rows, world, audit, sends>>

Next ==
  \/ \E s \in Senders : Send(s) \/ Dispatch(s) \/ Allow(s) \/ Handler(s)
  \/ \E a \in Alerts \cap Upsets : Resolve(a) \/ Purge(a)
  \/ \E m \in Monitors \cap Upsets : CheckIn(m)
  \/ Sweep \/ Tick \/ Restart

Spec == Init /\ [][Next]_vars

---------------------------------------------------------------------------
\* An event recorded less than TTL ago is known to the registry unless
\* MaxEntries other events were recorded after it: recording an event again
\* counts, and never pushes out one that is newer.
RecentIsKnown ==
  \A i \in DOMAIN log :
    LET later == {log[j].event : j \in {n \in DOMAIN log : n >= i}} IN
    (now - log[i].at <= TTL /\ Cardinality(later) <= MaxEntries)
      => Lookup(registry, log[i].event)

\* "a burst that straddles the boundary cannot exceed the advertised limit by
\* up to 2x": in no interval as long as a window are twice as many replies of
\* one type let through for an organisation as a channel's limit says, unless
\* a caller overtaken at the edge of a window has set the bucket back between
\* them.
BurstBounded ==
  \A i \in DOMAIN grants :
    Cardinality({j \in DOMAIN grants : /\ grants[j].key = grants[i].key
                                       /\ grants[j].limit = grants[i].limit
                                       /\ grants[j].turn = grants[i].turn
                                       /\ grants[j].at \in grants[i].at..(grants[i].at + Window - 1)})
      < 2 * grants[i].limit

\* What the dispatcher remembers serves its purpose: the registry has no event
\* twice, no more than its limit and every recent one, and the two counters of
\* a bucket bound every burst between callers that were overtaken.
MemoryServes == TypeOK /\ RecentIsKnown /\ BurstBounded

\* A remediation is completed at most once, whatever results arrive together,
\* late or again, and only after it has been started.
CompletedOnce ==
  \A x \in Remediations :
    /\ completions[x] <= 1
    /\ completions[x] = 1 <=> remediations[x].status \in Outcomes

Noticed(a, r) == Exists(alerts, a) => [alert |-> a, reply |-> r] \in timeline

\* What the audit calls accepted has been done: the row, the mark or the event
\* is there, crash or not, and still is unless its alert is gone.
AcceptedIsApplied ==
  \A x \in audit : x.outcome = "accepted" =>
    CASE x.reply.type \in {"suppressed", "route", "status_page"} -> written[x.reply] > 0
      [] x.reply.type = "remediation_started" -> remediations[x.reply.target].source = x.reply
      [] x.reply.type = "remediation_result" ->
           remediations[x.reply.target].status \in Outcomes
      [] x.reply.type = "deregister" -> ~enabled[x.reply.target]
      [] OTHER -> Noticed(x.alert, x.reply)

\* Whatever sinks name, no alert gets an owner or a primary of another
\* organisation, and no remediation is about an alert of another organisation
\* than the reply that started it.
WithinOrg ==
  /\ \A a \in Alerts :
       /\ marks[a].owner # NoId => OrgOf[marks[a].owner] = OrgOf[a]
       /\ marks[a].duplicate # NoId => OrgOf[marks[a].duplicate] = OrgOf[a]
  /\ \A x \in Remediations : remediations[x].status # "none" =>
       OrgOf[remediations[x].source.ref] = OrgOf[remediations[x].alert]
=============================================================================
