# A TLA+ model of YipYap

YipYap checks monitors, turns status changes into alerts, escalates alerts
along a policy, sends notifications and speaks CloudEvents with other systems.
This directory holds TLA+ modules of its core, the TLC configurations that
check them on small instances, and machine-checked proofs.  Paths below are
relative to the repository root, or to `internal/` where that is plain.

## 1. The system

`cmd/yipyap/main.go` wires one process: a SQLite store, an in-memory bus, the
check scheduler, the escalation engine, the notification dispatcher, the reply
dispatcher, the HTTP API with its WebSocket hub, the CloudEvents router and
background jobs.

```
 monitor endpoints --rows--> resync --runners--> tickers --check.due-->
   dispatchCheckDue --two channels--> worker pool --> batch writer --> monitor_checks
                                          |
                              alert.trigger, alert.recover
                                          v
 chat buttons, events API --alert.*--> escalation engine <-- tick, 5 s
 alert endpoints, replies --SQL--> alerts, alert_escalation_state
                                          |  notify.request
                                          v
 router --notify.request--> dispatcher -> worker pools -> providers --> sinks
                                                             ^            |
                                        reply dispatcher <---+-- replies -+
 senders --ingest--> checks;   events --bus--> consumers --> polls, streams
```

| component | code | state | operations | what makes it correct |
|---|---|---|---|---|
| escalation engine | `escalation/engine.go` | rows of `alerts`, `alert_escalation_state`; copies of rows in goroutines | handlers of trigger, recover, ack; the tick loop; `notifyStep` | one active alert per monitor; bounded retries and loops; steps in order; mute respected; escalation ends only with the policy or the alert |
| alert store | `store/sqlite/alerts*.go`, migration 005 | the two tables and a partial unique index | single SQL statements | atomic, and the index is never violated |
| alert writers | `api/handlers/{alerts,events,slack_,discord_,telegram_}*.go` | a row copy per request | read, change, write back | no illegal pair of rows, whatever is overwritten |
| reply path | `cloudevents/reply`, `store/sqlite/phase5_reply.go` | event registry, rate limits, rows about alerts, audit | `Dispatch`, thirteen handlers | a reply takes effect in its own organisation, on the event it answers, and a result once |
| check dispatch | `checker/scheduler.go` | two bounded channels, workers, runners | tickers, `dispatchCheckDue`, `checkWorker`, `Stop` | priority; nothing accepted is lost; `Stop` ends |
| check evaluation | same file | `lastStatus`, rows, pending rows | `executeCheck`, `executeHeartbeatCheck`, the ping endpoint | an event for each change of status, no other |
| monitor runners | same file | map of runners | `Start`, `resyncFromDB` | follows the database |
| monitor endpoints | `api/handlers/monitors.go`, `monitor_groups.go`, `bulk_import.go` | rows of monitors, labels, groups | create, update, pause, labels, import | no edit lost; the plan's limit; labels of one request |
| batch writer | `checker/batchwriter.go` | channel, batches | `Enqueue`, loops, `flush`, `Stop` | what is accepted is written once; bounded memory |
| dispatcher, worker pools | `notify/dispatcher.go`, `worker.go` | `seen`, channel, workers | `Dispatch`, `Submit`, retries, `Stop` | one job per key; no job stuck; drained at `Stop` |
| CloudEvents delivery | `cloudevents/router.go`, `notify/providers/cloudevent_http.go`, `cloudevents/oidc/client.go` | the token cache | fan-out, `Send`, `Token` | each channel gets the event; sent means received |
| ingest | `api/handlers/cloudevents.go`, `cloudevents/oidc/verifier_cache.go` | idempotency rows, two caches of verifiers | batch, claim, apply, verify | one check per event; judged by the current configuration |
| polling, streaming | `api/handlers/cloudevents_{consumer,poll,stream}.go` | cached consumers with buffers | `ensure`, sweep, read | every consumer gets the events; nothing leaks; true counts |
| signing keys | `auth/jwks` | key states, per-replica rotation | boot, rotate, sign | the key of a valid token is published |
| settings | `api/handlers/{escalations,monitor_states,notification_channels}.go` | steps, rules, states, channels | replace lists, edit channels | a list of one request; secrets survive masked edits |
| accounts | `api/handlers/{users,auth_*,password_reset,account_delete}.go`, `jobs/account_cleanup.go` | users, links, the organisation | create, update, transfer, reset, disable, recover, clean up | a recovered account stays; a disabled one is not revived; grace period |
| maintenance | `domain/maintenance.go`, `maintenance/ticker.go`, `api/handlers/maintenance.go` | windows, last observed state of each | endpoints, `poll`, `IsActiveAt` | the last event of a window is true; pages suppressed while active |
| live updates | `api/ws.go` | the clients of each organisation | register, pumps, broadcast | a client that leaves disturbs nobody |
| bus | `bus/channel.go` | subscriptions | `Publish`, `Unsubscribe` | one goroutine per delivery: no order, no redelivery, the publisher's context |

What is hard here is listed under `hazards` in `PROJECT.json`, each at its
line.  In short: goroutines and requests that carry copies of rows across SQL
statements which nothing ties together; a bus without order or redelivery;
contexts that end in the middle of a handler; state in memory that a restart
rebuilds from rows written late; caches filled while their source changes;
bounded channels closed while others send; jobs that list first and delete
later; and a shutdown that cancels before it drains.

## 2. The modules

| module | models | kind |
|---|---|---|
| `AlertStore` | rows of the two alert tables and the SQL statements on them | operators |
| `Escalation` | the engine and every other writer of alert rows | component, EXTENDS `AlertStore` |
| `EscalationInv`, `EscalationProofs` | the inductive invariant `IInv`; the theorems | proofs |
| `Reply` | replies to outgoing events: registry, checks, rate limiter, handlers, audit | component, EXTENDS `AlertStore` |
| `CheckQueue` | dispatch of due checks, the worker pool and `Stop` | component |
| `CheckLog` | what the scheduler may expect of its result writer | abstract specification |
| `BatchWriter` | the batch writer, which refines `CheckLog` | component |
| `Pipeline`, `PipelineProofs` | `CheckQueue` and `BatchWriter` under the scheduler's `Stop`; the theorems about writer and pool | composition, proofs |
| `CheckStatus`, `CheckStatusProofs` | from results to alert events, with restarts; the theorems | component, proofs |
| `AlertSources`, `AlertSourcesProofs` | `Reply` and two settings of `CheckStatus` in one specification; the theorems about replies, and those about checks carried over | composition, EXTENDS `Reply`; proofs |
| `Runners` | the map of runners and its resync, over rows edited at will | component |
| `Monitors`, `MonitorsProofs` | the requests that edit those rows; implements `Runners`; the theorems | composition, EXTENDS `Runners`; proofs |
| `Notify` | dispatcher and one worker pool | component |
| `Delivery`, `DeliveryProofs` | the router's jobs and `Send` with its token cache in place of Notify's `Attempt`; implements `Notify`; the theorems about both | composition, EXTENDS `Notify`; proofs |
| `Ingest` | CloudEvents sent to a monitor, and the verifiers' caches | component |
| `Streams` | polling and streaming over cached consumers | component |
| `SigningKeys` | rotation by several replicas and minting | component |
| `CloudEvents`, `CloudEventsProofs` | the three above side by side; the theorems about them | composition, EXTENDS `SigningKeys`; proofs |
| `Settings` | lists of steps and rules, channel secrets | component |
| `Accounts` | accounts, mailed links and the cleanup job | component |
| `Maintenance` | windows, the events about them and the ticker | component |
| `Organisation`, `OrganisationProofs` | the three above side by side; the theorems about them | composition, EXTENDS `Accounts`; proofs |
| `Hub` | live updates | component |
| `MCEscalation`, `MCDelivery`, `MCMonitors`, `MCHub`, `MCAlertSources`, `MCCloudEvents`, `MCOrganisation` | instances and symmetry | model checking |

`PROJECT.json` maps each definition to its lines.  Definitions named `Bug...`
are plausible bugs of the definition after them: putting one in its place must
break a property; they are not part of any specification.

Three runs join components that share no state.  In `CloudEvents` and
`Organisation` their steps interleave freely, and the proofs are about that.
To explore every interleaving of independent parts would only multiply states,
so that the runs `cloudevents` and `organisation` (`MCCloudEvents`,
`MCOrganisation`), like `AlertSources`, have a variable `part`, chosen at the
start and never changed: each behaviour is one of the chosen component, while
the others keep one initial state.  What such a run shows of a component is
what a run of it alone would show.

SQLite is opened with one connection (`store/sqlite/sqlite.go:42`), so in all
modules a statement is atomic, and an action is one statement with the Go code
around it; a transaction is one action.

### AlertStore and Escalation

`actor` holds, per goroutine, the program counter (the statement that is
next) and its copies: `row` (`*domain.Alert`), `st`
(`*domain.AlertEscalationState`), the muted flag it read and whether its
context is that of a request (`scoped`).  `UpdateAlert` overwrites the whole
row, as `Update` does, and fails on the unique index.

| code | actions |
|---|---|
| `handleTrigger` | `TriggerLookup`, `TriggerCreate`, `TriggerAttach`, `TriggerEnter`, then `notifyStep` |
| `handleRecover`, `autoResolveAlerts` | `RecoverLookup`, `RecoverResolve`, `RecoverCleanup`, `RecoverAgain` |
| `handleAck` | `AckLookup`, `WriteAlert` |
| `processFiringAlerts` | `TickList`, `TickNext`, `TickSave`, `TickMoveAlert`, then `notifyStep` |
| `notifyStep` | `NotifyWindow`, `NotifyPage` |
| API `Ack`, `Resolve`; replies | `ApiAck`, `ApiResolve`, `ReplyRemediation`, `ReplyEscalated`, `ReplyAck`, `WriteAlert` |
| scheduler, events API, chat buttons | `CheckFails`, `CheckRecovers`, `PostTrigger`, `PressAck`, `PressResolve` |
| end of a request's context | `Lose`, `Abandon` |
| time, operators, the process | `WaitElapses`, `ToggleMute`, `ToggleWindow`, `Crash` |

Abstractions.  Times are one bit, `elapsed`: whether the step's wait is over.
Reads that lead to no write join the statement that follows; a step's targets
and the jobs built from them are one event, `paged` (a step without targets
counts as paged).  One policy serves all monitors that have one; it is
constant, its `max_loops` is set, and a restart counts toward it.  The
`inbox` is a bag of messages, since deliveries are unordered.  An alert's
severity and the event log are left out: no decision reads them back.

### Reply

A worker (`sender`) posts an outbound event and records it (`Record`); the
sink's answer is a reply of the behaviour's `menu` or none.  `Dispatch` checks
the registry, organisation, channel, type and trust in the code's order and
leaves an audit row when it refuses; `Allow` is the rate limiter.  That reads
the clock before it takes the lock (`rate_limiter.go:113`, `:116`), so a
caller's time is any between its checks and the present, and callers have the
lock in an order of their own: one that is `Overtaken` moves the bucket's
window back and clears both counters, as the `default` of the switch does.
The sweep reads the clock first as well.  Each handler is a definition of its
own, `<Type>` for the operation and `<Type>Allowed` or the like for its
conditions, and runs statement by statement with the audit row last.  A send
whose post failed is repeated with its reply.  What a reply carries beyond the
ids it names is one field, `valid`.  A `menu`, chosen at the start, bounds
what meets in one behaviour: jobs, replies, posts, time and upsets.

### CheckQueue, BatchWriter, Pipeline, CheckStatus

The scheduler is split by state, since the parts share only reads: the
channels and workers (`CheckQueue`), the status map and the rows
(`CheckStatus`), the map of runners (`Runners`).  `Pipeline` joins the end of
a check in the pool to `Enqueue`, and `wg.Wait` to the writer's `Stop`
(`MayStop`).  The channel and the batches of `BatchWriter` are sets, as the
inserts of a flush end in any order; its refinement maps `pending` to the
channel and all batches, and `open` to "Stop has not returned".  `CheckStatus`
takes an evaluation apart where another worker can interfere: the result and
its row, the read of `lastStatus`, the seed, the write, the heartbeat's row,
the event.  `told` records the last event that the engine was able to handle.
A check under way when the context is cancelled ends as it began.

### Runners, Monitors

`Runners` keeps a monitor as an enabled flag, a pace (interval and timeout,
which the resync compares) and the rest, and lets rows change at will.
`Monitors` puts the real requests in their place, each as read, check and
write back of a whole row, and counts, inserts, labels and groups as
statements of their own.  An update replaces the labels when its body has any
map, the empty one included, a new row only by a map with entries
(`Unlabelled`).  A refinement property says that seen from the
scheduler every request is an edit or nothing.

### Notify, Delivery

`Notify` follows one job from the bus to its end; the two steps of `Submit`
(test the flag, send) are separate, since `Stop` falls between them.
`Delivery` replaces one attempt by the steps of `Send`: filter, look into the
token cache, drop, look again, fetch, post.  The sink may receive an event
although the attempt fails.

### Ingest, Streams, SigningKeys

A batch in `Ingest` is loaded, verified (with `verifierCache` and
`verifierPool`, filled and replaced by whoever comes last), validated as a
whole and applied event by event: claim, then check.  Senders repeat what was
not answered with 200.  `Streams` has the part of `ensure` under the lock and
the subscription after it as separate steps, likewise the sweep and the
`Unsubscribe` by name; deliveries are in flight between the bus's snapshot and
the buffer.  In `SigningKeys` each replica runs `Rotate` on its own: save,
retire, list the overdue, expire one by one, prune.  Its clock is coarse: a
rotation and the minting of a token take less than one unit.

### Settings, Accounts, Maintenance, Hub

`Settings` treats steps and match rules alike: one DELETE, then one INSERT per
item; a step's targets go in with the step, so that a list cut between the two
is not told from one cut after them.  `Accounts` has each handler read a user's
row, check, and write later; email and password hash are one field, `cred`, on
which the links for reset, deletion and recovery depend.  The cleanup job is a
process of its own, with its list, the second look at each row, the deletion
and the count of those who remain.  `Maintenance` counts time in slots;
`IsActiveAt` is translated case by case and compared with a reference
definition of the occurrences.  A row is in UTC, but a handler judges its own
copy of the window, whose `StartAt` is in the offset the client wrote it in
(`api/handlers/maintenance.go:142`, `:239`) while the time it is compared with
is in UTC (`domain/maintenance.go:45`): `ActiveFrom` has that `offset` as a
parameter, and `IsActiveAt` is the case of a row.  Handlers read the clock in a
step of its own, `Create` and `Delete` before their statement and `Update`
after it; the ticker goes by the time at which it fired, which is before it
reads the rows.  `Hub` separates the read pump's close of the channel from the
deferred unregistration, and a broadcast visits one client per step.

## 3. The runs

Runs expected to pass:

| run | shows | instance, and why it is enough |
|---|---|---|
| `escalation` | `IInv`, `OneActivePerMonitor`, `EscalationBounded`, `MutedNeverPaged`, `NoStepSkipped` | 3 steps, the second with a retry: every branch of the tick but the loop; 2 handlers and the tick loop, 2 messages, a request of every kind, a toggle: two triggers, or a trigger and a recovery, overlap with a pass and with a writer outside the engine |
| `escalation_restart` | `RunsToExhaustion` | a policy of 2 steps with a retry and one loop; a crash at any point, a request, triggers of either kind |
| `pipeline` | `WithinCapacity`, `OvertakingBounded`, `CleanStop`, `ImplementsLog`, `ResultIsWritten`, `SchedulerStops` | two workers in either select when `Stop` begins, channels of one, 4 ticks, 3 results that fill the buffer and a batch of 2, a failed insert |
| `alert_sources` | `MemoryServes`, `CompletedOnce`, `AcceptedIsApplied`, `WithinOrg` (replies); `EventsFollowStatus`, `OncePerOutage` (one worker); `NoFalseAlarm` (two workers) | every kind of reply once and twice, and the pairs that meet in a row, over two workers, two organisations, a registry of two and one upset; three posts under a limit of one or two while the clock passes from one window to the next and outlives a bucket; a checked and a pinged monitor, 2 changes under 4 rows; overlapping checks with a shutdown or a crash |
| `delivery` | `EndsAreTrue`, `OnePerKey`, `StopDrains`, `ImplementsNotify`, `JobsSettle` | two jobs with one key, one job without a provider, two workers on one token cache, a queue of one, an expiry of the key and of the token |
| `cloudevents` | `TokensVerify` (signing); `SubscribedUnlessSwept`, `NothingLeaks` (reading); `RecordedOnce`, `JudgedAsConfigured` (ingest); `Types` (all) | two replicas that rotate at once, with a failure or crash; a poller and a streamer on one consumer and a client that needs one more, with a cap that refuses it; two senders with an event in common, three configurations, a crash |
| `monitors` | `TablesHold`, `LabelsOfOneRequest`, `ImplementsRunners`, `RunnersConverge` | two requests of every kind on three monitors, a plan of one monitor with none to two at the start, edits before, during and after a resync |
| `organisation` | `RecoveredIsKept`, `DisabledStays` (accounts); `SettingsKept` (settings); `SuppressedWhileActive`, `EventsFollowWindows` (windows); `Types` (all) | two members and the cleanup job; two clients that replace one list and edit one channel; daily, weekly, monthly and single windows, one of which crosses midnight, written in UTC or half a day ahead of it, over two visits, polls and a lost event or a restart |

What the less obvious ones say:

- `CleanStop`: the writer is open as long as a check may end, and when `Stop`
  returns nothing is left in a channel, the buffer or a batch.
- `MemoryServes`: the registry knows every recent event up to its size, and
  the two counters of the rate limiter keep any window of time below twice the
  limit, between callers that were overtaken (see below).
- `AcceptedIsApplied`: what the audit calls accepted has been done, crash or
  not.  `WithinOrg`: no reply gives an alert an owner, a primary or a
  remediation of another organisation.
- `EndsAreTrue`: a job that counts as sent was received, and one that is dead
  has used up its attempts or met the shutdown.
- `SubscribedUnlessSwept`: a cached consumer is the only subscriber of its
  name, except one made between the eviction of its predecessor and the
  `Unsubscribe` that follows.
- `RecordedOnce`: within the TTL an event leaves one check at most, and one
  answered with 200 has it unless its claim outlived a request that failed.
- `JudgedAsConfigured`: whatever is cached, a token is judged by a verifier of
  the configuration that the request has read.
- `TablesHold`: the plan's limit is exceeded by requests that counted at the
  same time and by imports only, and a row holds what was last written on
  purpose unless an outdated copy has overwritten it.
- `RecoveredIsKept`: the cleanup removes no working account but one that
  recovered after the job's second look.
- `EventsFollowWindows`: once the ticker has seen how things are, the last
  event of a window is true of its row; the exceptions are in its definition.

The exceptions that a property names (the history variables `overtaken`,
`setbacks`, `orphan`, `stale`, `torn`, `late`, `unsure` and the like) are
behaviours of the code: each is reachable, and without it the property is
violated.

Runs expected to fail.  Each checks one sentence of the repository against
what the code does; `findings` in `PROJECT.json` quotes it.

| run | sentence | what TLC shows |
|---|---|---|
| `escalation_reopen` | "**Auto-resolve** to automatically close alerts when monitors recover" | the tick loop writes the listed row back and the alert fires again |
| `live_updates` | slow clients "have their message dropped (non-blocking send)" | the read pump closes the client's channel before it unregisters; the next send panics |
| `fan_out` | the router publishes a job "per channel" | all jobs of an event have one key, and the dispatcher keeps the first |
| `account_cleanup` | "hard-deletes user accounts that have been disabled for longer than 96 hours" | the last active member's deletion removes the organisation with accounts still in their grace period |

What holds has limits, which the models make plain and no run checks.

Alerts and checks:

- `NoStepSkipped` is about alerts that checks raise, between crashes.  A
  trigger on the events API is handled under the context of its request, which
  ends with the answer "Event processed successfully."
  (`api/handlers/events.go:154`, `:161`): the alert can be left firing without
  an escalation, as it can by a crash at `engine.go:201`; the next trigger
  finds it active and does nothing.
- A closed alert need not stay closed: besides the tick loop, the API's `Ack`
  and the reply "ack with context" make a resolved alert active again, and the
  resolve button of a chat message resolves whatever alert of the monitor is
  active by then.
- A retry of a step has the deduplication key of the first notification
  (`engine.go:562`), so within the TTL it is discarded, although the policy
  editor calls `repeat_count` "How many times to re-notify at this step".
- The engine never reads `is_terminal`, which the policy editor labels "Stop
  escalation at this step" (`web/src/pages/settings/index.jsx:678`), nor
  `repeat_interval_seconds`.
- Replacing the steps of a policy leaves the escalation states of alerts that
  fire pointing to steps that are gone; the tick loop skips them from then on
  (`engine.go:382-392`).
- `EventsFollowStatus` needs one worker per monitor and an empty database.
  Otherwise the seed of the first check may be its own row
  (`scheduler.go:541` and `:551`), overlapping checks read the previous status
  before either writes it (`:546`, `:557`), so that an outage is missed or
  reported twice, and a ping stored before the first evaluation after a
  restart hides a recovery (`:723`).  The first check of a new monitor reports
  nothing, even if it is down; a crash between the row of a transition and its
  event (`:815`) leaves the transition unreported.
- `main` cancels the scheduler's context before `Stop` drains the pool: checks
  in the queue fail and store down rows.  No alarm comes of it
  (`NoFalseAlarm`), since the engine's queries fail as well.
- A delivery that has chosen its channel (`scheduler.go:382`) may send after
  `Stop` has closed it; `SchedulerStops` leaves room for that panic.
- `OvertakingBounded` is what the two selects of `checkWorker` give in place of
  "always dequeued before regular checks" (`scheduler.go:142`).
- The resync compares interval and timeout only (`scheduler.go:259`): a new
  target, threshold or heartbeat configuration waits for a restart.

CloudEvents:

- `fetchOIDCToken` makes a client per `Send` (`cloudevent_http.go:816`), so
  the singleflight group never has a second caller, and dropping an expiring
  token can drop the one another worker has just put there.  Permanent sink
  errors are retried like the others.
- Ingest claims an event before it stores it (`cloudevents.go:420`, `:460`):
  after a failure in between, the retry that the comment at `:336` counts on
  is taken for a duplicate.  The verifier's own time to live does not reach
  `verifierCache`, whose entry of an organisation never expires.
- A stream reads a consumer without touching it: after the idle time the
  sweeper takes it away and the stream is silent from then on.
- A rotation that overlaps with another replica's, or is cut short, leaves an
  active key that no later rotation retires.  The rotation is not wired in
  this build (`auth/jwks/doc.go`).
- A reply is applied before its audit row is written: after a crash in between
  the sink's retry applies it again, which only the remediations' results
  exclude.  A rate-limiter bucket that is evicted starts afresh.
- "A burst that straddles the boundary cannot exceed the advertised limit by up
  to 2x" (`rate_limiter.go:105`) does not survive two callers at the edge of a
  window.  One reads the clock, another reads it in the next window and has the
  lock first; the former then finds a bucket of a later window, falls to
  `default` (`:132`), and both counters are lost.  With a limit of one, two
  replies are admitted within moments of each other, and each further caller
  that is overtaken makes room for more.  `MemoryServes` counts such a setback
  as a new turn of the bucket and is the code's promise within each turn.

The organisation:

- A monitor with alerts cannot be deleted (the foreign key; the endpoint
  answers 404), imports ignore the plan's limit and the minimum interval, and
  deleting a policy leaves monitors that name it.
- A handler announces a recurring window by the client's time of day.  A daily
  window of 10:00 to 11:00 at +05:00 that is created at 10:30 UTC is told
  "started"; its row says 05:00 to 06:00 UTC and is inactive, the ticker has no
  entry for it and says nothing, although `ticker.go:9` calls itself the
  "belt-and-braces back-stop that catches everything else".  Nothing repairs
  it until the next occurrence has ended.  `EventsFollowWindows` excepts a
  window from the moment a handler is `Misled` and the ticker does not notice.
- A window that recurs is cut at midnight; a window for the whole organisation
  suppresses no page; the ticker cannot see what started and ended between two
  polls, and no code of this build starts it.
- An organisation can end up without an owner by overlapping transfers, links
  are not marked as used, and the deletion of an organisation fails while a
  status page refers to it.

Bounds, all in guards: `MaxPublished`, `MaxRequests`, `MaxToggles`,
`MaxCrashes`, `MaxRows`, `MaxChanges`, `MaxRestarts`, `MaxTicks`,
`MaxFailures`, `MaxEdits`, `MaxExpiries`, `MaxUpsets`, `MaxTime`, `MaxKeys`,
`MaxConsumers`, `MaxEvents`, `MaxVisits`, `MaxSlot`, and a menu's `sends`,
`time` and `upsets`.  Each limits
the outside world, never a step that the code takes on its own.  The hazards
need two actors that overlap around a third, so two handlers, workers, clients
or replicas, with one event more than there are handlers, reach them; the
violations above have traces of a few steps inside the same bounds.

Symmetry is used where no liveness is checked: alert ids and handlers, the
workers of a pool, requests on accounts.

Deadlock is checked in the escalation runs.  The others stop when their
bounds are used up or `Stop` has returned, so it is switched off there.

Fairness.  Weak fairness of a goroutine's steps stands for the Go scheduler,
for tickers that fire and for calls that have a timeout.  `Escalation` also
assumes that time passes (`WaitElapses`), as does `Streams` for an idle
consumer.  A blocked send needs strong fairness in `Notify` and `Delivery`: Go
queues blocked senders, so one that finds room again and again goes ahead.
Nothing is assumed of checks, requests, crashes, toggles, senders, sinks or of
anybody who calls `Stop`; once begun, `Stop` goes on.

## 4. What is proved

Each theorem holds for every value of the constants that satisfies the named
assumptions of its module, hence for any number of monitors, alerts, workers,
replicas and keys, and for any bounds.

| module | theorem | statement |
|---|---|---|
| `EscalationProofs` | `InvariantHolds` | `Spec => []IInv` |
| | `TypeCorrect` | `Spec => []TypeOK` |
| | `OneActive` | `Spec => []OneActivePerMonitor` |
| | `Bounded` | `Spec => []EscalationBounded` |
| | `MuteHolds` | `Spec => []MutedNeverPaged` |
| | `NoneSkipped` | `FromChecks => (Spec => []NoStepSkipped)` |
| `PipelineProofs` | `WriterInvariant` | `Spec => []WInv` |
| | `Refinement` | `Spec => ImplementsLog` |
| | `CapacityHolds` | `Spec => [](TypeOK /\ BacklogBounded)` |
| | `PipelineWrites`, `PipelineImplementsLog` | `PSpec => Spec`, `PSpec => ImplementsLog` |
| | `PoolInvariant` | `PSpec => []PoolInv` |
| | `OvertakingIsBounded`, `CapacityIsKept`, `StopIsClean` | `PSpec => []OvertakingBounded`, `[]WithinCapacity`, `[]CleanStop` |
| `DeliveryProofs` | `PoolInvariant` | `Spec => []NInv` |
| | `OneJobPerKey`, `DeadIsExhausted`, `NothingLeftBehind` | `Spec => []OnePerKey`, `[]DeadMeansExhausted`, `[]StopDrains` |
| | `DeliveryInvariant` | `DeliverySpec => []DInv` |
| | `DeliveryImplementsNotify` | `DeliverySpec => ImplementsNotify` |
| | `DeliveriesEndAsTheySay` | `DeliverySpec => []EndsAreTrue` |
| `AlertSourcesProofs` | `ReplyInvariant` | `Spec => []ReplyInv` |
| | `MemoryAlwaysServes` | `Spec => []MemoryServes` |
| | `RemediationsCompleteOnce`, `AcceptedStaysApplied`, `RowsStayWithinOrg` | `Spec => []CompletedOnce`, `[]AcceptedIsApplied`, `[]WithinOrg` |
| | `RepliesKeepTheirWord` | the same four of `SourcesSpec` |
| | `EventsFollow`, `OneRowPerOutage` | `SourcesSpec => []EventsFollowStatus`, `[]OncePerOutage` |
| | `AlarmsAreTrue` | `SourcesSpec => NoFalseAlarm` |
| `CheckStatusProofs` | `StatusInvariant`, `AlarmsAreTrue` | `StatusAssumption => (Spec => []GInv)`, likewise `NoFalseAlarm` |
| | `EventsFollow`, `OneRowPerOutage` | likewise, from an empty table, `Spec /\ []Undisturbed => []EventsFollowStatus`, `[]OncePerOutage` |
| | `OneWorkerIsUndisturbed` | a single worker without restarts and stops is `Undisturbed` |
| `MonitorsProofs` | `MonitorsInvariant` | `MSpec => []MInv` |
| | `TablesAlwaysHold`, `LabelsAreOfOneRequest` | `MSpec => []TablesHold`, `[]LabelsOfOneRequest` |
| | `RequestsAreEdits` | `MSpec => Init /\ [][Next]_vars` |
| `CloudEventsProofs` | `KeysHold` | `Spec => []KInv` |
| | `PublishedWhileValid`, `AlwaysASigner`, `StraysAreBounded` | `Spec => []TokensVerify`, `[]SignerRemains`, `[]StrayKeysBounded` |
| | `CacheInvariant` | `Reading!Spec => []SInv` |
| | `IngestInvariant` | `Posting!Spec => []IngInv` |
| | `WellFormed`, `CachedIsSubscribed` | `InterfaceSpec => []Types`, `[]SubscribedUnlessSwept` |
| | `OnceAndForAll`, `JudgedByItsOwn` | `InterfaceSpec => []RecordedOnce`, `[]JudgedAsConfigured` |
| `OrganisationProofs` | `AccountsInvariant` | `Spec => []AInv` |
| | `RecoveredAccountsStay`, `DisabledAccountsStay` | `Spec => []RecoveredIsKept`, `[]DisabledStays` |
| | `SettingsInvariant`, `WindowsInvariant` | `Setting!Spec => []LInv`, `Maintaining!Spec => []WInv` |
| | `OrganisationTypes`, `SettingsAreKept` | `OrganisationSpec => []Types`, `[]SettingsKept` |
| | `SuppressionFollowsWindows`, `LastEventsFollowWindows` | `OrganisationSpec => []SuppressedWhileActive`, `[]EventsFollowWindows` |

**Escalation** (`AlertsAssumption`, `PolicyAssumption`,
`EscalationAssumption`).  None of the last three is inductive: an upsert writes
a copy made many steps earlier, and a page goes to whatever alert the goroutine
holds.  `IInv` adds what a copy guarantees at each program counter
(`ActorSound`): a goroutine that escalates holds an existing alert that was not
born muted, and its state is within the policy; and what the tables and the
rows listed by a pass guarantee (`RowsSound`): a state, a page or a listed row
presupposes its alert's row.  The proof has a lemma per action, grouped by
handler, on top of lemmas about the statements of `AlertStore` (an update
respects the index and keeps every row that exists, an upsert of a sound state
keeps the bounds).  The run `escalation` checks the same `IInv` on a small
instance.

**Steps of a policy** (`FromChecks`: no integration posts triggers, nothing
crashes; section 3 tells what happens otherwise).  `LadderInv`
says that a stored step, and the step below it, has been notified or silenced,
or is about to be: by the handler that attached the alert, whose context
nobody cancels, or by the tick loop, which has saved the step and is still to
notify it (`Entering`).  The step below the one the tick loop is at must be
covered as well (`TickerReached`): it moves on from a row it listed, which may
have changed since.

**Batch writer** (`WriterAssumption`).  `Enqueue` maps to `Accept` or `Drop`,
an insert to `Store` or `Refuse`, the return of `Stop` to `Finish`, and every
other step stutters: a result that moves from the channel to a batch stays
pending.  The refinement needs `WInv`: that a result is in one place only
(`OnePlace`), or an insert would leave a second copy pending, and that a loop
returns only when the channel is closed and empty and its own batch is written
(`Drained`), or `Finish` would not be enabled.  The capacities need `Sizes`: a
batch still being collected has room.

**Pipeline** (`WriterAssumption`, `PipelineAssumption`).  Whatever the pool
does is, seen from the writer, a step of its environment (`PipelineWrites`), so
the writer's theorems carry over.  `PoolInv` is about the pool: a worker has
left only channels that were closed and empty, which they stay (`Deserted`);
the writer is closed when the pool has stopped (`StoppedLast`); and the regular
checks that have overtaken and the workers that may still overtake, those in
the blocking select, are together no more than the workers (`Tally`), since a
worker enters that select only when no priority check is waiting, at which
point nothing has been overtaken.

**Notification pool** (`NotifyAssumption`; a pool has a worker, as every
provider's `MaxConcurrency` is at least five).  `NInv` follows a job through the
pool: the channel holds each queued job once, each job being sent has one
worker, the attempts this worker counts are the job's failures, and a worker
that has left leaves a closed, empty channel.

**Delivery** (the same assumption).  `DInv` adds to `NInv` that a worker is
inside `Send` only while its job awaits the result of an attempt (`SendSound`),
and that what counts as sent was received (`SentIsReceived`).  With
`SendSound`, the last step of `Send` is Notify's `Attempt` with the same result
and every step before it a stutter (`StepMaps`), so `DeliverySpec` implements
`Notify` and the theorems about one pool hold of it.

**Replies** (`AlertsAssumption`, `PolicyAssumption`, `ReplyAssumption`: the
registry has a capacity and a time to live, as `main` gives it; the ids in
stored events are of their organisation; what an earlier process wrote was
within one).  `ReplyInv` has two halves.

Of the rows (`RInv`): a worker that is past the checks holds what they
established (`Granted`), all of it about ids and organisations, which never
change, rather than about rows, which may have changed since; a worker that is
past its writes has made them (`Done`), and the audit's rows likewise
(`Audited`).  Rows only grow or are filled in, and an alert takes its events
with it (`Grow`), so what was done stays done, whatever another worker, the
engine or a deletion does next.  `CompletedOnce` follows as the update that
completes a remediation finds it in progress, and `AcceptedIsApplied` survives
a restart as the audit row is written last.

Of the memory (`Memory`): each entry of the registry is the last record of its
event, the latest in front, and an event that is missing has expired or has
more than `MaxEntries` others behind it (`Serves`).  That an eviction from the
back respects this needs the order: the entries in front of the one that is
dropped are as many events recorded since.  A setback begins a new turn of its
bucket.  Each bucket counts at least the replies of its turn in its window, and
its `prev` is positive if the turn had any in the window before (`Counts`),
although callers have the lock in another order than they read the clock, and
buckets are rolled only when used and swept when old (`Forgotten`): a caller
whose time is older than the bucket's window starts a turn that has no replies
yet, and any other rolls the window forward.  Hence in each turn a window has
at most its limit, and less after a window with any (`Limited`), and an
interval that straddles two has less than twice the limit.

`AlertSources` changes none of this: a step of its specification is one of
`Reply`, or leaves replies alone.

**Checks** (`StatusAssumption`).  That an alarm is true needs little of the
state (`GInv`): a check that contradicts its target was made while the process
was stopping (`Honest`), and the engine hears nothing of such a process.  It
holds with any overlap, shutdown and crash.  The other two properties do not
(section 3), and are proved of behaviours that are `Undisturbed`: no two
workers are at work on one monitor, and the process, which found an empty
table, has not been stopped.  One worker of a process that stays up gives
that (`OneWorkerIsUndisturbed`), but it is not the only way: it suffices that
a check ends before the next of the same monitor begins.  `FollowAt` says for
each monitor what its worker still has to report at each program counter: the
previous status it carries is the remembered one until it writes, and the one
the engine knows after that.  Before the first status there is nothing in the
table but the row of the check under way, or pings (`NoneYet`), so that a seed
finds no more.  `OutageAt` adds the order of rows: as long as a monitor counts
as up, each of its down rows is answered by a later up row (`Answered`), and a
worker that has found it down with "up" remembered carries a time before any
row that could intervene (`Seen`), so that the down row it adds is the only one
since the last ping.  Both invariants speak of one monitor at a time, and a
worker at another disturbs neither.  The proofs are in `CheckStatusProofs`;
`AlertSourcesProofs` takes an instance of that module for each setting.

**Monitors** (`RunnersAssumption`, `MonitorsAssumption`).  Two requests may
count before either inserts, so the plan's limit is exceeded; `Budget` says by
how much: a request that has counted and is still to insert keeps its place,
and each import adds what it inserts.  `OneWriter` says that, unless two
requests have replaced the labels of a monitor at once, one fills them and
those there are its own.  `RequestsAreEdits` is the safety part of
`ImplementsRunners`: each statement of a request is an `Edit` of one row or
leaves the scheduler's view alone.  The fairness in that property is left to
the run.

**Signing keys** (`SigningKeysAssumption`: the overlap is no shorter than a
token's life).  A token is covered by the time its key was retired
(`TokensCovered`), a held signer by the coarse clock (`SignersCovered`), and a
key listed as overdue has neither (`OverdueIsIdle`), although it expires many
steps after it was listed.  For `SignerRemains`, a key is only retired by a
replica that has just saved a younger one, which is active (`RetiredForActive`)
and new to everybody (`PendingIsNew`).  `StrayKeysBounded` counts active keys.
Those that a replica is about to retire are accounted for (`Replacing`); of the
others (`Stray`) there is one, and one more for each rotation that was cut
short or overlapped with another (`StrayInv`): a rotation that adds a key turns
the one it read into a replaced one, so the number grows only if there was a
further active key by then, or when the rotation ends before it has retired
the old one.

**Ingest** (`IngestAssumption`).  Each check of an event, stored or still to be
stored by the request that claimed it, is paid for by the claim or by an expiry
(`Paid`), and every claimed event is stored, held by a request, or an orphan
(`Settled`); a request has settled all events before the one it is at
(`Placed`), so an answer covers its batch.  For the caches, the pool keeps a
verifier under its own key and the entry fits its configuration (`VInv`),
through every replacement.

**Streams** (`StreamsAssumption`).  A request about to subscribe holds the
consumer that is cached under its name, not yet swept and nobody else's
(`Fresh`); a name without a consumer has at most the subscription that the
sweeper is about to remove, and a consumer made in the meantime is `overtaken`
(`Vacated`).

`CloudEvents` lets the three interleave, so that a behaviour of it is one of
each (`PartsRun`), and their theorems hold of the whole.

**Accounts** (`AccountsAssumption`).  For `RecoveredIsKept`, what the cleaner
has seen must outlive its step: the account it is about to delete is not active
unless it was recovered since, and when it is about to remove an organisation
without members, those there are have come since (`Kept`).  No action of anybody
else makes an account active but a recovery and an invitation, both of which
leave a trace in `late`.  `DisabledStays` needs that a row which a request
carries is written without its `disabled_at`, that an invitation carries an
enabled one (`CarriesRow`) and that an id which is still to be given has not
left (`Left`).

**Settings** (`SettingsAssumption`: there is an owner of a list, the built-in
states and the policies are no custom states and monitors, and no secret looks
like none).  `Whole` says of a list that two requests have not replaced at
once: while a request fills it, that is the request which cleared it, and the
items are those it has inserted so far; afterwards they are a beginning of its
list, all of it unless the request stopped short.  The request of an owner that
is gone may be at any place, as its inserts fail.  `SecretsKept` needs that a
channel keeps some secret as long as none is removed, or a mask written back
would be stored (`Secret`).

**Windows** (`MaintenanceAssumption`: days, weeks and months have a positive
length, and validated requests bring windows with start and end, in an offset
from UTC that may be any; one behind UTC is, modulo a day, one ahead of it).  That a window is active in its occurrences is
arithmetic of days (`OnlyOccurrence`): the occurrence that starts on the day of
the time asked for is the only one looked at, and it begins no earlier than the
window does.  Suppression follows, since whatever `IsActiveAt` accepts the
query selects.  For `EventsFollowWindows` the two writers of events are
compared.  `Followed` says: where the subscribers' view and the ticker's map
differ, a request has told the subscribers what the row says; while that
request still has its event to publish, they know what the row before its
statement said.  A handler judges its own copy of the window in the client's
offset, so its event need not agree with the row it has written: if it does
(`NotMisled`), the subscribers are right, and if it does not, either the ticker
sees a change and speaks, or the event is `Unnoticed` and the window an
exception from then on.  `InTime` says that a request on a window is alone,
goes by the time there is, and has read, or written, the row there is;
`Polled`, that the ticker's map is what its last poll saw.  The windows of
which this fails are those the property excepts.

`Organisation` lets the three interleave, like `CloudEvents`, and `PartsRun`
carries their theorems over.

Every invariant that a passing run checks is stated by a theorem.  Only
model-checked are the liveness properties (`RunsToExhaustion`,
`ResultIsWritten`, `SchedulerStops`, `JobsSettle`, `NothingLeaks`,
`RunnersConverge`) and the fairness in `ImplementsRunners`, which are beyond
this prover, and what the runs that expect a violation show.

## 5. The plan

Done, in this order:

1. `AlertStore`, `Escalation`: the core, its races and its proofs.
2. `CheckStatus`, `CheckQueue`, `Runners`: the scheduler.
3. `BatchWriter` against `CheckLog`, the first refinement, and `Pipeline`.
4. `Notify`, and `Delivery` in place of its attempts.
5. `Reply`: registry, rate limiter and handlers against the audit.
6. `Ingest`, `Streams`, `SigningKeys`: the other CloudEvents paths.
7. `Monitors`, `Settings`, `Accounts`, `Maintenance`, `Hub`: the requests that
   edit what the others read.

To come: `ReplaceSteps` and the deletion of a policy under the tick loop, with
the states that point to steps which are gone; a composition of `Escalation`
and `Notify`, where a page is a job that may be discarded or dead-lettered; an
abstract life cycle of an alert that `Escalation` implements.

## 6. Not modelled

Network I/O (probes, providers, mail) is a nondeterministic result.  The rest
of the REST API, MFA and single sign-on, API keys, configuration, telemetry,
seed data, encryption and the web interface keep no state that the components
above depend on.  On-call schedules and the rules that turn a response into a
status are calculations, whose results the models take as given.  The rollup
and the retention job each run in one goroutine on rows that no other part
changes.  CloudEvents of the scheduler, the engine and the maintenance ticker
are left out: `main` attaches no emitter to the first two and starts no
ticker.  The outbox and deduplication tables are stubs in this build
(`internal/store/sqlite/outbox.go`, `dedup.go`), so the dispatcher's in-memory
path is the one modelled.  Wire formats, signatures and the validation of each
provider's configuration are abstracted to whether they hold.
