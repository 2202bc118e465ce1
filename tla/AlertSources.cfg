\* Replies: two workers, two posts, every kind of reply; one upset at any time.
\* Checks: one worker, an empty table, a checked and a pinged monitor; or two
\* workers, overlapping checks, one shutdown or crash and the next start.
SPECIFICATION SourcesSpec
CONSTANTS
  o1 = o1
  o2 = o2
  a1 = a1
  a2 = a2
  ab = ab
  m1 = m1
  m2 = m2
  mb = mb
  e1 = e1
  e2 = e2
  eb = eb
  u1 = u1
  ub = ub
  c1 = c1
  cb = cb
  x1 = x1
  x2 = x2
  Monitors = {m1, m2, mb}
  Alerts = {a1, a2, ab}
  NumSteps = 2
  RepeatCount <- OneRepeat
  MaxLoops = 0
  s1 = s1
  s2 = s2
  Senders = {s1, s2}
  Events = {e1, e2, eb}
  Orgs = {o1, o2}
  EventAlert <- AlertOfEvent
  MonitorIn <- MonitorOfEvent
  OrgOf <- Organisations
  Enabled = {c1, cb}
  Replies <- KnownReplies
  Remediations = {x1, x2}
  Earlier <- StartedEarlier
  Channels <- TheChannels
  MonitorOf <- MonitorOfAlert
  Menus <- TheMenus
  Upsets = {a1, m1}
  Window = 2
  TTL = 1
  MaxEntries = 2
  NoId = NoId
  NoBucket = NoBucket
  Probed = {m1, m2}
  Heartbeats = {m2}
  OneWorker = w0
  MaxProbes = 4
  MaxChanges = 2
  Shared = {m1}
  Pinged = {}
  Workers = {w1, w2}
  OldStatus <- UpBefore
  MaxRows = 3
  MaxFlips = 1
  MaxRestarts = 1
  w0 = w0
  w1 = w1
  w2 = w2
  NoStatus = NoStatus
INVARIANTS
  EventsFollowStatus
  OncePerOutage
  MemoryServes
  CompletedOnce
  AcceptedIsApplied
  WithinOrg
PROPERTIES
  NoFalseAlarm
SYMMETRY Symmetry
CHECK_DEADLOCK FALSE
