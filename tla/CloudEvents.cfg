\* Signing keys: two replicas; one unit of rotation, two of overlap, and tokens
\* that live as long as the overlap allows.  Reading: a cap and a gate of one,
\* so that clients are refused, wait for each other's consumers and recreate
\* those that are swept.  Ingest: two changes of the configuration, a failure
\* or a crash, and a claim that expires.
SPECIFICATION MCSpec
CONSTANTS
  Replicas = {r1, r2}
  Callers = {c1}
  ActiveKeyMaxAge = 1
  RetiringOverlap = 2
  ExpiredKeyPruneAge = 2
  TokenTTL = 2
  NoTime = NoTime
  MaxTime = 6
  MaxKeys = 3
  MaxUpsets = 1
  Orgs = {o1}
  Events = {e1, e2}
  Filters = {all, some}
  Clients = {poller, streamer, other}
  OrgOf <- OneOrg
  Ask <- Asked
  Senders = {s1, s2}
  Batch <- Batches
  BadData = {e2}
  Malformed = {}
  Configs = {a1, a2, b1}
  PoolKey <- Keys
  Accepted <- Tokens
  o1 = o1
  e1 = e1
  e2 = e2
  all = all
  some = some
  poller = poller
  streamer = streamer
  other = other
  BufferSize = 1
  PollMax = 2
  MaxOrg = 1
  MaxStreams = 1
  MaxConsumers = 2
  MaxRequests = 2
  s1 = s1
  s2 = s2
  a1 = a1
  a2 = a2
  b1 = b1
  None = None
  MaxBatchLen = 2
  MaxEdits = 2
  MaxExpiries = 1
INVARIANTS
  Types
  SubscribedUnlessSwept
  RecordedOnce
  JudgedAsConfigured
  TokensVerify
PROPERTIES
  NothingLeaks
CHECK_DEADLOCK FALSE
