\* Two jobs with one key, which may expire once, and one without a provider; two
\* fair workers that share a token cache, a queue of one, shutdown at any time.
SPECIFICATION DeliverySpec
CONSTANTS
  j1 = j1
  j2 = j2
  j3 = j3
  k1 = k1
  k2 = k2
  ch1 = ch1
  ch2 = ch2
  Jobs = {j1, j2, j3}
  Keys = {k1, k2}
  Key <- TwoKeys
  Routable = {j1, j2}
  Workers = {w1, w2}
  QueueSize = 1
  MaxAttempts = 2
  NoJob = NoJob
  MaxExpiries = 1
  Channels = {ch1, ch2}
  Target <- OneTarget
  Filtered = {}
  Secured = {j1, j2}
INVARIANTS
  EndsAreTrue
  OnePerKey
  StopDrains
PROPERTIES
  ImplementsNotify
  JobsSettle
CHECK_DEADLOCK FALSE
