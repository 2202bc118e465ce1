\* One event for two channels, of which one leaves it out, and another event.
SPECIFICATION DeliverySpec
CONSTANTS
  j1 = j1
  j2 = j2
  j3 = j3
  k1 = k1
  k2 = k2
  ch1 = ch1
  ch2 = ch2
  Jobs = {j1, j2, j3}
  Keys = {k1, k2}
  Key <- TwoKeys
  Routable = {j1, j2, j3}
  Workers = {w1, w2}
  QueueSize = 1
  MaxAttempts = 2
  NoJob = NoJob
  MaxExpiries = 1
  Channels = {ch1, ch2}
  Target <- TwoTargets
  Filtered = {j1}
  Secured = {j1, j2}
INVARIANT DuplicateMeansSameChannel
CHECK_DEADLOCK FALSE
