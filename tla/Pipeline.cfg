\* Two workers, a fast and a slow monitor, channels that fill up, a buffer of
\* one and batches of two, and Stop at any moment.
SPECIFICATION PFairSpec
CONSTANTS
  Monitors = {fast, slow}
  Fast = {fast}
  Workers = {w1, w2}
  PrioritySize = 1
  RegularSize = 1
  MaxTicks = 4
  Results = {1, 2, 3}
  Loops = {l1}
  ChannelSize = 1
  BatchSize = 2
  MaxFailures = 1
INVARIANTS
  WithinCapacity
  OvertakingBounded
  CleanStop
PROPERTIES
  ImplementsLog
  ResultIsWritten
  SchedulerStops
CHECK_DEADLOCK FALSE
