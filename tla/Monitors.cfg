\* Two requests of two clients beside the resync, on a plan of one monitor.
SPECIFICATION MSpec
CONSTANTS
  m1 = m1
  m2 = m2
  m3 = m3
  g = g
  k1 = k1
  k2 = k2
  Monitors = {m1, m2, m3}
  Initial <- NoneToTwo
  InitialBody <- ABody
  Paces = {1, 2}
  Configs = {"http"}
  NoRunner = NoRunner
  MaxEdits = 6
  Clients = {1, 2}
  Groups = {g}
  NoGroup = NoGroup
  LabelKeys = {k1, k2}
  Keep = Keep
  Bodies <- SomeBodies
  Alerted = {m2}
  FreeMaxMonitors = 1
  MaxRequests = 2
  MaxRows = 2
INVARIANTS
  TablesHold
  LabelsOfOneRequest
PROPERTIES
  ImplementsRunners
  RunnersConverge
CHECK_DEADLOCK FALSE
