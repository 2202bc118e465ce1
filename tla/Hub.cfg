\* One client is enough: it disconnects while an event is sent to it.
SPECIFICATION Spec
CONSTANTS
  Orgs = {o1}
  Clients = {c1, c2}
  OrgOf <- SameOrg
  BufferSize = 1
  MaxEvents = 2
INVARIANTS
  BroadcastIsHarmless
CHECK_DEADLOCK FALSE
