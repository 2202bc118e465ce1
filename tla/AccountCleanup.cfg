\* Two members of an organisation leave, the second a unit after the first.
SPECIFICATION Spec
CONSTANTS
  Users = {u1, u2}
  Clients = {c1}
  MaxMembers = 2
  Grace = 1
  MaxTime = 4
  MaxRequests = 4
PROPERTIES
  GracePeriodKept
CHECK_DEADLOCK FALSE
