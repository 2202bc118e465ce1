\* Accounts: two accounts, two requests at a time, three in all, and a grace
\* period of one unit.  Settings: four requests of two clients.  Windows: two
\* requests in four slots, and a lost event or a restart.
SPECIFICATION MCSpec
CONSTANTS
  Users = {u1, u2}
  Clients = {c1, c2}
  MaxMembers = 2
  Grace = 1
  MaxTime = 3
  MaxRequests = 3
  Policies = {policy}
  RuledMonitors = {monitor}
  StepLists <- TheStepLists
  RuleLists <- TheRuleLists
  Builtins = {down}
  Customs = {odd}
  policy = policy
  monitor = monitor
  odd = odd
  down = down
  NoState = NoState
  Secrets = {t1, t2}
  NoSecret = NoSecret
  Mask = Mask
  MaxChanges = 4
  Windows = {1}
  Monitors = {monitor}
  EveryMonitor = EveryMonitor
  Initial <- Old
  Bodies <- TheBodies
  DayLen = 2
  WeekLen = 2
  MonthLen = 2
  NoWindow = NoWindow
  Never = Never
  MaxSlot = 3
  MaxVisits = 2
  MaxUpsets = 1
SYMMETRY Symmetry
INVARIANTS
  Types
  RecoveredIsKept
  DisabledStays
  SettingsKept
  SuppressedWhileActive
  EventsFollowWindows
CHECK_DEADLOCK FALSE
