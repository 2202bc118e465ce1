\* An outage that ends while the tick loop is at work on its alert.
SPECIFICATION Spec
CONSTANTS
  Monitors = {m1}
  Alerts = {a1, a2}
  Handlers = {h1}
  Ticker = Ticker
  NoAlert = NoAlert
  PolicyMonitors = {m1}
  AutoResolveMonitors = {m1}
  IntegrationMonitors = {}
  NumSteps = 2
  RepeatCount <- OneRetry
  Loop = TRUE
  MaxLoops = 1
  MaxPublished = 2
  MaxRequests = 0
  MaxToggles = 0
  MaxCrashes = 0
PROPERTIES
  RecoveredStaysClosed
