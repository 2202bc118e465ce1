\* A crash at any point of one alert's escalation; fair scheduling.
SPECIFICATION FairSpec
CONSTANTS
  Monitors = {m1}
  Alerts = {a1, a2}
  Handlers = {h1}
  Ticker = Ticker
  NoAlert = NoAlert
  PolicyMonitors = {m1}
  AutoResolveMonitors = {}
  IntegrationMonitors = {m1}
  NumSteps = 2
  RepeatCount <- OneRetry
  Loop = TRUE
  MaxLoops = 1
  MaxPublished = 2
  MaxRequests = 1
  MaxToggles = 0
  MaxCrashes = 1
PROPERTIES
  RunsToExhaustion
