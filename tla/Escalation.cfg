\* Two handlers, the tick loop and a policy of three steps: two messages, a
\* request and a change of the mute flag or of a maintenance window.
SPECIFICATION Spec
CONSTANTS
  Monitors = {m1}
  Alerts = {a1, a2}
  Handlers = {h1, h2}
  Ticker = Ticker
  NoAlert = NoAlert
  PolicyMonitors = {m1}
  AutoResolveMonitors = {m1}
  IntegrationMonitors = {}
  NumSteps = 3
  RepeatCount <- ThreeSteps
  Loop = FALSE
  MaxLoops = 0
  MaxPublished = 2
  MaxRequests = 1
  MaxToggles = 1
  MaxCrashes = 0
SYMMETRY Symmetry
INVARIANTS
  IInv
  OneActivePerMonitor
  EscalationBounded
  MutedNeverPaged
  NoStepSkipped
