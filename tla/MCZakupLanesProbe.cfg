\* Two lanes without proxies, with the thresholds of the code.
CONSTANTS
  Requests = {r1, r2}
  LaneCount = 2
  PoolUrls <- ThreeProxies
  LaneThreshold = 2
  SourceThreshold = 5
  MaxAttempts = 3
  Budgets <- ProbeBudgets
  Endpoints = {"lots/filter"}
  Lists = {"lots/filter"}
  Unpaged = {}
  LaneLimit = 2
  SourceLimit = 3
  StackBudget <- NoStackEvents
SPECIFICATION MCSpec
INVARIANTS
  SourceProbeIsRunning
CHECK_DEADLOCK FALSE
