\* Two lanes without proxies or with a pool of three; a stack with a list and a
\* plan item.
CONSTANTS
  Requests = {r1, r2}
  LaneCount = 2
  PoolUrls <- ThreeProxies
  LaneThreshold = 1
  SourceThreshold = 2
  MaxAttempts = 3
  Budgets <- MCBudgets
  Endpoints = {"lots/filter", "plan-items/1"}
  Lists = {"lots/filter"}
  Unpaged = {"plan-items/1"}
  LaneLimit = 2
  SourceLimit = 3
  StackBudget <- MCStackBudget
SPECIFICATION MCSpec
INVARIANTS
  TypeOK
  LaneHeldByOne
  DistinctProxies
  LaneProbeIsRunning
PROPERTIES
  LaneCooldownHonoured
  RequestEnds
  StackIsOneAwait
CHECK_DEADLOCK FALSE
