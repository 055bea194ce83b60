\* Every part with what can go wrong in it: see the budgets.
CONSTANTS
  Calls = {r1, r2}
  NoCall = NoCall
  Networks = {"direct", "proxy", "provider", "pool"}
  Urls <- ThreeProxies
  LaneCount = 2
  Threshold = 1
  MaxAttempts = 2
  LaneBudget <- MCLaneBudget
  Challenges = {1, 2, 3}
  NoChallenge = NoChallenge
  ProcessOf <- MCProcessOf
  LaneOf <- MCLaneOf
  SpendLimit = 1
  MaxTries = 2
  ManualFallback = TRUE
  CaptchaBudget <- MCCaptchaBudget
  Loaders = {b1, b2}
  NoLoader = NoLoader
  Ranges = 3
  BundleBudget <- MCBundleBudget
SPECIFICATION MCSpec
INVARIANTS
  TypeOK
  LaneHeldByOne
  DistinctProxies
  CaptchaSolvedAlone
  SpendStaysBounded
  ServedBundleIsWhole
PROPERTIES
  CooldownOutlivesRestart
  GetEnds
  CaptchaSolvesEnd
  LoadsEnd
CHECK_DEADLOCK FALSE
