\* Two browsers of which one was killed while it loaded, and came back.
CONSTANTS
  Loaders = {b1, b2}
  NoLoader = NoLoader
  Ranges = 3
  BundleBudget <- RaceBudget
SPECIFICATION BundleSpec
INVARIANTS
  ServedBundleIsWhole
CHECK_DEADLOCK FALSE
