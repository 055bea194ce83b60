\* Two processes over one task whose lease runs out under its owner.
CONSTANTS
  w1 = w1
  w2 = w2
  p1 = p1
  p2 = p2
  a = a
  b = b
  NoOwner = NoOwner
  Tasks = {a}
  Owners = {w1, w2}
  Procs = {p1, p2}
  ProcOf <- MCTwoProcesses
  Backfill = {w1}
  Mode <- MCDaemons
  BatchLimit = 2
  MaxAttempts = 2
  Children <- MCSingle
  ZeroGrace = FALSE
  Budget <- MCStaleBudget
SPECIFICATION Spec
PROPERTIES
  StaleDeleteSparesNewClaim
CHECK_DEADLOCK FALSE
