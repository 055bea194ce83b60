\* A daemon and a once process over one task that is refreshed, fails and goes stale.
CONSTANTS
  w1 = w1
  w2 = w2
  p1 = p1
  p2 = p2
  a = a
  b = b
  NoOwner = NoOwner
  Tasks = {a}
  Owners = {w1, w2}
  Procs = {p1, p2}
  ProcOf <- MCTwoProcesses
  Backfill = {w1}
  Mode <- MCDaemonAndOnce
  BatchLimit = 1
  MaxAttempts = 2
  Children <- MCSingle
  ZeroGrace = FALSE
  Budget <- MCRefreshBudget
SPECIFICATION Spec
PROPERTIES
  LiveLeaseIsExclusive
  CurrentHolderNeverRegresses
CHECK_DEADLOCK FALSE
