\* One draining process of two loops; a database call may fail and a
\* request be blocked.
CONSTANTS
  w1 = w1
  w2 = w2
  p1 = p1
  p2 = p2
  a = a
  b = b
  NoOwner = NoOwner
  Tasks = {a, b}
  Owners = {w1, w2}
  Procs = {p1}
  ProcOf <- MCOneProcess
  Backfill = {w1}
  Mode <- MCDrain
  BatchLimit = 2
  MaxAttempts = 2
  Children <- MCPair
  ZeroGrace = FALSE
  Budget <- MCDrainBudget
SPECIFICATION FairSpec
INVARIANTS
  DrainExitsEmpty
  StoppedHoldsNoLease
PROPERTIES
  DrainEnds
CHECK_DEADLOCK FALSE
