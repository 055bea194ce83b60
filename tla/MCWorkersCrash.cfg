\* Two processes of one loop each over two tasks; p1 may be killed.
CONSTANTS
  w1 = w1
  w2 = w2
  p1 = p1
  p2 = p2
  a = a
  b = b
  NoOwner = NoOwner
  Tasks = {a, b}
  Owners = {w1, w2}
  Procs = {p1, p2}
  ProcOf <- MCTwoProcesses
  Backfill = {w1}
  Mode <- MCDaemons
  BatchLimit = 2
  MaxAttempts = 2
  Children <- MCPair
  ZeroGrace = FALSE
  Budget <- MCCrashBudget
SPECIFICATION CalmSpec
INVARIANTS
  TypeOK
  SingleHolder
  NoTaskLost
  SuccessIsDurable
PROPERTIES
  EveryTaskSettles
CHECK_DEADLOCK FALSE
