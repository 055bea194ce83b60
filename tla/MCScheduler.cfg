CONSTANTS
  Schedulers = {s1, s2}
  Jobs = {incremental_lists, weekly_reconcile}
  Immediate = {incremental_lists}
  Budget <- MCBudget
SPECIFICATION FairSpec
INVARIANTS
  TypeOK
  JobRunsAlone
PROPERTIES
  JobsRecur
