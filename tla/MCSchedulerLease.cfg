CONSTANTS
  Schedulers = {s1, s2}
  Jobs = {incremental_lists}
  Immediate = {incremental_lists}
  Budget <- MCOverrun
SPECIFICATION Spec
INVARIANTS
  LeaseExcludes
