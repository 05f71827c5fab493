SPECIFICATION Spec
CONSTANTS
  Workers = {w1}
  NumFiles = 1
  Instances = {i1}
  None = None
  StallsAllowed = FALSE
  AdminMayErr = FALSE
INVARIANTS
  RefusedRecycleAsksAdmin
