SPECIFICATION Spec
CONSTANTS
  Workers = {w1, w2, w3}
  NumFiles = 2
  Instances = {i1, i2}
  None = None
  StallsAllowed = TRUE
  AdminMayErr = TRUE
SYMMETRY WorkerSymmetry
INVARIANTS
  TypeOK
  AtMostOneCreate
  AtMostOneDentry
  SubmittedIsReal
