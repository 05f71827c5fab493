SPECIFICATION LiveSpec
CONSTANTS
  Workers = {w1, w2}
  NumFiles = 2
  Instances = {i1, i2}
  None = None
  StallsAllowed = TRUE
  AdminMayErr = FALSE
PROPERTIES
  KeepsPromise
  EndsOrAsks
