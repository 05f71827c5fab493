SPECIFICATION FairSpec
CONSTANTS
  Files = {f1, f2}
  Requests = {r1}
  Sweeper = Sweeper
  Workers = {w1, w2}
  Capacity = 1
  MaxRevision = 4
  DiskFaults = TRUE
  LateFailures = {f2}
INVARIANTS
  Inv
  ActiveHasItsBytes
PROPERTIES
  SubmittedFilesStay
  CleanupEnds
CHECK_DEADLOCK FALSE
