SPECIFICATION FairSpec
CONSTANTS
  Years <- TwoYears
  a = a
  b = b
  OldYears = {1}
  Contents = {a, b}
  Notices <- SomeNotices
  None = None
  Requests = {r1}
  Scheduler = Scheduler
  MaxWrites = 3
INVARIANTS
  Inv
  WholeNotice
PROPERTIES
  NothingOverwritten
  YearArrives
CHECK_DEADLOCK FALSE
