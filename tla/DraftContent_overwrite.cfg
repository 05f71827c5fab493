SPECIFICATION Spec
CONSTANTS
  Files = {f1}
  Requests = {r1, r2}
  None = None
  MaxRevision = 6
PROPERTY SavedInputStays
CHECK_DEADLOCK FALSE
