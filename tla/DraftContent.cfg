SPECIFICATION Spec
CONSTANTS
  Files = {f1, f2}
  Requests = {r1, r2}
  None = None
  MaxRevision = 5
SYMMETRY Symmetric
INVARIANT Inv
PROPERTIES
  OnlyLateWritesLoseInput
  ConfirmedPurposeStands
CHECK_DEADLOCK FALSE
