SPECIFICATION ClaimSpec
CONSTANTS
  Says <- MCSays
  Rate <- MCRate
  Maintained <- MCMaintained
  MaxAttendance = 3
  Trips <- MCTrips
  Adjustments <- MCAdjustments
  MaxTrips = 3
  MaxAdjustments = 2
INVARIANTS
  EachHalfDayPaidOnce
  LinesAreApart
CHECK_DEADLOCK FALSE
