SPECIFICATION Spec
CONSTANTS
  r1 = r1
  r2 = r2
  oa = oa
  trip = trip
  tour = tour
  Administrators = {r1, r2}
  Submitters = {r1, r2}
  Diagnosers = {r1, r2}
  Code = oa
  TravelCodes = {trip, tour}
  Forms <- Editions
  Requested <- Lists
  Plans <- PlanSet
  MaxEdits = 1
  MaxVersion = 2
  Undone = Undone
SYMMETRY Alike
INVARIANTS
  Inv
  AdoptedFormsAreAlike
  MappedFieldsCanBeFilled
  AnswersAreFresh
PROPERTIES
  ConfirmationStands
  RefreshNeverGoesBack
CHECK_DEADLOCK FALSE
