SPECIFICATION Spec
CONSTANTS
  Template <- TheTemplates
  CompanyOptions <- Here
  BudgetOptions <- Money
  Squeezed <- Squeeze
  Profiles <- TheProfiles
  Newest <- TheOrder
  Approval <- TheApprovals
  Users = {"ann"}
  Open = {"a6", "a5", "a4"}
  Windows <- TheWindows
  Keywords = {"", "x"}
  Picks <- ThePicks
  Today = 3
  DayLength = 2
  MaxWindowDays = 2
  MaxQueryDays = 1
  HistoryDays = 3
  PageSize = 1
  MaxPages = 3
  MaxListed = 3
  MaxLookupPages = 2
  LookupLimit = 2
INVARIANTS
  Inv
  VerifiedIsOneTrip
  ChargedAsApproved
  DiagnosisIsTrue
CHECK_DEADLOCK FALSE
