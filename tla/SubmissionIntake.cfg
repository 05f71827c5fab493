SPECIFICATION Spec
CONSTANTS
  Says <- MCSays
  Rate <- MCRate
  Maintained <- MCMaintained
  MaxAttendance = 3
  Mapping <- MCMapping
  ProofLimit = 50
  Forms <- MCForms
  Facts <- MCFacts
  Contents <- MCContents
  Picks <- MCPicks
  Here = "d1"
  Others = {"d2"}
  Owner = "owner"
  MaxEdits = 1
  MaxVersion = 2
  MaxRevision = 5
  MaxRequests = 2
INVARIANTS
  Inv
  LocalChecksAgree
  SubmittedAsReviewed
  CreatedFromLiveApprovals
  FoundIsOurs
PROPERTY
  AccountingIsCurrent
CHECK_DEADLOCK FALSE
