SPECIFICATION FairSpec
CONSTANTS
  s1 = s1
  s2 = s2
  u1 = u1
  d1 = d1
  l1 = l1
  Cookies <- OneElsewhere
  Sessions = {s1, s2}
  Uploads = {u1}
  Diagnoses = {d1}
  Logouts = {l1}
  Sweeper = Sweeper
  Files = {1, 2, 3}
  Spool = Spool
  SessionMaxFiles = 1
  Capacity = 2
  None = None
INVARIANTS
  Inv
  OutMeansOut
  WithinLimits
PROPERTIES
  NobodyGetsAhead
  OrphanGoes
