\* Two submissions, each in any of two containers, a Put sent twice.
SPECIFICATION MCSpec
CONSTANTS
  c1 = c1  s1 = s1  s2 = s2  d1 = d1  n1 = n1
  None = None
  Submissions = {x, y}
  Containers = {k1, k2}
  Cpis <- MCCpis
  Sessions <- MCSessions
  Devices <- MCDevices
  Candidates <- MCCandidates
  SubmissionShapes <- MCShapes
  PutAttempts = 2
  VelocityAttempts = 1
  MaxHour = 0
INVARIANTS
  TypeOK
  StoredOnce
  RejectionLeavesNoTrace
  StoredIsArchiving
  SingleUse
PROPERTY StorePromise
SYMMETRY MCSymmetry
CHECK_DEADLOCK FALSE
