\* One submission in either velocity store, every command sent twice: is it
\* always answered, with no fairness of the stores?
SPECIFICATION FairSpec
CONSTANTS
  c1 = c1  s1 = s1  s2 = s2  d1 = d1  n1 = n1
  None = None
  Submissions = {x}
  Containers = {k1}
  Cpis <- MCCpis
  Sessions <- MCSessions
  Devices <- MCDevices
  Candidates <- MCCandidates
  SubmissionShapes <- MCShapes
  PutAttempts = 2
  VelocityAttempts = 2
  MaxHour = 1
PROPERTY EverySubmissionAnswered
CHECK_DEADLOCK FALSE
