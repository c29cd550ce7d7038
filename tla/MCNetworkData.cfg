\* The writers and the readers of the datasets: two nightly runs and a repair
\* of the overlay, two builds of the ASN dataset, archives of three scans, two
\* callers of each of the six caches over two lifetimes of what they keep, and
\* requests over a rotation of the keys and two midnights.
SPECIFICATION Spec
CONSTANTS
  None = None
  Unlisted = None
  Absent = None
  NoValue = None
  Nothing = None
  Width = 4
  DiscoverRuns = {d1, d2}
  RepairRuns = {r1}
  Archived = {2, 5, 8, 10}
  PrivateAddresses = {10}
  Networks <- MCNetworks
  CategoryOf <- MCCategoryOf
  FamilyOf <- MCFamilyOf
  Builds = {b1, b2}
  AsnTables <- MCAsnTables
  PdbAnswers <- MCPdbAnswers
  Overrides <- MCOverrides
  OrgCategory <- MCOrgCategory
  OrgLength <- MCOrgLength
  Archives <- MCArchives
  Kinds = {"overlay", "dataset", "secret", "ecdh", "pubkey", "cpi"}
  Calls = {a, b}
  Ttl = 2
  MaxTime = 4
  MaxVersion = 2
  TicksPerDay = 2
  Requests <- MCRequests
INVARIANTS
  LookupIsExact
  VotesAreEarned
  StaleOnlyAfterFailure
  OutageForgotten
  SealHolds
PROPERTIES
  RulesLostOnlyUnseen
  PdbOutlivesOutage
SYMMETRY MCSymmetry
CHECK_DEADLOCK FALSE
