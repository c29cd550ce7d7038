\* Two concurrent invocations of one merchant, a debit retried once, and two
\* credits that may run out, be granted or be cut off: money, verdicts, and
\* that every invocation ends.
SPECIFICATION MCSpec
CONSTANTS
  m1 = m1  c1 = c1  c2 = c2  s1 = s1  k1 = k1  k2 = k2  pk1 = pk1  pk2 = pk2
  r1 = r1  r2 = r2
  None = None
  Requests = {r1, r2}
  Merchants <- MCMerchants
  Cpis <- MCCpis
  Sessions <- MCSessions
  KeyIds <- MCKeyIds
  PublicKeys <- MCPublicKeys
  RequestShapes <- MCRequestShapes
  VerifierConfigured = TRUE
  MaxAttempts = 2
  CreditCap = 2
  ScanKeys <- MCScanKeys
INVARIANTS
  TypeOK
  EveryReadIsPaidFor
  VerdictOnlyToOwner
  RejectionIsFree
  StoredScanIsFound
PROPERTIES
  LedgerPromise
  EveryRequestEnds
CHECK_DEADLOCK FALSE
