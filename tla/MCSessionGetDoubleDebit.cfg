\* One invocation whose debit is retried: may it burn two credits?
SPECIFICATION Spec
CONSTANTS
  m1 = m1  c1 = c1  c2 = c2  s1 = s1  k1 = k1  k2 = k2  pk1 = pk1  pk2 = pk2
  r1 = r1  r2 = r2
  None = None
  Requests = {r1}
  Merchants <- MCMerchants
  Cpis <- MCCpis
  Sessions <- MCSessions
  KeyIds <- MCKeyIds
  PublicKeys <- MCPublicKeys
  RequestShapes <- MCRequestShapes
  VerifierConfigured = TRUE
  MaxAttempts = 2
  CreditCap = 2
  ScanKeys <- MCScanKeys
INVARIANT OneCreditPerRequest
CHECK_DEADLOCK FALSE
