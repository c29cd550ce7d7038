\* Two calls with a token, and any number without, in two containers, while the
\* issuer rotates its key once; one token per key, claims that are sent twice.
SPECIFICATION Spec
CONSTANTS
  Calls = {a, b}
  Containers = {k1, k2}
  Keys = {x, y}
  Serials = {m}
  Bindings = {s, t}
  PinnedKeys = {}
  EnforceKeyPin = FALSE
  CacheSeconds = 1
  WrapperTtl = 0
  LedgerTtl = 1
  MaxSends = 2
  MaxTime = 1
  None = None
  Forged = Forged
INVARIANTS
  TypeOK
  OneScanPerToken
  EvidenceIsOfThisScan
  RefusedOnlyForReplay
PROPERTY KeysOnlyAdvance
SYMMETRY MCSymmetry
CHECK_DEADLOCK FALSE
