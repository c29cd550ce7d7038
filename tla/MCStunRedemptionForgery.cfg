\* Clocks that agree, one candidate: is what is called a forgery forged?
SPECIFICATION Spec
CONSTANTS
  SessionIds = {s, t}
  Candidates = {x}
  Forged = Forged
  Garbage = Garbage
  None = None
  TicksPerSecond = 2
  Window = 1
  Ttl = 2
  MaxEntries = 2
  MaxSkew = 0
  MaxTime = 5
  MaxListed = 2
  MaxClaims = 2
INVARIANT ForgeryIsForged
CHECK_DEADLOCK FALSE
