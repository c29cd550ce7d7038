\* Two sessions and three candidates in a tracker of two, with a window and a
\* TTL of one second (one tick), clocks that differ by up to a second, and up to
\* five claims in three seconds.
SPECIFICATION Spec
CONSTANTS
  SessionIds = {s, t}
  Candidates = {x, y, z}
  Forged = Forged
  Garbage = Garbage
  None = None
  TicksPerSecond = 1
  Window = 1
  Ttl = 1
  MaxEntries = 2
  MaxSkew = 1
  MaxTime = 3
  MaxListed = 2
  MaxClaims = 5
INVARIANTS
  TypeOK
  ReplayOnlyAfterForgetting
  RefusedOnlyForReplay
  OneValidIsEnough
SYMMETRY MCSymmetry
CHECK_DEADLOCK FALSE
