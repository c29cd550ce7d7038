\* Two submissions of two devices around the turn of an hour, every command
\* sent at most twice, in both stores.
SPECIFICATION Spec
CONSTANTS
  None = None
  Calls = {a, b}
  Devices = {d, e}
  MaxAttempts = 2
  MaxHour = 1
INVARIANTS
  TypeOK
  BlocksAreOfTheHour
  DevicesWithinHits
  NoDeviceLost
  RowsExpire
SYMMETRY MCSymmetry
CHECK_DEADLOCK FALSE
