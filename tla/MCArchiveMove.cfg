CONSTANTS
  Hour = {0, 1, 2}
  Sample = {first, late}
  Keep = 1
  Lateness = 1
  Recreates = FALSE
  BatchRows = 2
  MaxBatches = 2
  WalSize = 2
  MaxClock = 4
  MaxMishaps = 1
SPECIFICATION Spec
INVARIANTS TypeOK
PROPERTIES HoursKept MarkedWhenMoved ExpiredHoursMove
