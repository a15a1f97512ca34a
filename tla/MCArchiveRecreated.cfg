CONSTANTS
  Hour = {0, 1}
  Sample = {first, late}
  Keep = 1
  Lateness = 1
  Recreates = TRUE
  BatchRows = 2
  MaxBatches = 2
  WalSize = 1
  MaxClock = 3
  MaxMishaps = 0
SPECIFICATION Spec
PROPERTIES ArchivedForever
