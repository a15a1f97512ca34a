CONSTANTS
  Instant = {0, 1, 2, 13, 15, 18, 24, 28}
  SampleTime = {0, 1, 2}
  Res <- MCRes
  Grace = 1
  Lateness = 1
  Slowest = 28
  Ladders <- L3Switched
  Maintainer = {loop}
  Overlap = FALSE
  MayFail <- Inserts
  MaxPromotions = 2
  MaxClockSets = 1
SPECIFICATION Spec
INVARIANTS NoDoubleCount
PROPERTIES PrunedBehindWatermark DisabledUntouched
