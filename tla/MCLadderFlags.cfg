CONSTANTS
  Instant = {0, 1, 2, 7, 13}
  SampleTime = {1, 2}
  Res <- MCRes
  Grace = 1
  Lateness = 13
  Slowest = 13
  Ladders <- L3Switched
  Maintainer = {loop}
  Overlap = TRUE
  MayFail <- FirstMark
  MaxPromotions = 1
  MaxClockSets = 0
SPECIFICATION Spec
INVARIANTS RefoldHonoursSave
