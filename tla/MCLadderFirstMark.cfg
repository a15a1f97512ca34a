CONSTANTS
  Instant = {0, 1, 7, 13, 18, 24, 28}
  SampleTime = {1, 7}
  Res <- MCRes
  Grace = 1
  Lateness = 1
  Slowest = 28
  Ladders <- AllOn
  Maintainer = {loop}
  Overlap = FALSE
  MayFail <- FirstMark
  MaxPromotions = 1
  MaxClockSets = 0
SPECIFICATION Spec
PROPERTIES PromotedBeforePruned
