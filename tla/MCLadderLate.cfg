CONSTANTS
  Instant = {0, 1, 2, 7, 13, 15, 18, 24, 28}
  SampleTime = {0, 1, 2, 7}
  Res <- MCRes
  Grace = 1
  Lateness = 28
  Slowest = 28
  Ladders <- AllOn
  Maintainer = {loop}
  Overlap = FALSE
  MayFail <- TicksOnly
  MaxPromotions = 1
  MaxClockSets = 0
SPECIFICATION Spec
INVARIANTS TypeOK FoldedBehindWatermark
PROPERTIES PromotedBeforePruned WatermarksAdvance
