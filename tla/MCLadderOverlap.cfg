CONSTANTS
  Instant = {0, 1, 5, 6, 7, 8, 13, 15, 18, 24, 28}
  SampleTime = {1, 5, 7}
  Res <- MCRes
  Grace = 1
  Lateness = 1
  Slowest = 12
  Ladders <- AllOn
  Maintainer = {loop}
  Overlap = TRUE
  MayFail <- EveryStatement
  MaxPromotions = 1
  MaxClockSets = 0
SPECIFICATION Spec
INVARIANTS FoldedBehindWatermark
PROPERTIES PromotedBeforePruned AncestorsKeptWhole
