CONSTANTS
  Instant = {0, 1, 2, 15, 18}
  SampleTime = {0, 1, 2}
  Res <- MCRes
  Grace = 1
  Lateness = 1
  Slowest = 28
  Ladders <- AllOn
  Maintainer = {loop}
  Overlap = FALSE
  MayFail <- TicksOnly
  MaxPromotions = 1
  MaxClockSets = 1
SPECIFICATION Spec
PROPERTIES MinutesKeptWhole
