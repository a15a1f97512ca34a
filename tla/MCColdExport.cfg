SPECIFICATION ColdSpec
CONSTANTS
  Exporter = {"daemon", "command"}
  MaxHour = 4
  MonthOf <- MCMonths
  Off = {2}
  ArchiveKeep = 1
  Day = 0
  ColdAfter = 1
  MaxMonths = 2
  BatchHours = 2
  MaxLate = 0
  MaxDeaths = 0
CHECK_DEADLOCK FALSE
INVARIANT SealedFilesMatch
