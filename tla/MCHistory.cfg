SPECIFICATION MCSpec
CONSTANTS
  Part = {"history", "migration", "cold"}
  Instant <- MCInstant
  Mount = {"data", "home"}
  Value = {1, 2}
  Identity = {"host", "renamed"}
  Gpu = {"gpu"}
  Sensor = {"fan"}
  Command = {"sh", "cc"}
  Snapshot <- MCSnapshot
  Window <- MCWindow
  L1Keep = 1
  L2Keep = 1
  FastKeep = 1
  DetailInterval = 1
  SeenInterval = 1
  FastBatch = 1
  OrphanBatch = 2
  MaxBusy = 2
  Lateness = 1
  MaxInserts = 2
  MaxMishaps = 1
  a = a b = b p = p q = q j = j root = root usb = usb
  Starter = {"one", "two"}
  Time <- MCTime
  Payload = {p, q, j}
  Undecodable = {j}
  Program = {a, b}
  OldFile <- MCOldFile
  KeepFrom = 2
  LateTime = 3
  OldTime = 4
  NewTime = 5
  MaxListed = 2
  MaxStops = 2
  Exporter = {"daemon"}
  MaxHour = 5
  MonthOf <- MCMonths
  Off = {2}
  ArchiveKeep = 1
  Day = 1
  ColdAfter = 1
  MaxMonths = 2
  BatchHours = 1
  MaxLate = 1
  MaxDeaths = 1
  DayLength = 12
  MinuteLength = 2
  FiveMinutes = 3
  HourLength = 6
  LargestPage = 6
  DefaultPage = 2
  DefaultMarkers = 3
  MostPages = 3
  DefaultWindow = 5
  SecondLength = 1
INVARIANTS TypeOK CacheAgrees ProcessRowsWhole SamplesReadBack ProcessesReadBack FilesystemsReadBack MigrationTypeOK PayloadsKept MigrationAudited ListsReadBack ColdTypeOK SealedWhole SealedFilesMatch
