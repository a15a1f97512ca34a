SPECIFICATION MCSpec
CONSTANTS
  Request = {r1, r2}
  r1 = r1
  r2 = r2
  Carried <- MCCarried
  Loop = loop
  Document <- MCDocument
  DefaultLadder <- MCLadder
  DefaultBlock = "a"
  DefaultValue = "a"
  Block = {"a", "b"}
  L1Least = 1
  L2Least = 1
  FastLeast = 1
  MinFreeLeast = 1
  KeepMost = 3
  HoursPerDay = 2
  FreeBytes = {0, 1}
  MaxFreeChanges = 1
  MaxControlMishaps = 1
  OtelSettings <- MCOtel
  Unbuildable <- MCUnbuildable
  Tick = 1
  RetryDelay = 2
  ExportTimeout = 2
  MaxInterval = 3
  ClockStep = 2
  MaxOtelChanges = 2
  MaxOtelMishaps = 1
  MaxClockSteps = 1
  MinRefresh = 2
  Config <- MCConfig
  FirstConfig <- MCFirstConfig
  MaxTime = 9
  MaxFailures = 1
  MaxPlugs = 1
  Part = {"control", "otel", "collector"}
INVARIANTS DaemonTypeOK RetentionOnlyShrinks NoLostUpdate PipelineIsOfSettings SamplesCoherent
PROPERTIES ConfigurationNeverGoesBack ControlSettles ExportsSpaced OtelSettles
