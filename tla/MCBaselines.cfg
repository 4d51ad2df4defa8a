SPECIFICATION Spec
CONSTANTS
  Nodes = {"a", "b", "c", "d"}
  AllNodes = "all"
  ArraySize = 2
  MaxDances = 1
  AntTtl = 4
  DiscoveryRetries = 1
  RreqsPerRequest = 2
  QInit = 2
  QCap = 2
  MaxHops = 3
  InitialScoutTtl = 2
  MaxRoundsAtMaxTtl = 1
  ScoutListLength = 4
  SwarmSize = 1
  SwarmSizeOwn = 1
  MaxQueueLen = 2
  InitialTtl = 5
  TtlStart = 1
  TtlIncrement = 2
  TtlThreshold = 1
  NetDiameter = 3
  RreqRetries = 1
  RreqRateLimit = 1
  RerrRateLimit = 1
  MaxPaths = 2
  AltPathDiff = 1
  FaceTtl = 2
  Metre = 2
  PosSpan = 8
  Scenarios <- MCScenarios
CHECK_DEADLOCK FALSE
INVARIANTS
  Conserved
  HeldIsSought
  AntsLeaveWays
  LostIsForgotten
  PathsDisjoint
  GreedyNeverReturns
