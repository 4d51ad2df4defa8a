SPECIFICATION DiscoverySpec
CONSTANTS
  NoNode = 0
  Invalid = 0
  MinPheromone = 1
  MaxPheromone = 6
  EnableProactive = TRUE
  EnableDiffusion = TRUE
  DrawMayBeZero = FALSE
  MaxFirstHops = 8
  MaxHistory = 0
  A1 = 9
  A2 = 20
  ADen = 10
  EnableMultipath = TRUE
  EnableLinkFail = TRUE
  EnableRepair = TRUE
  EnableReactive = TRUE
  EnableEvaporation = TRUE
  EnableDirectedReactive = FALSE
  ProactiveMargin = FALSE
  RepairMaxBroadcasts = 1
  ProactiveMaxBroadcasts = 2
  MaxPathLength = 100
  MaxHelloAdverts = 10
  TxFailureThreshold = 3
  MaxIdle = 2
  NotifyInterval = 5
  RetryInterval = 1
  RepairWait = 1
  RepairTimeout = 1
  SessionTtl = 5
  SeqModulus = 100
  EnableMacFailureDetector = FALSE
  Nodes = {1, 2, 3, 4, 5}
  Delays = {1}
  Scenarios <- MCScenarios
  Timed = FALSE
INVARIANTS AntsOnTrack RoutesAreReal FloodBounded
PROPERTY DiscoveryCompletes
