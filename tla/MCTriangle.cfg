SPECIFICATION Spec
CONSTANTS
  NoNode = 0
  Invalid = 0
  MinPheromone = 1
  MaxPheromone = 12
  EnableProactive = TRUE
  EnableDiffusion = TRUE
  DrawMayBeZero = FALSE
  MaxFirstHops = 8
  MaxHistory = 0
  A1 = 9
  A2 = 20
  ADen = 10
  EnableMultipath = TRUE
  EnableLinkFail = TRUE
  EnableRepair = TRUE
  EnableReactive = TRUE
  EnableEvaporation = TRUE
  EnableDirectedReactive = FALSE
  ProactiveMargin = FALSE
  RepairMaxBroadcasts = 2
  ProactiveMaxBroadcasts = 2
  MaxPathLength = 100
  MaxHelloAdverts = 10
  TxFailureThreshold = 2
  MaxIdle = 1
  NotifyInterval = 2
  RetryInterval = 1
  RepairWait = 1
  RepairTimeout = 1
  SessionTtl = 5
  SeqModulus = 100
  EnableMacFailureDetector = TRUE
  Nodes = {1, 2, 3}
  Delays = {1}
  Scenarios <- BrokenTriangle
  Timed = TRUE
INVARIANT RoutesLead
