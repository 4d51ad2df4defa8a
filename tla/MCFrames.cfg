SPECIFICATION Spec
CONSTANTS
  MaxVisitedOnWire = 3
  MaxHistoryOnWire = 3
  MaxHelloOnWire = 2
  MaxPathLength = 3
  MaxAdverts = 2
  MostLost = 3
  MostSent = 5
  MaxReinject = 2
  Routes <- MCRoutes
  Levels = {1, 6}
  Here <- MCHere
  Hosts <- MCHosts
  Stamps <- MCStamps
  Motions <- MCMotions
  Payloads <- MCPayloads
INVARIANT FramesReadBack
CHECK_DEADLOCK FALSE
