SPECIFICATION Spec
CONSTANTS
  p1 = p1
  p2 = p2
  p3 = p3
  d1 = d1
  d2 = d2
  Packets <- ThreePackets
  Dest <- Destination
  MaxLen = 2
  Timeout = 3
  Cap <- AllCapped
  Ttl = 1
  Start = 1
  Stop = 5
INVARIANTS Conserved NoOvertaking
PROPERTY CapRespected
