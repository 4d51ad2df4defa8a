SPECIFICATION Spec
CONSTANTS
  MaxHistory = 1
  MaxFirstHops = 2
  A1 = 9
  A2 = 20
  ADen = 10
  Invalid = Invalid
  Keys = {k1, k2}
  Hops = {1, 2, 3, 4}
  Times = {0, 1}
  FirstHops = {f1, f2, f3}
  MaxBroadcasts = 1
INVARIANTS
  TypeOK
  StoreAgrees
  BestIsMinimum
  NoReturn
  AdmissionsBounded
