SPECIFICATION Spec
CONSTANTS
  MaxHistory = 2
  MaxFirstHops = 8
  A1 = 9
  A2 = 20
  ADen = 10
  Invalid = Invalid
  Keys = {k1, k2, k3, k4}
  MaxLog = 5
INVARIANTS
  TypeOK
  WindowAgrees
  NoEarlyRepeat
PROPERTIES
  ImplementsWindow
