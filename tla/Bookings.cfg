SPECIFICATION Spec
CONSTANTS
  s1 = s1
  g1 = g1
  g2 = g2
  k1 = k1
  p1 = p1
  Slot = {s1}
  Guest = {g1, g2}
  Key = {k1}
  Process = {p1}
  MaxCapacity = 2
SYMMETRY Symmetric
CHECK_DEADLOCK FALSE
INVARIANTS
  TypeOK
  NoOverbooking
  WaitersFit
  PromisesKept
