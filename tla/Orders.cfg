SPECIFICATION Spec
CONSTANTS
  o1 = o1
  p1 = p1
  k1 = k1
  k2 = k2
  Order = {o1}
  Process = {p1}
  Command = {k1, k2}
  Stock = 1
  Amount = 2
  MaxSeq = 3
  MaxRestores = 2
SYMMETRY Symmetric
CHECK_DEADLOCK FALSE
INVARIANTS
  TypeOK
  InventoryConserved
  LedgerAgrees
  OrderIsReported
  SingleOutstanding
  HeldUntilCaughtUp
  CancelledIsUnpaid
