SPECIFICATION Spec
CONSTANTS
  Coordinator = {c1, c2}
  Release = {r1, r2}
  OwnKey = FALSE
  MaxFaults = 2
SYMMETRY Symmetric
CONSTRAINT Promised
CHECK_DEADLOCK FALSE
INVARIANTS
  TypeOK
  PromotionsAreTrue
  LastGoodServes
  SnapshotFrozen
  WritesResume
