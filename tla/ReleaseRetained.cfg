SPECIFICATION Spec
CONSTANTS
  Coordinator = {c1, c2}
  Release = {r1, r2}
  OwnKey = TRUE
  MaxFaults = 0
SYMMETRY Symmetric
CHECK_DEADLOCK FALSE
INVARIANT ReleaseRetained
