SPECIFICATION Spec
CONSTANTS
  c1 = c1
  c2 = c2
  nobody = nobody
  Last = 2
  Coordinator = {c1}
  Nobody = nobody
  MaxAttempts = 2
  LeaseTtl = 1
  RetryDelay = 1
  MaxFaults = 1
  MaxRestores = 1
INVARIANT DeliveredStaysShown
