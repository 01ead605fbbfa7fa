SPECIFICATION Spec
CONSTANTS
  a = a
  b = b
  c = c
  org = org
  NoToken = NoToken
  Item = {a, b, c}
  Org = {org}
  OrgOf <- ABOrgOf
  PoolOf <- ABPoolOf
  Manual = {b}
  MaxAttempts <- ABAttempts
  Worker = {w1}
  MaxRunning = 1
  TotalCap = 3
  OrgRunningCap = 2
  OrgWaitingCap = 1
  InitialWaiting = 1
  PoolChoice = {}
  LeaseTtl = 1
  Deadlines = {3}
  Delays = {0}
  Backoff <- ShortBackoff
  Token = {t1, t2}
  MaxStops = 0
SYMMETRY Symmetric
INVARIANTS
  RunningBounded
  BacklogBounded
  AttemptsBounded
