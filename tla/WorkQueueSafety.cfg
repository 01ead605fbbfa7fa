SPECIFICATION Spec
CONSTANTS
  a = a
  b = b
  c = c
  org = org
  NoToken = NoToken
  Item = {a, b}
  Org = {org}
  OrgOf <- ABOrgOf
  PoolOf <- ABPoolOf
  Manual = {b}
  MaxAttempts <- ABAttempts
  Worker = {w1, w2}
  MaxRunning = 2
  TotalCap = 2
  OrgRunningCap = 2
  OrgWaitingCap = 1
  InitialWaiting = 1
  PoolChoice <- OneSlotEach
  LeaseTtl = 1
  Deadlines = {2}
  Delays = {0}
  Backoff <- ShortBackoff
  Token = {t1, t2}
  MaxStops = 1
SYMMETRY Symmetric
INVARIANTS
  TypeOK
  ManualOutcomeHeld
  CancelledNeverRequeued
  ResultOfLatestAttempt
  SingleCurrentExecution
PROPERTIES
  ClaimWithinLimits
