SPECIFICATION FairSpec
CONSTANTS
  a = a
  b = b
  c = c
  org = org
  NoToken = NoToken
  Item = {a, b}
  Org = {org}
  OrgOf <- ABOrgOf
  PoolOf <- ABPoolOf
  Manual = {b}
  MaxAttempts <- ABAttempts
  Worker = {w1}
  MaxRunning = 2
  TotalCap = 2
  OrgRunningCap = 1
  OrgWaitingCap = 2
  InitialWaiting = 2
  PoolChoice = {}
  LeaseTtl = 1
  Deadlines = {2}
  Delays = {0, 1}
  Backoff <- ShortBackoff
  Token = {t1, t2}
  MaxStops = 1
PROPERTIES
  EventuallySettled
