SPECIFICATION FairSpec
CONSTANTS
  Token = 2
  CacheSize = 1
  Ids <- MCIds
  Environments <- MCEnvironments
  c1 = c1
  c2 = c2
  Clients = {c1, c2}
  Admins = {c1}
  Proxy = proxy
  r1 = r1
  r2 = r2
  Requests = {r1, r2}
  PerIPRPS = 2
  GlobalRPS = 1
  adminPerIPRPS = 2
  adminGlobalRPS = 1
INVARIANTS
  TypeOK
  ClientShare
  SharedLimit
PROPERTIES
  DrainLosesNothing
  StopEnds
CHECK_DEADLOCK FALSE
