SPECIFICATION FairSpec
CONSTANTS
  Callers = {c1, c2}
  Main = main
  NoOne = none
  Indices = {i1}
  Covered = {i1}
  TTL = 1
  FetchTimeout = 1
  MaxTime = 3
INVARIANTS
  TypeOK
  AtMostOneFetch
  FailClosed
  RevocationPropagates
PROPERTIES
  NoRollback
  CallsReturn
