SPECIFICATION GatedSpec
CONSTANTS
  Callers = {c1}
  Main = main
  NoOne = none
  Indices = {i1}
  Covered = {i1}
  TTL = 0
  FetchTimeout = 1
  MaxTime = 2
PROPERTIES
  BecomesReady
CHECK_DEADLOCK FALSE
