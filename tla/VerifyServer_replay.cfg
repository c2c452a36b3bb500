SPECIFICATION Spec
CONSTANTS
  j1 = j1
  j2 = j2
  i1 = i1
  Jtis = {j1, j2}
  Absent = absent
  TTL = 2
  MaxEntries = 1
  MaxTime = 4
  r1 = r1
  Requests = {r1}
  Iat <- MCIat
  Nbf <- MCNbf
  Exp <- MCExp
  Index <- MCIndex
  NoExp = noexp
  NoIndex = noindex
  Skew = 1
  Configs <- MCConfigs
  MaxRestarts = 0
INVARIANTS
  AcceptedOnce
