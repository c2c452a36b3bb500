SPECIFICATION Spec
CONSTANTS
  Garbled = garbled
  NoAttrs = noattrs
  NoPool = nopool
  None = none
  Hashes = {h1, h2}
  Certs <- MCCerts
  TSAs <- MCTSAs
  RootPool <- MCRoots
  Bundle <- MCBundle
  Forms = {"attributes", "direct"}
  OtherTokens <- MCOtherTokens
  MaxTime = 1
  MaxStamps = 2
SYMMETRY Receipts
INVARIANTS
  TimestampVouched
  GenuineAccepted
