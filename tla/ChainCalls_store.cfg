SPECIFICATION Spec
CONSTANTS
  Garbled = garbled
  NoAttrs = noattrs
  NoPool = nopool
  None = none
  d1 = d1
  d2 = d2
  Callers = {"c1", "c2"}
  Receipts = {d1, d2}
  Tiers = {0, 1, 3}
  TSACert <- MCCert
  TSARootPool <- MCPool
  Answers <- MCAnswers
  MemoryCapacity = 1
  TTL = 0
  MaxTime = 1
  DIDs = {"a", "b"}
  BlockCConcurrency = 1
  Chains <- MCChains
  Issuers <- MCIssuers
INVARIANTS
  StoreTypeOK
  UnwarnedIsStored
  SoloReportVerifies
  StoredIsResolved
  PoolNeverStuck
