SPECIFICATION FairSpec
CONSTANTS
  Callers = {c1, c2}
  NoOne = none
  TTL = 1
  FetchTimeout = 1
  Threshold = 2
  Cooldown = 1
  Identifiers <- MCIdentifiers
  Documents <- MCDocuments
  OtherDocuments <- MCOtherDocuments
  Answers <- MCAnswers
  Private <- MCPrivate
  NoAddress = noAddress
  inside = inside
  outside = outside
  MaxKey = 2
  MaxTime = 3
INVARIANTS
  TypeOK
  SingleFlight
  RotationPropagates
  PublicPeersOnly
PROPERTIES
  BacksOff
  ResolutionsReturn
