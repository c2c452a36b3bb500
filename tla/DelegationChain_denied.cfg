SPECIFICATION Spec
CONSTANTS
  Unset = unset
  Missing = missing
  Star = star
  NoServer = noserver
  NoExp = noexp
  NoIndex = noindex
  ServerIdentity = "srv"
  MaxChainDepth = 3
  MaxIssued = 3
  MaxInvocationAge = 2
  Skew = 1
  None = none
  Concerns = {"policies"}
  AnyOrder = {"links"}
  Roots <- MCRoots
  Children <- MCChildren
  Invocations <- MCInvocations
  Environments <- MCEnvironments
INVARIANTS
  DeniedStaysDenied
