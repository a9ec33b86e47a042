SPECIFICATION Spec
CONSTANTS
  Call = {c1, c2}
  Batch = {}
  Review = {r1, r2}
  HumanGateA = FALSE
  HumanGateB = TRUE
  MaxAssembly = 2
  MaxTime = 1
  TTL = 1
  None = None

INVARIANTS ClickIsAuthorised ClickIsNotDeferred
PROPERTIES EveryCallEnds
CHECK_DEADLOCK FALSE
