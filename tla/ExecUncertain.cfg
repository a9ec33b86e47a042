SPECIFICATION Spec
CONSTANTS
  Call = {c1, c2}
  Batch = {c1, c2}
  Review = {r1}
  HumanGateA = FALSE
  HumanGateB = FALSE
  MaxAssembly = 2
  MaxTime = 0
  TTL = 1
  None = None
INVARIANTS ConsumedIsUncertain
CHECK_DEADLOCK FALSE
