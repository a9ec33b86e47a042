SPECIFICATION Spec
CONSTANTS
  Call = {c1, c2}
  Batch = {c1, c2}
  Review = {r1, r2}
  HumanGateA = TRUE
  HumanGateB = FALSE
  MaxAssembly = 2
  MaxTime = 0
  TTL = 1
  None = None
SYMMETRY Symm
INVARIANTS TypeOK CompletedIsProven
PROPERTIES PlanSubmittedOnce
CHECK_DEADLOCK FALSE
