SPECIFICATION Spec
CONSTANTS
  None = None
  Call = {p1, p2}
  Plan <- MCPlan
  Binding <- MCPlan
  Input <- MCInput
  Moment <- MCMoment
  Last = 3
  Visual = 1
  RoleStages <- MCRoles
  Job = {1}
  Cycle = {i1}
  Refresh = {r1}
  Level <- MCLevel
  Budget <- MCBudget
  Servings <- MCServings
  MaxRevision = 2
  MaxMishaps = 1
INVARIANTS
  AutomationTypeOK
  ScoringInv
  AssemblyInv
  PreparationInv
  EvidenceChain
  ToldIsStored
PROPERTIES
  KeepsTheEvidence
CHECK_DEADLOCK FALSE
