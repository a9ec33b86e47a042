SPECIFICATION Spec
CONSTANTS
  o1 = o1
  o2 = o2
  o3 = o3
  o4 = o4
  p1 = p1
  p2 = p2
  Op = {o1, o2, o3, o4}
  Process = {p1, p2}
  ProcessOf <- Where
  Content = {a, b}
  Absent = absent
  Partial = partial
  None = None
INVARIANTS TypeOK ToldIsStored OneCreator
PROPERTIES StoredStays ImplementsWriteOnce EveryCallAnswers
CHECK_DEADLOCK FALSE
