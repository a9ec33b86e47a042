SPECIFICATION FairSpec
CONSTANTS
  Request = {r1, r2}
  Starter = {s1}
  Closer = {d1, d2}
  None = None
  MaxMishaps = 2
INVARIANTS RuntimeTypeOK ShutdownIsComplete LeaseCleansUp
PROPERTIES DrainSparesLeases PagesKeepApart NobodyHangs
CHECK_DEADLOCK FALSE
