SPECIFICATION FairSpec
CONSTANTS
  Resource = {r1}
  Worker = {w1, w2}
  Token = {t1, t2, t3, t4}
  None = None
  Ttl = 2
  MaxTime = 3
  MaxCrashes = 1
INVARIANTS TypeOK
PROPERTIES FreshMeansHeld LiveRowIsItsHoldersOwn ImplementsLeaseTable DeadHolderIsReplaced
CHECK_DEADLOCK FALSE
