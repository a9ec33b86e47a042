SPECIFICATION TwoRunsSpec
CONSTANTS
  c1 = c1
  c2 = c2
  r1 = r1
  r2 = r2
  r3 = r3
  p = p
  q = q
  f1 = f1
  f2 = f2
  k1 = k1
  k2 = k2
  k3 = k3
  None = None
  Browser = browser
  Call = {c1, c2}
  Run = {r1, r2, r3}
  Posting = {p, q}
  PostingOf <- WithLegacy
  Legacy = {q}
  Review = {f1}
  Permit = {k1, k2, k3}
  Binds <- PermitEach
  Lending = {FALSE}
  Modes = {"permit"}
INVARIANTS AtMostOneClick VerifiedRunHasProof
PROPERTIES EveryCallEnds
CHECK_DEADLOCK FALSE
