SPECIFICATION Spec
CONSTANTS
  c1 = c1
  c2 = c2
  r1 = r1
  r2 = r2
  r3 = r3
  p = p
  q = q
  f1 = f1
  f2 = f2
  k1 = k1
  k2 = k2
  k3 = k3
  None = None
  Browser = browser
  Call = {c1, c2}
  Run = {r1}
  Posting = {p}
  PostingOf <- OnePosting
  Legacy = {}
  Review = {f1, f2}
  Permit = {k1}
  Binds <- OnePermit
  Lending = {TRUE}
  Modes = {"prepare", "codex", "human", "permit"}
SYMMETRY Symmetry
INVARIANTS TypeOK AtMostOneClick ClickIsAuthorised OutcomeIsHonest LeasesReturned NothingLeftSubmitting
PROPERTIES KeepsThePromise
CHECK_DEADLOCK FALSE
