SPECIFICATION Spec
CONSTANTS
  Requests = {p1, p2}
  Proofs = {n1, n2}
  Tolerance = 1
  NonceTtl = 4
  MaxDelay = 1
  OldCopies = TRUE
  MayLose = TRUE
  MaxTime = 4
  MaxVersion = 2
  None = None
SYMMETRY Symmetry
INVARIANTS
  UsedOnce
  ReuseRevokes
PROPERTY RevokedIsFinal
CHECK_DEADLOCK FALSE
