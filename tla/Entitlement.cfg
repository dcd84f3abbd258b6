SPECIFICATION Spec
CONSTANTS
  Requests = {p1, p2}
  Terms = {0, 1}
  Named = {2, 3}
  MaxRows = 2
  MaxTime = 1
  MaxUntil = 2
SYMMETRY Symmetry
VIEW View
INVARIANTS
  RowsAreSound
  LicenceFollowsTheRow
  TrialsBounded
PROPERTY PaidTimeIsKept
CHECK_DEADLOCK FALSE
