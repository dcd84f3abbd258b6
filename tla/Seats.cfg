SPECIFICATION Spec
CONSTANTS
  Devices = {d1, d2}
  Licences = {l1, l2}
  Requests = {p1, p2}
  Limit = 1
  MaxTransfers = 1
  None = None
SYMMETRY Symmetry
INVARIANTS
  SeatsWithinLimit
  OutOfServiceIsOut
  TransfersBounded
