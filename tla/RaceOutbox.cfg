SPECIFICATION Spec
CONSTANTS
  Tx = {t1, t2}
  Manuals = {m1}
  Price = 2
SYMMETRY Symmetry
INVARIANTS
  StatusIsAnnounced
  OnlyBoughtIsRefunded
