SPECIFICATION Spec
CONSTANTS
  Keys = {k1, k2}
  FundKeys = {a1}
  Requests = {p1, p2}
  Price = 2
  Funds = 4
  Commission = 1
  AllowNegative = FALSE
  MayCrash = TRUE
  MaxTerms = 2
  None = None
SYMMETRY Symmetry
INVARIANTS
  WalletBalances
  RenewalsArePaid
  CommissionSettles
