SPECIFICATION MCSpec
CONSTANTS
  Events = {paid, note}
  Immortal = {paid}
  HandlersOf <- MCHandlersOf
  Dispatchers = {d1, d2}
  Limit = 2
  maxAttempts = 2
  MaxTrouble = 2
  Orders = {o1, o2}
  NoOrder = NoOrder
  MaxTerms = 3
INVARIANTS
  AccessWasBought
  PurchaseGivesAccess
  RefundEndsAccess
PROPERTIES
  KeepsPromise
  DeliveredInTheEnd
CHECK_DEADLOCK FALSE
