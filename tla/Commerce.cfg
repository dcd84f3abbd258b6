SPECIFICATION Spec
CONSTANTS
  Orders = {o1}
  Recurring = {}
  PlanOf <- MCSamePlan
  Price = 3
  Refunds = {r1, r2}
  EventIds = {e1, e2, e3}
  SupportsRefund = TRUE
  SupportsPartialRefund = FALSE
  FreshRefundIds = TRUE
  MayCrash = TRUE
  ProviderKinds <- AllKinds
  NoEvent = NoEvent
  MaxReturned = 4
SYMMETRY Symmetry
INVARIANTS
  RowsAgree
  RefundsAreBacked
PROPERTY ImplementsContract
CHECK_DEADLOCK FALSE
