SPECIFICATION FairSpec
CONSTANTS
  Orders = {o1, o2}
  Recurring = {o1, o2}
  PlanOf <- MCSamePlan
  Price = 1
  Refunds = {r1}
  EventIds = {e1, e2}
  SupportsRefund = TRUE
  SupportsPartialRefund = TRUE
  FreshRefundIds = FALSE
  MayCrash = TRUE
  ProviderKinds <- AllKinds
  NoEvent = NoEvent
  MaxReturned = 1
INVARIANT SubscriptionsArePaidFor
PROPERTY CaptureIsSettled
CHECK_DEADLOCK FALSE
