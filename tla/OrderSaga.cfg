SPECIFICATION FairSpec
CONSTANTS
  Order = {o1}
  PaymentId = {1, 2}
  PaymentPut = {"settled"}
  ShipmentPut = {"shipped"}
  OrderPut = {"shipped", "confirmed", "cancelled"}
  MaxPut = 1
  MaxAttempts = 2
  CancelInFlight = FALSE
  NULL = NULL
INVARIANTS
  TypeOK
  AcceptedIsArranged
  RefusedLeavesNothing
  HandledIsDone
PROPERTIES
  CancelledIsNotPrepared
  ImplementsLifecycle
  
  
  PaidIsShipped
CHECK_DEADLOCK FALSE
