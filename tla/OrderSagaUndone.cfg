SPECIFICATION FairSpec
CONSTANTS
  Order = {o1}
  PaymentId = {1, 2}
  PaymentPut = {"settled"}
  ShipmentPut = {"shipped"}
  OrderPut = {"shipped", "confirmed", "cancelled"}
  MaxPut = 1
  MaxAttempts = 2
  CancelInFlight = TRUE
  NULL = NULL
PROPERTIES
  TwiceUndoneIsUndone
CHECK_DEADLOCK FALSE
