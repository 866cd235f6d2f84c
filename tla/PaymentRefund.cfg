SPECIFICATION Spec
CONSTANTS
  o1 = o1
  o2 = o2
  k1 = k1
  k2 = k2
  Order = {o1}
  Key = {k1}
  OrderOf <- OneOrder
  PaymentId = {1}
  PutStatus = {"settled"}
  MaxPut = 2
  NULL = NULL
PROPERTIES
  CompensationComplete
CHECK_DEADLOCK FALSE
