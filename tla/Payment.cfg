SPECIFICATION Spec
CONSTANTS
  o1 = o1
  o2 = o2
  k1 = k1
  k2 = k2
  Order = {o1, o2}
  Key = {k1, k2}
  OrderOf <- TwoOrders
  PaymentId = {1, 2, 3}
  PutStatus = {"settled", "captured", "failed", "pending"}
  MaxPut = 2
  NULL = NULL
INVARIANTS
  NoDoubleCharge
  RefundsBacked
CHECK_DEADLOCK FALSE
