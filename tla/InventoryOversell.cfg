SPECIFICATION Spec
CONSTANTS
  a = a
  b = b
  Order = {o1, o2}
  Product = {a}
  Request <- SingleRequests
  TTL = 1
  MaxTime = 2
  MaxStock = 1
  NULL = NULL
INVARIANT NoOversell
CHECK_DEADLOCK FALSE
