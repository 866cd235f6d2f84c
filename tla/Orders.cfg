SPECIFICATION FairSpec
CONSTANTS
  Product = {p1}
  Cents = {1, 3}
  Request = {r1, r2, r3}
  p1 = p1
  Cart <- Carts
  Status = {"shipped", "cancelled"}
  MaxOrder = 1
  MaxCheckout = 1
  Half32 = 2
  Half64 = 8
  NULL = NULL
INVARIANTS
  TypeOK
  CancelAnswered
  ReadIsWhole
  AcceptedIsConsistent
PROPERTIES
  CancelOnce
  ImplementsLifecycle
  EveryRequestEnds
CHECK_DEADLOCK FALSE
