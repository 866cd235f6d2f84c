SPECIFICATION FairSpec
CONSTANTS
  a = a
  b = b
  Order = {o1, o2}
  Product = {a, b}
  Request <- MixedRequests
  TTL = 1
  MaxTime = 1
  MaxStock = 1
  NULL = NULL
INVARIANTS
  OneOutcome
  OnlyReservedHasRows
  OversoldOnlyByLateConfirm
PROPERTIES
  LifecycleSpec
  ReaperIsInvisible
  
  ReserveEnds
  LapsedIsReaped
CHECK_DEADLOCK FALSE
