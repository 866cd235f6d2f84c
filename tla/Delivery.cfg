SPECIFICATION FairSpec
CONSTANTS
  q1 = q1
  MaxRow = 2
  Relay = {r1}
  Queue = {q1}
  Consumer = {c1}
  QueueOf <- OneQueue
  Supervised = {c1}
  Batch = 2
  ReceiveMax = 2
  MaxReceive = 2
  MaxSend = 3
  MaxFaults = 2
INVARIANTS
  TypeOK
  NothingLost
PROPERTIES
  ImplementsBus
CHECK_DEADLOCK FALSE
