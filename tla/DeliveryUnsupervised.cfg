SPECIFICATION FairSpec
CONSTANTS
  q1 = q1
  MaxRow = 1
  Relay = {r1}
  Queue = {q1}
  Consumer = {c1}
  QueueOf <- OneQueue
  Supervised = {}
  Batch = 1
  ReceiveMax = 1
  MaxReceive = 2
  MaxSend = 2
  MaxFaults = 1
PROPERTIES
  EveryEventHandled
CHECK_DEADLOCK FALSE
