SPECIFICATION FairCallsSpec
CONSTANTS
  c1 = c1
  c2 = c2
  c3 = c3
  c4 = c4
  Call = {c1, c2, c3, c4}
  Repeatable = {c1, c2}
  MaxAttempts = 2
  Threshold = 2
INVARIANTS
  CallsTypeOK
  OneProbe
  AnswerIsTrue
PROPERTIES
  ProbeDecides
  EveryCallEnds
  Recovers
