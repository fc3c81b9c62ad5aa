SPECIFICATION Spec
CONSTANTS
  BufSize = 3
  AnswerSizes = {2, 3}
  MaxCalls = 2
  MaxBoots = 1
  MaxDeliveries = 3
INVARIANTS UnansweredTimesOut
CHECK_DEADLOCK FALSE
