SPECIFICATION Spec
CONSTANTS
  BufSize = 3
  AnswerSizes = {2, 3}
  MaxCalls = 2
  MaxBoots = 2
  MaxDeliveries = 3
INVARIANTS TypeOK AnswerIsWhole AnswerWakes
PROPERTIES BufferStable
CHECK_DEADLOCK FALSE
