SPECIFICATION Spec
CONSTANTS
  u1 = u1
  u2 = u2
  u3 = u3
  Updates = {u1, u2, u3}
  Size <- Sizes
  PartitionSize = 4
  HttpBuffer = 2
  MaxAttempts = 3
  MaxStarts = 2
  NoUpdate = NoUpdate
INVARIANTS TypeOK BootVerified ResumesInPlace
PROPERTIES OneUpdate UpdateEnds
CHECK_DEADLOCK FALSE
