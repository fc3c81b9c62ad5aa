SPECIFICATION Spec
CONSTANTS
  s1 = s1
  s2 = s2
  r1 = r1
  r2 = r2
  r3 = r3
  r4 = r4
  Slots = {s1, s2}
  Requests = {r1, r2, r3, r4}
  Msg <- MixedMsg
  PayloadMax = 2
  MaxDeliveries = 3
  MaxFaults = 2
  NoSlot = NoSlot
  NoRequest = NoRequest
INVARIANTS TypeOK SlotsConserved NoLostWakeup SettledOnce AnswersMatch
PROPERTIES DropOnlyWhenBusy ServiceSpec
CHECK_DEADLOCK FALSE
