SPECIFICATION Spec
CONSTANTS
  TickMod = 8
  Heartbeat = 1
  MaxBusy = 2
  MaxLosses = 1
  MaxStops = 1
INVARIANTS TypeOK HeartbeatOnTime ConfirmedReached
PROPERTIES ToldDown BirthAttempted
CHECK_DEADLOCK FALSE
