SPECIFICATION Spec
CONSTANTS
  MaxOps = 2
  MaxFaults = 1
INVARIANT NoFalseAlarm
INVARIANT HealthyIsWatched
INVARIANT ConflictStopsRelay
PROPERTY ShutdownEnds
CHECK_DEADLOCK FALSE
