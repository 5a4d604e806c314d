SPECIFICATION Spec
CONSTANTS
  MinAhead = 1
  MaxAhead = 3
  MaxLatency = 4
  Spare = 1
  MaxQueued = 6
INVARIANTS TypeOK ScheduleCountExact SuspendedWhileListening
PROPERTIES BacklogFirst
