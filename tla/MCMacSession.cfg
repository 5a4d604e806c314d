SPECIFICATION Spec
CONSTANTS
  AudioEndpoints = {a1, a2}
  ControlEndpoints = {c1}
  None = none
  MaxAttempts = 2
  MaxTasks = 2
  MaxSessions = 2
  MaxGeneration = 2
  MaxEvents = 3
CHECK_DEADLOCK FALSE
INVARIANTS TypeOK StreamNeverOrphaned UncancelledIsCurrent StopSticks StatusIsHonest
PROPERTIES ImplementsSession ReconnectNotPostponed ReconnectSettles
