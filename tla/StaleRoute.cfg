SPECIFICATION Spec
CONSTANTS
  AudioEndpoints = {a1, a2}
  ControlEndpoints = {c1}
  None = none
  MaxAttempts = 1
  MaxTasks = 2
  MaxSessions = 2
  MaxGeneration = 2
  MaxEvents = 4
CHECK_DEADLOCK FALSE
INVARIANT FollowsTheReceiver
