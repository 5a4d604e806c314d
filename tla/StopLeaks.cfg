SPECIFICATION Spec
CONSTANTS
  MaxTasks = 2
  MaxListeners = 2
  MaxChanges = 1
INVARIANT StopCloses
