SPECIFICATION Spec
CONSTANTS
  MaxTasks = 3
  MaxListeners = 2
  MaxChanges = 2
INVARIANTS TypeOK RestartIsBacked ListeningIsBacked ControlIsBacked
PROPERTIES RestartSettles ResumesListening
