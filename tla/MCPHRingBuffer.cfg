SPECIFICATION Spec
CONSTANTS
  Capacity = 3
  MaxRequest = 4
  MaxFrames = 10
INVARIANTS TypeOK NoDataRace CountsStayCovered
PROPERTY ImplementsFifo
