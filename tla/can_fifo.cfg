SPECIFICATION Spec
CONSTANTS
  Items <- MCItems
  Vacant <- MCVacant
  Size = 3
  Classes = {0, 1, 6}
  MaxArrivals = 5
  FifoDepth = 2
  MaxPerInterrupt = 2
  MaxPerTick = 2
INVARIANTS
  HighPriorityInFifo0
CHECK_DEADLOCK FALSE
