SPECIFICATION FairSpec
CONSTANTS
  Items <- MCItems
  Vacant <- MCVacant
  Size = 3
  Classes = {0, 1, 6}
  MaxArrivals = 5
  FifoDepth = 2
  MaxPerInterrupt = 2
  MaxPerTick = 2
INVARIANTS
  TypeOK
  FramesAccountedFor
  HandledInOrder
PROPERTIES
  FifosAreEmptied
  QueueIsHandled
CHECK_DEADLOCK FALSE
