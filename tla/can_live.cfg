SPECIFICATION FairSpec
CONSTANTS
  Items <- MCItems
  Vacant <- MCVacant
  Size = 2
  Classes = {0, 3}
  MaxMessages = 2
  MaxTick = 2
  FifoDepth = 1
  MaxErrors = 1
  TxTimeout = 1
PROPERTIES
  BusyIsLeft
  QueueDrains
CONSTRAINT Intact
CHECK_DEADLOCK FALSE
