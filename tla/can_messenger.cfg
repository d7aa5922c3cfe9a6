SPECIFICATION Spec
CONSTANTS
  Items <- MCItems
  Vacant <- MCVacant
  Size = 3
  Classes = {0, 3}
  MaxMessages = 4
  MaxTick = 2
  FifoDepth = 2
  MaxErrors = 1
  TxTimeout = 1
INVARIANTS
  TypeOK
  CountersAgree
  MessagesAccountedFor
  OnlyRetriesAreOvertaken
  FramesKeepTheirHeader
  FlagTellsState
CONSTRAINT Intact
ACTION_CONSTRAINT LastOverflows
CHECK_DEADLOCK FALSE
