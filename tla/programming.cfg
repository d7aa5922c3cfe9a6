SPECIFICATION SessionSpec
CONSTANTS
  AppWords = 4
  ConfigWords = 2
  BootTimeout = 1
  ForceTimeout = 2
  ProgrammingTimeout = 1
  InboxSize = 1
  OutboxSize = 1
  MaxMishaps = 1
  AppImage = 3
  ConfigImage = 1
  HostLinks = {"can"}
  StartTries = 2
  ReadySends = 1
  DataTries = 2
  DoneTries = 1
  MaxSessions = 2
  MaxStrays = 1
INVARIANTS
  TypeOK
  UnlockedOnlyInProgress
  NoForeignWords
  NoHoles
  AcknowledgedWordsAreSafe
  CompleteMeansWhole
PROPERTIES
  TouchedOnlyInProgress
CONSTRAINT Troubles
CHECK_DEADLOCK FALSE
