SPECIFICATION SessionSpec
CONSTANTS
  AppWords = 4
  ConfigWords = 2
  BootTimeout = 1
  ForceTimeout = 2
  ProgrammingTimeout = 1
  InboxSize = 1
  OutboxSize = 1
  MaxMishaps = 0
  AppImage = 3
  ConfigImage = 1
  HostLinks = {"can"}
  StartTries = 2
  ReadySends = 1
  DataTries = 2
  DoneTries = 1
  MaxSessions = 1
  MaxStrays = 0
PROPERTIES
  NoPrematureJump
CHECK_DEADLOCK FALSE
