SPECIFICATION FairSpec
CONSTANTS
  m1 = m1
  m2 = m2
  Messages = {m1, m2}
  MaxSteps = 3
  MaxRx = 4
  MaxDelay = 1
  Configs <- AllConfigs
INVARIANTS
  TypeOK
  StaleSequenceOnlyAfterFault
  RunningSequenceIsStarted
  MainSequenceAlwaysRuns
  CommandRunsAlone
PROPERTIES
  EmergencyLatched
  FailedSequenceStaysDown
  ImplementsStateMachine
  OneShotStateIsLeft
  MainLoopReturns
