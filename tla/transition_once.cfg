SPECIFICATION Spec
CONSTANTS
  m1 = m1
  m2 = m2
  Messages = {m1, m2}
  MaxSteps = 3
  MaxRx = 1
  MaxDelay = 1
  Configs <- SelfMovingInit
PROPERTIES
  TransitionRunsOnEntry
