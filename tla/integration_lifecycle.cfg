SPECIFICATION LiveSpec
CONSTANTS
  None = None
  Alive = Alive
  Killed = Killed
INVARIANTS TeardownOnceAfterDeployment TestsKeepTheirStack ExitCodeIsHonest
PROPERTY InterruptionEnds
CHECK_DEADLOCK FALSE
