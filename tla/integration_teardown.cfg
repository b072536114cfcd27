SPECIFICATION Spec
CONSTANTS
  None = None
  Alive = Alive
  Killed = Killed
INVARIANT AlwaysAttemptsTeardown
CHECK_DEADLOCK FALSE
