SPECIFICATION RateSpec
CONSTANTS
  Requests = {r1, r2, r3, r4}
  Limit = 2
  Window = 3
  MaxTime = 8
  MaxDelay = 3
  SdkAttempts = 2
SYMMETRY RequestSymmetry
INVARIANTS AdmittedWithinLimit RefusedOnlyAtLimit
CHECK_DEADLOCK FALSE
