SPECIFICATION Spec
CONSTANTS
  Requests = {r1}
  Jobs = {r1}
  MaxTime = 10
  DaysPerWeek = 2
  WeekOffset = 1
  DAILY_WINDOW_SECONDS = 2
  MaxU64 = 100
  NoLimit = NoLimit
  Copies = {c1}
  MaxReceives = 1
  BatchSize = 2
  Retention = 2
  Limits <- MixedLimits
  Budgets = {2}
  Actuals = {3}
  Unreported = Unreported
  Attempts = 1
  Workers = {w1}
  NoMessage = NoMessage
INVARIANTS EffectiveTotal ReservedHasOwner
PROPERTY ImplementsLedger
CHECK_DEADLOCK FALSE
