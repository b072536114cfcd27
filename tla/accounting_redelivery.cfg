SPECIFICATION LiveSpec
CONSTANTS
  Requests = {r1}
  Jobs = {r1}
  MaxTime = 0
  DaysPerWeek = 2
  WeekOffset = 1
  DAILY_WINDOW_SECONDS = 1
  MaxU64 = 100
  NoLimit = NoLimit
  Copies = {c1, c2}
  MaxReceives = 2
  BatchSize = 2
  Retention = 0
  Limits <- MixedLimits
  Budgets = {2}
  Actuals = {0, 3}
  Unreported = Unreported
  Attempts = 2
  Workers = {w1, w2}
  NoMessage = NoMessage
INVARIANTS TypeOK ChargedOnce DoneMeansApplied
PROPERTY HandedOverIsApplied
CHECK_DEADLOCK FALSE
