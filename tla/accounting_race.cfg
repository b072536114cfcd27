SPECIFICATION Spec
CONSTANTS
  Requests = {r1, r2}
  Jobs = {r1, r2}
  MaxTime = 1
  DaysPerWeek = 2
  WeekOffset = 0
  DAILY_WINDOW_SECONDS = 1
  MaxU64 = 100
  NoLimit = NoLimit
  Copies = {c1}
  MaxReceives = 1
  BatchSize = 2
  Retention = 1
  Limits <- OneLimit
  Budgets = {2}
  Actuals = {1, 3}
  Unreported = Unreported
  Attempts = 1
  Workers = {w1}
  NoMessage = NoMessage
SYMMETRY RequestSymmetry
INVARIANTS WithinLimits
PROPERTY ImplementsLedger
CHECK_DEADLOCK FALSE
