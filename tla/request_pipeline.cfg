SPECIFICATION LiveSpec
CONSTANTS
  Requests = {r1, r2}
  Holders = {r1, r2}
  MaxStreams = 1
  Budget = 2
  Usages = {1, 3}
  Unreported = Unreported
  NoAnswer = NoAnswer
INVARIANTS CallsAreCovered ClientErrorsAreFree
PROPERTY SlotsComeBack
CHECK_DEADLOCK FALSE
