SPECIFICATION ShutdownSpec
CONSTANTS
  Streams = {s1}
  Holders = {s1}
  MaxStreams = 1
  Capacity = 2
  MaxChunks = 4
  Reports <- AnthropicReports
  Unreported = Unreported
INVARIANTS ClientIsNotMisled ChargesWhatWasReported EndMeansSettled RelaysSettle
PROPERTY ShutdownDrains
CHECK_DEADLOCK FALSE
