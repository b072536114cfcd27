SPECIFICATION ServingSpec
CONSTANTS
  Streams = {s1, s2}
  Holders = {s1, s2}
  MaxStreams = 1
  Capacity = 1
  MaxChunks = 2
  Reports <- OpenAiReports
  Unreported = Unreported
PROPERTIES SlotsComeBack ClientsAreAnswered
CHECK_DEADLOCK FALSE
