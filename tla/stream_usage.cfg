SPECIFICATION Spec
CONSTANTS
  MaxChunk = 4
  None = None
  MaxChunkCount = 4
  MaxChunkDelay = 2
  MaxStreamDuration = 13
  MaxTokenCount = 8
  TextLength = 3
  InputTokens = 16
  OutputTokens = 6
  CountModulus = 64
  Controls <- SomeControls
  RawStreams <- AllRawStreams
INVARIANTS EventsIndependentOfChunks StreamChargedLikeBody AnswerIsWhole
CHECK_DEADLOCK FALSE
