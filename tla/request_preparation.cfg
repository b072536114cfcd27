SPECIFICATION MCSpec
CONSTANTS
  MaxKeyBytes = 3
  MaxDepth = 3
  OpenAiMembers <- SomeOpenAiMembers
  AnthropicMembers <- SomeAnthropicMembers
  MaxSections = 3
  ChunkSections = 2
  Capacity = 1
  DefaultLimit = 4
  ImageReserve = 10
  MaxSpooled = 4
  MaxSpooledAnthropic = 2
  MaxU64 = 25
INVARIANTS FilterFollowsDocument RefusedExactlyBeyondLimits NothingLost PreparedMeansComplete OpenAiStreamsWithUsage OpenAiBoundIsBudgeted OpenAiRestIsUntouched AnthropicReadsTheSame AnthropicBudgetCovers
PROPERTY PreparationEnds
CHECK_DEADLOCK FALSE
