SPECIFICATION Spec
CONSTANTS
  Daemons = {d1}
  Requests <- RouteRequests
  MessageTokens = {1, 2}
  ReplyTokens = {1}
  HeaderTokens = 1
  FallbackMaxTokens = 2
  FallbackSuffixTokens = 1
  EventTokens = 1
  FreshTailCount = 1
  LeafChunkTokens = 3
  LeafMinFanout = 2
  CondensedMinFanout = 2
  CondensedMinFanoutHard = 1
  CondensedTargetTokens = 2
  IncrementalMaxDepth = 2
  ThresholdTokens = 3
  TargetTokens = 3
  MaxRounds = 2
  MaxTranscript = 5
  MaxRuns = 2
INVARIANTS TypeOK ChunkFresh ContextTiles LineageTiles SummariesReferenced CountsExact
PROPERTIES Lossless FreshTailProtected
CHECK_DEADLOCK FALSE
