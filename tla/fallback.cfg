SPECIFICATION Spec
CONSTANTS
  Daemons = {d1}
  Requests <- RouteRequests
  MessageTokens = {2}
  ReplyTokens = {}
  HeaderTokens = 1
  FallbackMaxTokens = 4
  FallbackSuffixTokens = 1
  EventTokens = 1
  FreshTailCount = 1
  LeafChunkTokens = 3
  LeafMinFanout = 2
  CondensedMinFanout = 2
  CondensedMinFanoutHard = 1
  CondensedTargetTokens = 2
  IncrementalMaxDepth = 2
  ThresholdTokens = 3
  TargetTokens = 3
  MaxRounds = 2
  MaxTranscript = 2
  MaxRuns = 1
PROPERTIES PassSavesTokens
CHECK_DEADLOCK FALSE
