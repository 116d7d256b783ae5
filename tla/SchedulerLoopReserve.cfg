SPECIFICATION Spec
CONSTANTS
  Requests = {r1, r2}
  PromptLens = {1, 3}
  TokenLimits = {2}
  NumBlocks = 3
  BlockSize = 2
  MaxAppend = 3
  MaxBatchSize = 2
  MaxBatchTokens = 3
  MaxPrefillTokens = 2
  ReservedBlocks = 1
  MaxSnapshots = 0
INVARIANT ReserveKept
