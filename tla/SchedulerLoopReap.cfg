SPECIFICATION FairSpec
CONSTANTS
  Requests = {r1, r2}
  PromptLens = {1, 3}
  TokenLimits = {2}
  NumBlocks = 2
  BlockSize = 2
  MaxAppend = 3
  MaxBatchSize = 2
  MaxBatchTokens = 3
  MaxPrefillTokens = 2
  ReservedBlocks = 0
  MaxSnapshots = 0
PROPERTY DisconnectedReaped
