SPECIFICATION Spec
CONSTANTS
  Requests = {r1, r2, r3}
  PromptLens = {1, 3}
  TokenLimits = {3}
  NumBlocks = 3
  BlockSize = 1
  MaxAppend = 3
  MaxBatchSize = 2
  MaxBatchTokens = 3
  MaxPrefillTokens = 2
  ReservedBlocks = 0
  MaxSnapshots = 1
INVARIANTS HandlesMatchCache BatchesBounded ClientsServed CacheFollows
SYMMETRY RequestSymmetry
