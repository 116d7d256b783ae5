SPECIFICATION MCSpec
CONSTANTS
  NumBlocks = 3
  BlockSize = 2
  NumLayers = 2
  MaxAppend = 3
  MaxIds = 2
  MaxLen = 5
INVARIANTS PoolConsistent RowsIntact PassesCompute PassesLeaveCachesRight
PROPERTIES ImplementsAccounting QuantizedIntact OpsInOrder
CHECK_DEADLOCK FALSE
