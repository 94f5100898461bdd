CONSTANTS
  Consumers = {c1}
  BLOCK_SIZE = 2
  IndexValues = 16
  MaxBlocks = 3
  MaxBulk = 1
  MaxItems = 16
  MaxLag = 7
  EXPLICIT_INITIAL_INDEX_SIZE = 2
  MAX_SUBQUEUE_SIZE = 16
  MemoryMayRunOut = FALSE
  BulkMayFailHalfway = FALSE
  CtorMayThrow = TRUE
SPECIFICATION Spec
INVARIANTS
  SpareBlocksAreEmpty
