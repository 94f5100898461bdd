CONSTANTS
  Consumers = {c1}
  BLOCK_SIZE = 2
  IndexValues = 32
  MaxBlocks = 3
  MaxBulk = 3
  MaxItems = 6
  MaxLag = 13
  EXPLICIT_INITIAL_INDEX_SIZE = 2
  MAX_SUBQUEUE_SIZE = 32
  MemoryMayRunOut = TRUE
  BulkMayFailHalfway = TRUE
  CtorMayThrow = FALSE
SPECIFICATION Spec
INVARIANTS
  FindsItsItem
