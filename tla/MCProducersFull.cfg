CONSTANTS
  Threads = {t1}
  Ids = {1, 2, 4, 5, 6, 7, 8, 11}
  HashOf <- MCHashOf
  Tokens = {}
  NoToken = NoToken
  INITIAL_IMPLICIT_PRODUCER_HASH_SIZE = 4
  MemoryMayRunOut = FALSE
  ThreadLocalSupported = TRUE
SPECIFICATION Spec
SYMMETRY Symmetry
INVARIANTS
  SomeSlotIsFree
