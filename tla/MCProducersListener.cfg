CONSTANTS
  Threads = {t1, t2}
  Ids = {1, 2}
  HashOf <- MCHashOf
  Tokens = {}
  NoToken = NoToken
  INITIAL_IMPLICIT_PRODUCER_HASH_SIZE = 2
  MemoryMayRunOut = FALSE
  ThreadLocalSupported = TRUE
SPECIFICATION Spec
SYMMETRY Symmetry
INVARIANTS
  NoListenerIsLeft
