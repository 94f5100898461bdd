CONSTANTS
  x0 = x0  x1 = x1  x2 = x2  x3 = x3  NoToken = NoToken
  p1 = p1  p2 = p2  p3 = p3  q1 = q1  Nobody = Nobody
  Threads = {x1, x2, x3}  PoolSize = 1  MaxBlocks = 2  SHOULD_BE_ON_FREELIST = 8  Fair = {}

SPECIFICATION PartsSpec
SYMMETRY Symmetry

INVARIANTS
  SubQueuesInv
  FreeListInv
  ProducersInv
  ExitsInv
PROPERTIES
  SubQueuesAreFIFO
  FreeListIsPool
