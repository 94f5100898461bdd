CONSTANTS
  t1 = t1
  t2 = t2
  t3 = t3
  a = a
  b = b
  Threads = {t1, t2, t3}
  Items = {a, b}
  NoItem = NoItem
  Capacity = 2
  SizeMod = 8
  ZeroedStorage = TRUE
  MaxTickets = 3
SPECIFICATION Spec
SYMMETRY Symmetry
INVARIANTS
  QueueInv
  ExclusiveCells
  NoStaleReference
  SizeCountsItems
PROPERTIES
  ImplementsFIFO
