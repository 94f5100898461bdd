CONSTANTS
  t1 = t1
  t2 = t2
  t3 = t3
  a = a
  b = b
  Threads = {t1, t2, t3}
  Items = {a}
  NoItem = NoItem
  Capacity = 2
  SizeMod = 8
  ZeroedStorage = TRUE
  MaxTickets = 4
SPECIFICATION HistorySpec
PROPERTY
  FullMeansFull
