CONSTANTS
  p1 = p1
  p2 = p2
  p3 = p3
  p4 = p4
  q1 = q1
  q2 = q2
  t1 = t1
  t2 = t2
  t3 = t3
  Null = Null
  Threads = {t1, t2}
  Queues = {q1, q2}
  ProducersOf <- TwoEach
SPECIFICATION Spec
CHECK_DEADLOCK FALSE
INVARIANTS
  OneOwner
