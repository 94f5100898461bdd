CONSTANTS
  w1 = w1
  w2 = w2
  c1 = c1
  c2 = c2
  a = a
  b = b
  c = c
  NoJob = NoJob
  s1 = s1
  s2 = s2
  Workers = {w1, w2}
  Clients = {c1}
  Main = c1
  Jobs = {a, b}
  Systems = {s1}
  Capacity <- Two
  SizeMod = 8
  WaitsOn <- NobodyWaits
  JobPriorities = {"Low"}
  MaxWaitList = 1
SPECIFICATION Spec
CHECK_DEADLOCK FALSE
PROPERTY
  WaitForAllFinishesJobs
