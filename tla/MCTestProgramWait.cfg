CONSTANTS
  s1 = s1
  a = a
  b = b
  c = c
  d = d
  Main = main
  NoSystem = NoSystem
  NoJob = NoJob
  Hardware = 2
  Locals = {s1}
  Jobs = {a, b, c, d}
  ChildrenOf <- StartingThenEnd
  ThreadAffinity = TRUE
  SpawnMayFail = FALSE
  Debug = TRUE
  Calls = {}
  Local = s1
  LocalThreads = 2
  Starting = a
  Batch = {c, d}
  Keys = {"SHIFT", "SPACE"}
SPECIFICATION TestSpec
CHECK_DEADLOCK FALSE
PROPERTIES
  BatchIsAwaited
