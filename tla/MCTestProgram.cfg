CONSTANTS
  s1 = s1  a = a  b = b  c = c  d = d
  Main = main  NoSystem = NoSystem  NoJob = NoJob
  Hardware = 2  Locals = {s1}  Jobs = {a, b, c, d}
  ChildrenOf <- StartingThenEnd
  ThreadAffinity = TRUE  SpawnMayFail = FALSE  Debug = TRUE  Calls = {}
  Local = s1  LocalThreads = 1  Starting = a  Batch = {c, d}
  Keys = {"RETURN", "SHIFT", "SPACE"}
SPECIFICATION TestSpec
CHECK_DEADLOCK FALSE
INVARIANTS
  NoFaultInProgram
  BatchIsNotCanceled
PROPERTIES
  ProgramEnds
  ReleasedThreadsReturn
