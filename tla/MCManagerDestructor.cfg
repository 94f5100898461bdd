CONSTANTS
  s1 = s1
  s2 = s2
  a = a
  b = b
  Main = main
  NoSystem = NoSystem
  NoJob = NoJob
  Hardware = 2
  Locals = {s1, s2}
  Jobs = {a, b}
  ChildrenOf <- AThenB
  ThreadAffinity = FALSE
  SpawnMayFail = FALSE
  Debug = TRUE
  AnyCalls = {}
  Calls = {"init", "create", "reserve", "release", "schedule", "drop", "shutdown", "destroy", "destroyMany"}
SPECIFICATION EitherSpec
CHECK_DEADLOCK FALSE
PROPERTIES
  DestructorFindsSystems
