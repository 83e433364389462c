SPECIFICATION Spec
CONSTANTS
  idle = idle
  main = main
  a = a
  Thread <- MCThread
  PrioMax = 3
  Queue <- MCQueue
  InitTick = 1
  InitPrio <- MCPrioHigher
  Idle = idle
  Main = main
  Static = {}
  Api = {"create", "startup", "sleep", "wait", "post", "exit", "delete", "critical"}
  MaxNest = 1
  TimedTargets = TRUE
INVARIANTS
  DeletedLeavesQueue
