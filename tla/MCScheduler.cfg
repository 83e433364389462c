SPECIFICATION FairSpec
CONSTANTS
  idle = idle
  main = main
  a = a
  Thread <- MCThread
  PrioMax = 3
  Queue <- MCQueue
  InitTick = 2
  InitPrio <- MCPrioHigher
  Idle = idle
  Main = main
  Static = {a}
  Api = {"create", "startup", "resume", "sleep", "wait", "suspend", "post", "yield", "exit", "delete", "control", "critical"}
  MaxNest = 1
  TimedTargets = FALSE
INVARIANTS
  TypeOK
  BitmapExact
  ReadyListsExact
  WaitListsExact
  OneRunning
  TimerMeansSuspended
PROPERTIES
  SwitchesToHighest
  StrictPreemption
  RoundRobin
