SPECIFICATION ClockSpec
CONSTANTS
  idle = idle
  main = main
  a = a
  x = x
  Thread <- MCThread
  PrioMax = 2
  Queue <- MCQueue
  InitTick = 1
  InitPrio <- MCPrio
  Idle = idle
  Main = main
  Static = {}
  Api = {"create", "startup", "sleep", "wait", "post", "suspend", "resume", "yield"}
  MaxNest = 0
  TimedTargets = FALSE
  Timers <- MCTimers
  TickMod = 14
  AppTimer = {x}
  Delay = {1, 2, 3}
  MaxLate = 2
VIEW MCView
INVARIANTS
  ClockTypeOK
  LinkedIffActive
PROPERTIES
  ImplementsScheduler
  OnTime
