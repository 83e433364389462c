SPECIFICATION Spec
CONSTANTS
  idle = idle
  hi = hi
  t1 = t1
  t2 = t2
  lo = lo
  Thread <- MCThread
  PrioMax = 4
  Queue = {"recv", "send", "m1"}
  InitTick = 1
  InitPrio <- MCPrio
  Idle = idle
  Caller = {hi, t1, t2}
  Sleeper = {hi}
  Bounded = {TRUE, FALSE}
  Api = {"recv", "send", "urgent", "reset", "delete", "isr"}
  Kind = {"dataqueue"}
  Mutexes = {"m1"}
  NoThread = none
  MaxHold = 2
  MutexCaller = {hi, t1, lo}
  InitValue = 1
  ValueMod = 4
  MaxTotal = 2
  e1 = e1
  e2 = e2
  Bit = {e1, e2}
  Request <- MCRequest
  Msg = {m1, m2}
  NoMsg = nomsg
  Cap = 2
  Null = null
  Lwm = 0
  IndexMod = 4
  MaxPut = 4
  Block = {b1, b2}
  MaxHeld = 2
  MaxCount = 4
INVARIANT NeverOverfull
