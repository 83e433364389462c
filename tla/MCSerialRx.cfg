SPECIFICATION FairSpec
CONSTANTS
  b1 = b1
  b2 = b2
  NoByte = NoByte
  Byte = {b1, b2}
  BufSz = 4
  ValueMod = 8
  MaxBytes = 7
INVARIANTS
  TypeOK
  NoLostWakeup
PROPERTIES
  ImplementsQueue
  Drained
CHECK_DEADLOCK FALSE
