SPECIFICATION FairSpec
CONSTANTS
  MaxPend = 1
  MaxTokens = 1
  Commands = {"connect", "nb101_uart1", "disconnect", "post", "switch"}
INVARIANTS
  MutexNotOrphaned
  PointerExact
  LedTruthful
  ReportTruthful
PROPERTIES
  MutexReleased
  ConnectStarts
CHECK_DEADLOCK FALSE
