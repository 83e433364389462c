SPECIFICATION Spec
CONSTANTS
  MaxPend = 1
  MaxTokens = 1
  Commands = {"connect", "nb101_uart1", "disconnect", "post", "switch"}
INVARIANT WholeSentences
CHECK_DEADLOCK FALSE
