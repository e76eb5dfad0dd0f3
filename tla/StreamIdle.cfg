CONSTANTS
  Byte <- MCByte
  Zero <- MCZero
  initialSize = 4
  InitSizes = {4}
  MaxRequest = 4
  HeaderLen = 2
  Lengths = {3, 4}
  MaxMessages = 2
  MaxConns = 1
SPECIFICATION StreamSpec
INVARIANT ContinuesToReceive
CHECK_DEADLOCK FALSE
