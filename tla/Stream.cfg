CONSTANTS
  Byte <- MCByte
  Zero <- MCZero
  initialSize = 2
  InitSizes = {2}
  MaxRequest = 2
  HeaderLen = 2
  Lengths = {3, 7, 8}
  MaxMessages = 3
  MaxConns = 2
SPECIFICATION FairSpec
INVARIANTS InSync NoFalseStop
PROPERTY MessageIsProcessed
CHECK_DEADLOCK FALSE
