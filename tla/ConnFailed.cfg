CONSTANTS
  u1 = u1
  u2 = u2
  Threads = {u1}
  MaxSendBuf = 2
  FaultSets = {{"connect_error"}}
  MaxStarts = 1
  MaxSends = 2
  MaxTasks = 3
  MaxDepth = 3
SPECIFICATION Spec
INVARIANT NoCrash
CHECK_DEADLOCK FALSE
