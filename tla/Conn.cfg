CONSTANTS
  u1 = u1
  u2 = u2
  Threads = {u1, u2}
  MaxSendBuf = 2
  FaultSets = {{"write_error"}, {"connect_error", "stop_connecting", "write_error"}}
  MaxStarts = 2
  MaxSends = 3
  MaxTasks = 2
  MaxDepth = 3
SPECIFICATION FairSpec
INVARIANTS TypeOK NoCrashOnceUp OneWriteInFlight QueueMoves WrittenInOrder
PROPERTIES CallbacksInOrder StopIsReported QueueDrains
CHECK_DEADLOCK FALSE
