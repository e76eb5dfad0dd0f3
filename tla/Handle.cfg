CONSTANTS
  u1 = u1
  u2 = u2
  Threads = {u1, u2}
  Kinds = {"timer", "signal", "server"}
  MaxStarts = 3
  MaxStops = 3
  MaxDepth = 3
SPECIFICATION FairSpec
INVARIANT NeverReinitialised
PROPERTIES CallbacksInOrder StopIsTold
CHECK_DEADLOCK FALSE
