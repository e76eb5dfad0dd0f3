CONSTANTS
  a1 = a1
  a2 = a2
  b1 = b1
  b2 = b2
  n1 = n1
  n2 = n2
  SyncCalls = {a1}
  AsyncCalls = {}
  NotifyCalls = {}
  FaultSets = {{"timeout", "silent"}}
  FaultyCalls = {a1}
  MaxNotes = 0
  MaxConns = 1
  NoCall = NoCall
SPECIFICATION Spec
INVARIANT SyncHasAnswer
CHECK_DEADLOCK FALSE
