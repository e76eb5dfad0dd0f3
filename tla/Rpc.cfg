CONSTANTS
  a1 = a1
  a2 = a2
  b1 = b1
  b2 = b2
  n1 = n1
  n2 = n2
  SyncCalls = {a1}
  AsyncCalls = {b1}
  NotifyCalls = {n1, n2}
  FaultSets = {{}, {"silent", "full", "parse"}, {"close", "timeout", "spurious", "silent", "full", "pack"}}
  FaultyCalls = {a1, b1, n1}
  MaxNotes = 1
  MaxConns = 2
  NoCall = NoCall
SPECIFICATION FairSpec
INVARIANTS NoDangling SyncIsAnswered OneRegistration DoneOnce
PROPERTIES StaysRegistered CallsReturn AsyncIsAnswered
CHECK_DEADLOCK FALSE
