CONSTANTS
  c1 = c1
  c2 = c2
  i1 = i1
  Channels = {c1, c2}
  Ids = {i1}
  Listener = Listener
  Async = Async
  MaxNotes = 1
  MaxTasks = 2
  MaxLost = 1
SPECIFICATION FairSpec
INVARIANTS ChannelsAreLive ShutdownIsClean
PROPERTIES StopEndsRun CallIsAnswered NotificationIsSent
CHECK_DEADLOCK FALSE
