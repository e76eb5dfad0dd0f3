CONSTANTS
  u1 = u1
  u2 = u2
  t1 = t1
  t2 = t2
  s1 = s1
  s2 = s2
  Threads = {u1, u2}
  Loop = L
  Tasks = {t1, t2}
  StopTasks = {s1, s2}
  MaxRuns = 2
  NoThread = NoThread
  NoItem = NoItem
SPECIFICATION FairSpec
INVARIANTS TypeOK NoLostWakeup NothingStranded
PROPERTIES ExecutesInOrder StopEndsRun TaskRuns
CHECK_DEADLOCK FALSE
