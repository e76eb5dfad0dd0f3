CONSTANTS
  u1 = u1
  u2 = u2
  t1 = t1
  t2 = t2
  s1 = s1
  s2 = s2
  Threads = {u1, u2}
  Loop = L
  Tasks = {t1, t2}
  StopTasks = {s1, s2}
  MaxRuns = 1
  NoThread = NoThread
  NoItem = NoItem
SPECIFICATION Spec
INVARIANTS NoUseAfterClose
CHECK_DEADLOCK FALSE
