CONSTANTS
  w1 = w1
  w2 = w2
  w3 = w3
  Workers = {w1, w2, w3}
  Limits = {0, 2}
  MaxAppends = 4
  MaxStarts = 2
SPECIFICATION FairSpec
INVARIANTS TypeOK WorkIsWoken BegunInOrder
PROPERTIES StopReturns TaskBegins
CHECK_DEADLOCK FALSE
