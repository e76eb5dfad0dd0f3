CONSTANTS
  Byte = {0, 1}
  Zero = 0
  initialSize = 2
  InitSizes = {1, 2, 9}
  MaxRequest = 3
SPECIFICATION Spec
INVARIANTS TypeOK RoomIsMade
PROPERTY IsQueue
CHECK_DEADLOCK FALSE
