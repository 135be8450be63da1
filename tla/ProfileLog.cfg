SPECIFICATION LogSpec
CONSTANTS
  Queues = {0, 1, 2}
  interval = 2
  Iteration = 1
  Printing = 1
  Spread = 1
  MaxLost = 1
  MaxClock = 6
CHECK_DEADLOCK FALSE
INVARIANTS
  RoundsArePartition
  LinesAreCounted
  RoundsNear
