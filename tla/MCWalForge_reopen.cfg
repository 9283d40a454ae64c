SPECIFICATION Spec
CONSTANTS
  MaxSegmentSize = 6
  FirstBuffer = 5
  LaterBuffer = 3
  TimeRotation = TRUE
  MaxLog = 4
  MaxSeg = 1
  MaxRuns = 3
INVARIANT ReplayInLogOrder
CHECK_DEADLOCK FALSE
