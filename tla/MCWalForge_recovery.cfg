SPECIFICATION FairSpec
CONSTANTS
  MaxSegmentSize = 6
  FirstBuffer = 5
  LaterBuffer = 3
  TimeRotation = TRUE
  MaxLog = 4
  MaxSeg = 2
  MaxRuns = 3
INVARIANTS TypeOK NoHoleInARun SegmentsInOrder ReplayedOnce FirstRecoveryIsPrefix
PROPERTY Durable
CHECK_DEADLOCK FALSE
