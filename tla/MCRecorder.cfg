SPECIFICATION Spec
CONSTANTS
  Capacity = 2
  MaxTriggers = 3
  MaxFrames = 3
  MaxSessions = 2
  MaxTime = 1
INVARIANTS RecorderInv TriggersUsedOnce FramesInOrder RecordsAccounted
PROPERTIES StopReturns
CHECK_DEADLOCK FALSE
