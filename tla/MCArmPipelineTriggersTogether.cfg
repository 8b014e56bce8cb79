SPECIFICATION Spec
CONSTANTS
  MaxStatus = 1
  MaxTriggers = 2
  ChunkFrames = 2
  MaxRuns = 0
  MaxStops = 0
  Restarts = 0
  MaxReads = 0
  Capacity = 2
INVARIANT TriggersNotCollapsed
CHECK_DEADLOCK FALSE
