SPECIFICATION Spec
CONSTANTS
  MaxStatus = 2
  MaxTriggers = 2
  ChunkFrames = 2
  MaxRuns = 2
  MaxStops = 1
  Restarts = 1
  MaxReads = 1
  Capacity = 1
INVARIANTS PipelineInv QueuedOnce TimelineFollows TriggersQueued AtMostOneMoreCallback
PROPERTIES PipelineIsStream StopEndsLoop QueuedIsTaken
CHECK_DEADLOCK FALSE
