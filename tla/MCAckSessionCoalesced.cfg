SPECIFICATION Spec
CONSTANTS
  Clients = {c1}
  IdCount = 3
  MaxRequests = 5
  MaxTelemetry = 1
  ChunkFrames = 2
  MaxCuts = 0
  Status = {ok, failed}
INVARIANT ReceivedAckIsSeen
CHECK_DEADLOCK FALSE
