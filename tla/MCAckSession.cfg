SPECIFICATION Spec
CONSTANTS
  Clients = {c1, c2}
  IdCount = 3
  MaxRequests = 5
  MaxTelemetry = 1
  ChunkFrames = 2
  MaxCuts = 1
  Status = {ok}
SYMMETRY SameCode
INVARIANTS AnswerIsMine HeadAckIsSeen NoSlotLeaks
CHECK_DEADLOCK FALSE
