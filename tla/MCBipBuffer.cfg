SPECIFICATION CallsSpec
CONSTANTS
  SIZE = 4
  Bytes = {0, 1}
  Lengths <- UpToSize
  WrongCommits <- UpToSize
INVARIANTS CallsTypeOK
PROPERTY IsFifo
