SPECIFICATION Spec
CONSTANTS
  SIZE = 16
  Bytes = {0, 1, 2, 3, 4}
  StartByte = 4
  HeaderSize = 3
  MaxFrame = 4
  KnownCmds = {1, 2}
  MaxChunk = 14
  Wires <- MCWires
INVARIANTS ParserInv RoomForChunk CutsDoNotMatter
PROPERTY ParsingEnds
CHECK_DEADLOCK FALSE
