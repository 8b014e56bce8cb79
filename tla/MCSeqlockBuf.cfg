SPECIFICATION Spec
CONSTANTS
  Cells = 2
  MaxWrites = 3
INVARIANT NoTornRead
