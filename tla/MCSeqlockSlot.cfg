SPECIFICATION Spec
CONSTANTS
  Readers = {r1, r2}
  Cells = 2
  Lengths = {1, 3}
  Overruns = {1}
  MaxWrites = 2
  MaxOverruns = 1
INVARIANT NoTornRead
PROPERTIES SlotIsRegister GetReturns
