SPECIFICATION Spec
CONSTANTS
  Arms = {a1, a2}
  First = a1
  Positions = {1}
  FirstModes = {"Drag"}
  MaxWire = 2
  MaxQueue = 1
  Running = {"echo", "gripper", "sine", "python"}
  MaxPolls = 2
  MaxOps = 5
  a1 = a1
  a2 = a2
INVARIANTS LifecycleInv GoodbyeIsLast ModeAtTheEnd JointCommandsInPc
PROPERTIES SignalEndsProgram
CHECK_DEADLOCK FALSE
