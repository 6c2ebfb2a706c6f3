SPECIFICATION Spec
CONSTANTS
  Calls = {"poll"}
  ChanCap = 2
  SockCap = 4
  StatsEvery = 2
  MaxFrames = 2
  MaxEvents = 1
  MaxAsks = 1
INVARIANTS InSync
CHECK_DEADLOCK FALSE
