SPECIFICATION FairSpec
CONSTANTS
  Calls = {"audio", "stats", "wait", "poll", "poll_event"}
  ChanCap = 2
  SockCap = 3
  StatsEvery = 2
  MaxFrames = 3
  MaxEvents = 1
  MaxAsks = 1
INVARIANTS TypeOK MisframedOnlyAfterCut FrameNotOlder
PROPERTIES CallReturns PollReturns
CHECK_DEADLOCK FALSE
