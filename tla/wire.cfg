SPECIFICATION Spec
CONSTANTS
  Base = 8
  Samples = 6
  MaxFrames = 31
  Bits = 3
  Pct = 2
  MaxLen = 31
  SockCap = 2
  StatsEvery = 4
  Requests <- MCRequests
  Notices <- MCNotices
  Elapsed = {0, 3, 6}
  Cuts = {0, 3, 4, 9}
  Counters <- MCCounters
  MaxRequests = 2
  MaxNotices = 1
  MaxWindows = 2
INVARIANTS TypeOK Intact StatsOfOneWindow
CHECK_DEADLOCK FALSE
