SPECIFICATION FairSpec
CONSTANTS
  Clients = {c1}
  ChanCap = 2
  SockCap = 1
  StatsEvery = 2
  Requests <- MCRequests
  MaxRadio = 2
  MaxAudio = 2
  MaxRequests = 2
INVARIANTS TypeOK FdFirst ExactlyOnceInOrder
PROPERTIES Cleanup AcceptedIsRead ImplementsQueue
CHECK_DEADLOCK FALSE
