SPECIFICATION FairSpec
CONSTANTS
  N_URBS = 3
  RING_CAPACITY = 2
  MaxPackets = 6
INVARIANTS TypeOK FramesInOrder NothingUncounted
PROPERTIES PacketsSettle
CHECK_DEADLOCK FALSE
