SPECIFICATION FairSpec
CONSTANTS
  Clients = {c1, c2}
  N_URBS = 2
  RING_CAPACITY = 2
  MaxBatches = 1
  MaxBatchLen = 3
  MaxXruns = 1
INVARIANTS TypeOK AiredOnceInOrder BatchesContiguous FramesAccounted
PROPERTIES FramesAir
CHECK_DEADLOCK FALSE
