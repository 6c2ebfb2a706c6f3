SPECIFICATION FairSpec
CONSTANT MaxFaults = 3
INVARIANTS TypeOK
PROPERTIES NoTakeover ConnectReturns Recovers
