SPECIFICATION Spec
CONSTANTS
  Clients = {c1}
  PinStates = {{}, {0}, {0, 1}, {2}}
  ChanCap = 2
  MaxReports = 3
  MaxFaults = 1
  MaxStats = 1
INVARIANTS TypeOK ViewsAgree
PROPERTIES EdgesAlternate PinsBecomeKnown
CHECK_DEADLOCK FALSE
