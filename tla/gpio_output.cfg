SPECIFICATION FairSpec
CONSTANTS
  Clients = {c1, c2}
  Heartbeat = hb
  Pins = {0, 3}
INVARIANTS TypeOK LastRequestWins
PROPERTIES PttRisesOnlyByReport PttHeals
