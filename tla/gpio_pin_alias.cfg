SPECIFICATION Spec
CONSTANTS
  Clients = {c1}
  Heartbeat = hb
  Pins = {0, 8}
PROPERTIES PttOnlyByPin0
