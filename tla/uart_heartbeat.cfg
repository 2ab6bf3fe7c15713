SPECIFICATION HeartbeatSpec
CONSTANTS
  PAYLOAD = 18
  RESYNC = 5
  RX_BUF = 64
  PERIOD = 5
  RESTART = 8
  LINE_BOUND = 3
  LOSSES = 0
  SILENCE_CAP = 11
INVARIANTS
  HeartbeatsKeepNormal
