SPECIFICATION StreamSpec
CONSTANTS
  PAYLOAD = 18
  RESYNC = 5
  RX_BUF = 64
  PERIOD = 5
  RESTART = 8
  LINE_BOUND = 3
  LOSSES = 2
  SILENCE_CAP = 11
INVARIANTS
  BufferBounded
PROPERTIES
  NoPhantom
  CalmFrameReturned
  ParsersAgree
