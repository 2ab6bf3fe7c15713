SPECIFICATION Spec
CONSTANTS
  Offered <- FromPeers
  FIND_PERIOD = 5
  CLOCK_MOD = 16
  MAX_LAG = 2
  RX_BUF = 64
  SESSION_MOD = 3
  FAILURES = 2
  INBOX = 1
PROPERTIES FindPeriodic SdTakenAsBuilt
