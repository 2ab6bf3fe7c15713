SPECIFICATION Spec
CONSTANTS
  HEARTBEAT_TIMEOUT = 20
  WDT_TIMEOUT = 30
  WARN_TIMEOUT = 1
  MAX_LAG = 1
  SILENCE_CAP = 22
PROPERTIES
  SafeStateHeld
CHECK_DEADLOCK FALSE
