SPECIFICATION Spec
CONSTANTS
  PERIOD = 5
  JITTER = 1
  DELAY = 2
  TIMEOUT = 10
  CAP = 11
INVARIANTS TypeOK DeadMpuNoticed
PROPERTIES NoFalseSafe Heals
