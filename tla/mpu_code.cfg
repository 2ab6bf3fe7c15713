SPECIFICATION FairSpec
CONSTANTS
  CONSEC = 15
  HB_PERIOD = 1
  FRAME = 2
  SIM_PERIOD = 40
  HB_MAX = 1
  MAX_FACES = 2
  COUNTER_CAP = 27
  OBS_BOUND = 7
  TIME_CAP = 30
INVARIANTS TypeOK CounterIsExcess DetectsInTime
PROPERTIES HeartbeatsComeBack DetectionComesBack
CHECK_DEADLOCK FALSE
