SPECIFICATION CanSpec
CONSTANTS
  Levels = {0, 1, 255}
  WARNING = 255
  CTR_MOD = 3
  MAX_NOTIFY = 2
PROPERTY EveryLevelIsSent
