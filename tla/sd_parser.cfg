SPECIFICATION Spec
CONSTANTS
  Sizes = {0, 15, 16, 17, 27, 28, 44, 47, 56, 64, 92, 120}
  LengthFields = {0, 2, 3, 8, 12, 16, 24, 32, 64, 80, 4080, 4095}
  BlockLengths = {0, 1, 8, 9, 10, 4090}
  Types = {4, 20}
  SIZE_MOD = 4096
INVARIANTS ReadsInBounds PeersAgree
CHECK_DEADLOCK FALSE
