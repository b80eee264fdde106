\* The parameters of EHTv3 level 1, with one property that the cleanup breaks.
CONSTANTS
  M = 460
  D = 24
  N = 242
  K = 2
SPECIFICATION MemorySpec
PROPERTY FailureReturned
CHECK_DEADLOCK FALSE
