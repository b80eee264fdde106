\* The parameters of EHTv3 level 1; the functions stop when they return.
CONSTANTS
  M = 460
  D = 24
  N = 242
  K = 2
SPECIFICATION MemorySpec
INVARIANTS
  UsesLive
  NothingLeft
CHECK_DEADLOCK FALSE
