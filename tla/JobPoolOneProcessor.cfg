\* One processor: no token at all, so the loop never passes its first read.
CONSTANTS
  NT = 0
  NTasks = 2
  Failed = {1}
SPECIFICATION Spec
PROPERTY AllReturnOrOneFails
CHECK_DEADLOCK FALSE
