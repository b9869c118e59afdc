SPECIFICATION XsFairSpec
CONSTANTS
  XsThreads = {t1}
  XsStates = {1, 2}
  NR_REQS = 2
  XENSTORE_RING_SIZE = 2
PROPERTY RequestAnswered
CHECK_DEADLOCK FALSE
