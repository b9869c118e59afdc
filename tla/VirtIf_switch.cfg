SPECIFICATION ViSpec
CONSTANTS
  ViDoms = {1, 2}
  ViApp = 1
  ViApps = 2
  ViMaxCalls = 3
  ViMaxPackets = 1
INVARIANT CardFollowsMode
CHECK_DEADLOCK FALSE
