SPECIFICATION NcSpec
CONSTANTS
  Apps = {a1, a2}
  NcNone = NcNone
  Ports = {}
  NumApps = 2
  MaxRestarts = 1
  LastStart = 1
INVARIANT HelloAnswered
CHECK_DEADLOCK FALSE
