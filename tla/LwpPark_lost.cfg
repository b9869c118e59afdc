SPECIFICATION PkFairSpec
CONSTANTS
  Lwps = {p1, p2}
  Timed = {1}
  PkNone = PkNone
PROPERTY TimedParkReturns
CHECK_DEADLOCK FALSE
