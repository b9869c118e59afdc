SPECIFICATION MCSpec
CONSTANTS
  NCpus = 1
  NThreads = 3
  NNodes = 4
  MaxTime = 0
  Delays = {0}
  Pins <- MCPins
  JoinKinds = {TRUE, FALSE}
  Ops <- MCOps
  Lwps = {p1, p2, p3}
  Timed = {0, 1}
  PkNone = PkNone
  Irq = {7, 10, 11}
  TopIrq = 31
  EarlyLines = {}
  Threads = {t1, t2, t3}
  KmNone = KmNone
  Kinds = {0, 1}
  TimedKinds = {1}
INVARIANTS
  ParkSound IsrSound LocksSound
PROPERTIES
  ThreadsProgress ParksReturn InterruptsServed WaitersEnter
CHECK_DEADLOCK FALSE
