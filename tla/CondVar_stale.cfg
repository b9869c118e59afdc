SPECIFICATION CvSpec
CONSTANTS
  Threads = {t1, t2, t3}
  KmNone = KmNone
  Kinds = {0}
  TimedKinds = {0}
INVARIANT SignallerOwnsMutex
CHECK_DEADLOCK FALSE
