SPECIFICATION MCSpec
CONSTANTS
  XsThreads = {t1, t2}
  XsStates = {1, 2}
  NR_REQS = 2
  XENSTORE_RING_SIZE = 2
  BdReaders = {r1}
  BdWatches = {w1}
  BdTrans = {d1}
  BdRequests = 3
  BdEvents = 2
  BdFails = 1
  EvPorts = {p1, p2}
  EvFiles = {f1}
  EvSize = 3
  EvSignals = 3
  PdThreads = {c1, c2}
  PdPlatforms = {"hw", "xen"}
  PdStores <- MCStores
  PdAddrs <- MCAddrs
  BMK_MAXINTR = 1
  PdPageShift = 2
  PdSizes = {4, 9}
  BoThreads = {b1, b2}
  BoNames <- MCNames
  NBLKDEV = 2
  BoReadOnly = {841}
  BoFronts = 3
  XmArea = 4
  XmL1 = 2
  XmBatch = 2
  XmMaxN = 3
  XmEntries = 3
  XmPages = 3
  XmContig = 2
  BtSizes = {8, 9, 10, 11, 12, 13, 14, 15, 16, 17, 18, 19, 20}
  BtStarts = {3, 4, 5}
  BtSlack = 4
  BtLimit = 19
  BtSpan <- MCSpan
  BtBatch = 3
  BtText = 3
  BtShared = 1
  BtE1 = 2
  BtE2 = 2
  BtE3 = 4
SYMMETRY MCSymmetry
INVARIANTS
  StoreSound  PortEventsKept PciSound TableKept PagesSound
CHECK_DEADLOCK FALSE
