SPECIFICATION MCSpec
CONSTANTS
  MAXCLI = 3
  SpWorkers = {w1, w2}
  rumpsp_idleworker = 1
  SpFrames = {"guest", "fork", "syscall", "exec", "prefork", "bad"}
  SpMaxFrames = 3
  SpMaxConns = 2
  SpMayFini = 1
  WiSenders = {s1, s2, s3}
  HDRSZ = 2
  WiBodies = {0, 1, 2}
  MmThreads = {t1, t2}
  MmPages = 3
  MmMaxLen = 2
  MmChunks = 2
  ViDoms = {1, 2}
  ViApp = 1
  ViApps = 2
  ViMaxCalls = 3
  ViMaxPackets = 1
  CfTrees <- MCTrees
  CfOther <- MCOthers
  CfPrefixes <- MCBegins
  ClCpus = {0, 1}
  ClMaxTsc = 2
  ClMaxUpdates = 1
  ClMaxCalls = 1
  ClFrac = 4
  ClWord = 4096
  ClSkew = 1
  ClReload = 4
  ClDelay = 6
  ClTscPerTick = 2
  ClNsec = 30
  ClYears = {2000, 2001, 2003, 2004, 2098, 2099}
SYMMETRY MCSymmetry
INVARIANTS
  ProxySound MappingsKept SwitchSound  ClocksSound
CHECK_DEADLOCK FALSE
