SPECIFICATION MCSpec
CONSTANTS
  NtSenders = {s1, s2}
  NtTx = 2
  NtRx = 2
  NBUF = 2
  NtPackets = 2
  BkUsers = {u1, u2}
  BkOps = {"bio", "io", "syncs", "drain"}
  BkSize = 2
  CnOutSize = 3
  CnInSize = 2
  CnTexts <- MCTexts
  CnKeys = {"x", "r"}
  CnPrints = 2
  CnTypes = 2
  XgThreads = {g1, g2, g3}
  XgRefs = 2
SYMMETRY MCSymmetry
INVARIANTS
   DiskSound  TableSound
CHECK_DEADLOCK FALSE
