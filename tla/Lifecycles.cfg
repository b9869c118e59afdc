SPECIFICATION MCSpec
CONSTANTS
  Senders = {s1, s2}
  NSlots = 2
  Packet = {p, q}
  None = None
  MaxFails = 2
  SetupOrder <- ToBackend
  BinderReceives = TRUE
  MayTerminate = FALSE
  Apps = {a1, a2}
  NcNone = NcNone
  Ports = {p}
  NumApps = 2
  MaxRestarts = 1
  LastStart = 0
  FlKinds = {"blk", "net", "pci", "cons"}
  FlErrors = 2
  FlRounds = 3
  RrLists <- MCLists
INVARIANTS
  ConnectSound  RunnersKept
PROPERTIES
  ImplementsFairPipe ConnectsAgain  RunnersEnd
CHECK_DEADLOCK FALSE
