SPECIFICATION MCSpec
CONSTANTS
  Senders = {s1, s2}
  NSlots = 2
  Packet = {p, q}
  None = None
  MaxFails = 2
  SetupOrder <- ToBackend
  BinderReceives = TRUE
  MayTerminate = TRUE
  RingUsers = {u1, u2}
  Order = 1
  RingMin = 1
  StartFull = {0, 1}
  MaxTicket = 5
  NoIdx = NoIdx
  LqThreads = {a, b}
  LqWakers = {w, x}
  LqMaxPuts = 2
  LqMaxTakes = 1
  LqNobody = LqNobody
  EvCpus = {1, 2}
  EvHome = 1
  EvLast = 1
  EvWordSize = 2
  PgMin = 2
  PgEnd = 9
  PgLevels = 5
  PgBitmap = 1
  PgAligns = {1, 2}
  PgOrders = {0, 1}
  MaxPgLive = 1
  MINSHIFT = 2
  PageShift = 4
  MINALIGN = 2
  HdrSize = 1
  Requests = {2, 5, 15}
  Aligns = {0, 8}
  MaxLive = 2
  RwThreads = {r1, r2, r3}
  RwNone = RwNone
  Granters = {g1, g2}
  FirstRef = 2
  EndRef = 4
  Frames = {7, 8}
  NEntries = 2
  MapPages = {1, 2}
  MapCounts = {1, 2}
INVARIANTS
  ChannelSound IndicesKept EmptyIsTrue EventsSound MemorySound GrantsSound RwSound
PROPERTIES
  ImplementsPipe QueueSound
CHECK_DEADLOCK FALSE
