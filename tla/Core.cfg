SPECIFICATION MCSpec
CONSTANTS
  NCpus = 2
  NThreads = 2
  NNodes = 4
  MaxTime = 1
  Delays = {0, 1}
  Pins <- MCPins
  JoinKinds = {TRUE, FALSE}
  Ops <- MCOps
  LmHeads = {h1, h2}
  LmElements = {a, b, c}
  StLong = 256
  StInt = 16
  StShort = 4
  StConvs <- MCConvs
  StSizes = {0, 1, 4, 9}
  StNumbers <- MCNumbers
  StStrings <- MCStrs
  StMoves <- MCMoves
  StDmesg = 4
  StMaxPut = 7
INVARIANTS
  ThreadsPlaced LibrarySound
CHECK_DEADLOCK FALSE
