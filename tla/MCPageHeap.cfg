SPECIFICATION FairSpec
CONSTANTS
  NClient = 2
  NSegment = 2
  PagesPerSegment = 2
  PageWords = 2
  Bin = {"root", "small", "large"}
  Size <- MCSize
  RootBin = "root"
  NONE = NONE
  Quiescent = TRUE
  MaxMalloc <- MCMalloc
INVARIANTS EveryBlockOnce UsedExact QueuesExact HeldPagesStay OnlyStaleHeadersStay
PROPERTIES ImplementsBlockPool PushEnds
CHECK_DEADLOCK FALSE
