SPECIFICATION Spec
CONSTANTS
  NClient = 2
  NSegment = 2
  PagesPerSegment = 2
  PageWords = 2
  Bin = {"root", "small", "large"}
  Size <- MCSize
  RootBin = "root"
  NONE = NONE
  Quiescent = FALSE
  MaxMalloc <- MCMalloc
INVARIANTS HeldPagesStay

CHECK_DEADLOCK FALSE
