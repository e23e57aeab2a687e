SPECIFICATION FairSpec
CONSTANTS
  Bits = {b}
  PageLen = 2
  NumPages = 2
  Images <- MCImages
  Requests <- MCRequests
  MaxRequests = 3
CHECK_DEADLOCK FALSE
INVARIANT FlashInv
PROPERTY ImplementsStore
PROPERTY SuccessIsTrue
PROPERTY Served
