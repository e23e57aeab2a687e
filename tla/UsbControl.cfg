\* A host that aborts and resets whenever it likes.
CONSTANTS
  PoolSize = 4
  MaxRequests = 3
  MaxResets = 1
SPECIFICATION FairSpec
INVARIANTS
  NeverSpins
  ControlInv
PROPERTIES
  SuccessMeansActed
  OwnAnswers
  Served
CHECK_DEADLOCK FALSE
