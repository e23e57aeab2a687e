\* Two requests and no reset: a write that follows a read.
CONSTANTS
  PoolSize = 4
  MaxRequests = 2
  MaxResets = 0
SPECIFICATION Spec
INVARIANT DataStageHasData
CHECK_DEADLOCK FALSE
