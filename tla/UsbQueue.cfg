\* Two transfers make the append path run; three jobs reuse a descriptor.
CONSTANTS
  PoolSize = 2
  MaxJobs = 3
SPECIFICATION FairSpec
INVARIANTS
  QueueInv
  NeverRewritten
  PrimedOnlyIdle
  NeverStranded
PROPERTIES
  InOrder
  SpinsEnd
  Delivered
