\* Plans the request accepts and plans it refuses, at any time.
CONSTANTS
  FREQ_GRANULARITY = 4
  MAX_RANGES = 2
  MaxFreq = 28
  Plans <- MCPlans
  Tunings <- MCTunings
  WordMod = 32
  MaxRequests = 2
  MaxSweepFreq = 34
  BlockMod = 4
SPECIFICATION FairSpec

  
PROPERTIES
  FollowsSchedule
  GoesRound
