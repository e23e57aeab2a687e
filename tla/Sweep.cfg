\* HackRF One discards two blocks, PRALINE one (and uses one half of the buffer);
\* two blocks per frequency.
CONSTANTS
  TransferSize = 2
  CountMod = 16
  MaxShortfalls = 1
  MaxLength = 1
  HostModes = {"OFF", "SWEEP"}
  Limits = {0}
  Throwaways = {1, 2}
  DwellBlocks = 2
  Frequencies = 2
SPECIFICATION FairSpec
INVARIANTS
  LoopInv
  BlocksLabelled
  BlocksUntouched
PROPERTIES
  RequestServed
  SweepDelivers
