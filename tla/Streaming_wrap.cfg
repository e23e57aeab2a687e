\* Counters that wrap after two buffers reach the wrap within a few transfers.
CONSTANTS
  TransferSize = 2
  CountMod = 8
  MaxShortfalls = 1
  MaxLength = 2
  HostModes = {"OFF", "RX", "TX"}
  Limits = {0, 2}
  OutSizes = {2}
SPECIFICATION Spec
INVARIANT UnderrunIsCounted
