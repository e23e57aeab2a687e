\* OUT transfers of every length, the smallest buffer in which a transfer has an inside.
CONSTANTS
  TransferSize = 2
  CountMod = 8
  MaxShortfalls = 2
  MaxLength = 2
  HostModes = {"OFF", "RX", "TX"}
  Limits = {0, 2}
  OutSizes = {0, 1, 2}
SPECIFICATION Spec
INVARIANTS
  IInv
  BufferDisjoint
  ResetIsQuiet
  StopsAreExplained
  TimeoutExact
  StatsExact
PROPERTY ImplementsStream
