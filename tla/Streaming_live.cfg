\* Full-size OUT transfers of two samples, more than the exchange the late flag allows.
CONSTANTS
  TransferSize = 2
  CountMod = 8
  MaxShortfalls = 1
  MaxLength = 1
  HostModes = {"OFF", "RX", "TX"}
  Limits = {0}
  OutSizes = {2}
SPECIFICATION FairSpec
INVARIANT TransfersInOrder
PROPERTIES
  RequestServed
  TxStarts
  RxDelivers
