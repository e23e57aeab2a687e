SPECIFICATION Spec
CONSTANTS
  Settable <- MCSettable
  Configs <- MCConfigs
  Explicit <- MCExplicit
  Band <- MCBand
  MaxRequests = 2
  MaxSwitches = 4
CHECK_DEADLOCK FALSE
INVARIANT TransmitsOnlyInTx
INVARIANT SwitchApplies
INVARIANT SwitchInv
