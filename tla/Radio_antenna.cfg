SPECIFICATION Spec
CONSTANTS
  Settable <- MCSettable
  Configs <- MCConfigs
  Explicit <- MCExplicit
  Band <- MCBand
  MaxRequests = 2
  MaxSwitches = 3
CHECK_DEADLOCK FALSE

INVARIANT SettingReachesAntenna
