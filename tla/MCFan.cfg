SPECIFICATION FairSpec
CONSTANTS
  Settings <- MCSettings
  Wrap = 7
  Byte = 8
  Full = 3
  InitialDuty = 0
  PwmTick = 1
  DeadTick = 2
  MaxPass = 1
  Horizon = 6
INVARIANTS
  FallbackOnlyAfterSilence
  FallbackInTime
  AdjustKeepsPeriod
PROPERTIES
  FanSettles
