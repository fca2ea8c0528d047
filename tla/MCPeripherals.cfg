SPECIFICATION AnySpec
CONSTANTS
  Window = 3
  Period = 4
  SyncPeriod = 2
  Pulses <- MCPulses
  Curves <- MCCurves
  PerMinute = 4
  MaxPulses = 2
  Sensors = {temperature}
  Modes = {0, 1, 2}
  Wrap = 4
  AlarmPeriod = 2
  LedPeriod = 1
  SlowLimit = 1
  MaxPass = 1
  Horizon = 4
  Timeout = 1
  ThLen = 2
  MaxStretches = 3
  MaxNacks = 1
  MaxDelays = 1
INVARIANTS
  CountsOneWindow
  AlarmInTime
  ReadIsFresh
  InterruptIsServed
PROPERTIES
  StoppedFanIsReported
  SensorsRecover
