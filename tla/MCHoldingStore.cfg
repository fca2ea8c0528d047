SPECIFICATION Spec
CONSTANTS
  Blank = 9
  Configured = 1
  Written <- MCWritten
  MaxMinutes = 1
  MaxResets = 3
INVARIANTS
  PowerOnIsConfigured
  ResetOnlyOnRequest
PROPERTIES
  OrderlyResetKeepsState
  KeepsToEepromStore
