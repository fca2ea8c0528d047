SPECIFICATION AnySpec
CONSTANTS
  Chars = {a, b}
  Nul = a
  RingSize = 3
  MaxLen = {1, 3}
  MaxSent = 6
  MaxErrors = 1
  Rates <- MCRates
  Default = 115200
  FrameSize = 5
  BufSize = 4
  W = 4
  Power <- MCPower
  Discretes = 9
  Inputs = 5
  Holdings = 7
  READ_DISCRETE_INPUTS = 1
  READ_HOLDING_REGS = 2
  READ_INPUT_REGS = 3
  WRITE_SINGLE_REG = 4
  WRITE_MULTIPLE_REGS = 5
  RW_MULTIPLE_REGS = 6
  MASK_WRITE_REG = 7
  UPGRADE_DATA_ADDRESS = 32
  RPM_DEVIATION = 2
  Requests <- MCRequests
  Stored <- MCStored
  Bits = {0, 1}
  Words = {51}
  MaxRequests = 1
  MaxEvents = 1
INVARIANTS
  FramesAreSeparated
  OnlyIntactIsAccepted
  RegistersAsRequested
  ReplyAnswersRequest
  OverrunOnlyByLongReads
PROPERTIES
  ImplementsQueue
  ReceiverNeverStops
  UnitComesBack
CHECK_DEADLOCK FALSE
