SPECIFICATION Spec
CONSTANTS
  BufSize = 6
  MaxFrames = 2
  MaxFaults = 1
  Sizes <- MCSizes
  Addresses <- MCAddresses
  OwnAddresses <- OneAddress
  ReplySizes <- MCReplySizes
INVARIANTS
  TypeOK
  RequestsAreWhole
  RequestsInOrderOnce
  RepliesAreUntorn
PROPERTIES
  WatchdogFedByWholeFrames
  ReceivedFrameIsExecuted
