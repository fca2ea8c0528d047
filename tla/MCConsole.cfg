SPECIFICATION AnySpec
CONSTANTS
  Size = 18
  Digits <- MCDigits
  Start <- MCStart
  Files <- MCFiles
  Keys <- MCKeys
  MaxKeys = 5
  MaxFaults = 1
  Bits = {0, 1}
  AddrMod = 64
  Total = 16
  Block = 4
  Page = 2
  Retries = 3
  FirmwareStart = 16
  FirmwareImage <- MCImage
  Chunk = 3
  Records <- MCRecords
  Writes <- MCWrites
  Erases <- MCErases
INVARIANTS
  OnlyTheFileIsProgrammed
  CompleteUploadIsActivated
  LineIsShownAndSplit
  UploadIsInPlace
  VerifiesExactlyTheImage
  CallKeepsItsPromise
CHECK_DEADLOCK FALSE
