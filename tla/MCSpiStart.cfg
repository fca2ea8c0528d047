SPECIFICATION Spec
CONSTANTS
  Bits = {0, 1}
  AddrMod = 64
  Total = 16
  Block = 4
  Page = 2
  Retries = 3
  Start = 16
  Image <- MCImage
  Chunk = 3
  Records <- MCRecords
  Writes = {}
  Erases = {}
INVARIANTS
  StartErasesFlash
