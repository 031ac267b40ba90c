SPECIFICATION Spec
CONSTANTS
  Layouts <- MCLayouts
  Devices <- MCDevices
  BufferBlocks = 2
  NumBlocks = 6
  HasSeed = TRUE
  MaxKeys = 5
  MaxFaults = 3
INVARIANTS
  EncryptedOnce
  DataKeyKept
  BoundAlike
