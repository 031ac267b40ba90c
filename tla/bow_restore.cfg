SPECIFICATION FairRestore
CONSTANTS
  MaxBlock = 7
  InUse = {0, 1, 2}
  LogSize = 2
  MaxRange = 2
  MaxWrites = 3
  MaxFaults = 2
INVARIANTS AllOrNothing RelocationsFollow
PROPERTIES Settles AtomicSpec
CHECK_DEADLOCK FALSE
