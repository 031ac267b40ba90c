SPECIFICATION Spec
CONSTANTS
  Cards = {c1, c2}
  NoCard = noCard
  Tables <- MCTables
  MaxGuid = 2
  MaxQueue = 3
  MaxSwaps = 2
  MaxFaults = 1
SYMMETRY Symmetry
CHECK_DEADLOCK FALSE
INVARIANTS
  InSync
  FormatsAsked
  KeysKept
  RemovedClean
