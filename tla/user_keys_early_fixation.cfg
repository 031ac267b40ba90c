SPECIFICATION Spec
CONSTANTS
  MaxPath = 2
  MaxSys = 1
  MaxKs = 6
  MaxKey = 4
PROPERTIES KeyKeptUnderCheckpoint
