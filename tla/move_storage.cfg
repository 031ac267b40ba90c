SPECIFICATION MoveSpec
CONSTANTS
  sd = sd
  Devices = {sd}
  VirtualDisks = {}
  Tables <- MCTables
  Stubs = {}
  Obbs = {}
  Users = {u0, u10}
  UserZero = u0
  Boot = Boot
  None = None
INVARIANTS MoveKeepsData VolumesComeBack
