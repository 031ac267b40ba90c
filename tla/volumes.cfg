SPECIFICATION Spec
CONSTANTS
  sd = sd
  virt = virt
  Devices = {sd, virt}
  VirtualDisks = {virt}
  Tables <- MCTables
  Stubs = {stub}
  Obbs = {obb}
  Users = {u0, u10}
  UserZero = u0
  Boot = Boot
  None = None
INVARIANTS ChecksHold UserVolumes PendingWaits FrameworkInSync
PROPERTY LockedDisksUnread
