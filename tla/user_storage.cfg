SPECIFICATION Spec
CONSTANTS
  Users <- MCUsers
  VolUsers <- MCVolUsers
  MaxGen = 2
  MaxKeys = 7
  MaxTries = 2
  MaxWorkers = 1
  MaxFaults = 1
INVARIANTS
  UnlockedUsable
  NoStrayKeys
  PoliciesKept
  StartRecovers
  Shredded
