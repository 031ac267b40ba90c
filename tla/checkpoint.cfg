SPECIFICATION FairSpec
CONSTANTS
  FsMounts = {f}
  BlkMounts = {b}
  Binder = binder
  Slots = {slotA, slotB}
  Devices <- MCDevices
  MaxRetry = 1
  MaxSys = 1
INVARIANTS NoDowngrade HeldImpliesCheckpointing CheckpointingProtects RetryBound
PROPERTY DeferredWorkRuns
