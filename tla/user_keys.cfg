SPECIFICATION FairSpec
CONSTANTS
  MaxPath = 2
  MaxSys = 1
  MaxKs = 5
  MaxKey = 4
INVARIANTS DeferredWorkValid SecretOnly
PROPERTIES KeyKept FixationHappens
