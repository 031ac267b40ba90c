SPECIFICATION FairSpec
CONSTANTS
  Runners = {r1, r2}
  Aborters = {a1, a2}
  Paths = {data, adopted}
  DataPath = data
  GcRounds = 2
  MaxRuns = 4
INVARIANTS OneRun UrgentOnlyInGc
PROPERTIES AbortReturns
