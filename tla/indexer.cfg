SPECIFICATION FairSpec
CONSTANTS
  good = good
  bad = bad
  stale = stale
  Block = {good, bad, stale}
  HeightOf <- Heights
  Poison = {bad}
  InitialBatch = 1
  MaxBatch = 2
  MaxFailures = 2
  Threshold = 2
  MaxCrashes = 1
INVARIANTS
  ActivityFirst
  OneTask
  Scheduled
PROPERTIES
  EveryBlockHandled
