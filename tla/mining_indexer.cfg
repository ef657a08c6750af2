SPECIFICATION FairSpec
CONSTANTS
  Block = {b1, b2}
  MaxCrashes = 1
  MaxDays = 1
INVARIANTS
  Planned
PROPERTIES
  EveryBlockPriced
