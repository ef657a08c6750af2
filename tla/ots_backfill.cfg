SPECIFICATION BSpec
CONSTANTS
  alice = alice
  a1 = a1
  a2 = a2
  a3 = a3
  Calendar = {alice}
  Chain <- OneChain
  Window = 1
  MaxFork = 2
  MaxCrashes = 0
  Outages = {"calendar", "table", "electrs"}
  MaxRuns = 2
  MaxDepth = 3
INVARIANTS
  FirstWalkFills
PROPERTIES
  RowsOnlyGrow
