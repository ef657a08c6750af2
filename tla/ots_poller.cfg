SPECIFICATION FairSpec
CONSTANTS
  alice = alice
  bob = bob
  a1 = a1
  a2 = a2
  a3 = a3
  b1 = b1
  Calendar = {alice, bob}
  Chain <- TwoChains
  Window = 2
  MaxFork = 1
  MaxCrashes = 1
  Outages = {"calendar", "table", "boot"}
INVARIANTS
  RowFirst
PROPERTIES
  NothingDurableMissed
