SPECIFICATION TFairSpec
CONSTANTS
  r = r
  a1 = a1
  a2 = a2
  b1 = b1
  b2 = b2
  b3 = b3
  None = None
  Block = {r, a1, a2, b1, b2}
  Root = r
  Parent <- Forked
  Height <- Heights
  Confirms <- Empty
  Tx = {}
  InitialBlocks = 1
  Esplora = TRUE
  Large = 0
  MaxRare = 1
  MaxArrivals = 0
  MaxTips = 1
INVARIANTS
  NoOrphanIsLost
PROPERTIES
  OrphansAreIndexed
