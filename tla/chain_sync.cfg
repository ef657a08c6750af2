SPECIFICATION PlannedSpec
CONSTANTS
  r = r
  a1 = a1
  a2 = a2
  b1 = b1
  b2 = b2
  b3 = b3
  b4 = b4
  x = x
  y = y
  z = z
  None = None
  Block = {r, a1, a2, b1, b2, b3, b4}
  Root = r
  Parent <- Fork
  Height <- Heights
  Confirms <- Contents
  Tx = {x, y, z}
  InitialBlocks = 1
  Esplora = TRUE
  Large = 2
  MaxRare = 1
  MaxArrivals = 1
INVARIANTS
  CachedAreStored
  Linked
  TableFits
PROPERTIES
  NothingConfirmedReturns
  Follows
