SPECIFICATION MCSpec
CONSTANTS
  Tx = {t1, t2, t3}
  Final = {t3}
  ExpiryTicks = 2
  p = p
  q = q
  m = m
  d = d
  MempoolTx = {p, q, m, d}
  Inputs <- MCInputs
  MaxBlocks = 1
  MaxRare = 2
  Call = {c1, c2, c3, c4}
  Concurrency = 2
  MaxChecks = 3
  Size = 4
  Graphs <- MCGraphs
  Rates <- MCRates
  Order <- MCOrder
  Hints <- MCHints
INVARIANTS
  FullRbfExact
  Clustered
  SpendsKnown
  AtMostLimit
  NoneForgotten
  Valid
  KeepsGood
  QuietOptimal
PROPERTIES
  WholeTreeExpires
  EvictedLeave
