SPECIFICATION RestartSpec
CONSTANTS
  Tx = {t1, t2, t3}
  Final = {t1, t2, t3}
  ExpiryTicks = 1
SYMMETRY Symmetric
INVARIANT
  Consistent
PROPERTY
  RefinesHistory
