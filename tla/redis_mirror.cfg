SPECIFICATION MCSpec
CONSTANTS
  Tx = {t1, t2, t3}
  Final = {t1}
  ExpiryTicks = 1
  Faults = {"crash", "down", "lost", "unread"}
  MaxFailures = 2
  MaxEvents = 0
INVARIANTS
  Mirrored
  FaultsMend
PROPERTIES
  LoadKeepsStored
\* Without crashes left or transactions to replace the model has nothing to do.
CHECK_DEADLOCK FALSE
