SPECIFICATION MCSpec
CONSTANTS
  x = x
  y = y
  Tx <- MCTx
  Index = {0, 1}
  None = None
  MaxChanges = 4
  MaxHeight = 3
  MaxClicks = 2
  MaxFaults = 3
  MaxMessages = 2
  MaxLate = 1
INVARIANTS
  SequenceTells
  SameBlocks
PROPERTIES
  Resumes
CHECK_DEADLOCK FALSE
