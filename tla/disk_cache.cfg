SPECIFICATION FairSpec
CONSTANTS
  Tx = {t1, t2}
  Call = {c1, c2}
  Chunks = 2
  MaxHeight = 1
  MaxFaults = 1
INVARIANTS
  FilesWhole
  OneSnapshot
PROPERTIES
  StopKeeps
  SaveFinishes
