CONSTANTS
  Clients = {c1, c2}
  Capacity = 2
  FlushThreshold = 2
  UseInterval = TRUE
  WalMaxEntries = 2
  MaxSaves = 2
  MaxFlushes = 2
SPECIFICATION Spec
CHECK_DEADLOCK FALSE
INVARIANTS AsyncTypeOK DirtyTracksLog
PROPERTIES FlushCovers CallsReturn
