CONSTANTS
  small = small
  big = big
  Readers = {r1, r2}
  Datasets = {small, big}
  Coords <- MCCoords
  Size <- MCSize
  MaxBytes = 3
  MaxSlots = 2
  MaxReads = 4
SPECIFICATION SpecShared
SYMMETRY Symm
CHECK_DEADLOCK FALSE
INVARIANTS   Budget
