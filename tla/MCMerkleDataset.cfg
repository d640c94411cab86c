CONSTANTS
  Data = {d1, d2}
  Garbage = Garbage
  MAX_DEPTH = 3
  MaxChunks = 4
  MaxLeaves = 8
  MaxVersion = 2
  MaxUpdates = 2
  MaxFaults = 1
SPECIFICATION Spec
SYMMETRY Symm
INVARIANTS TreeCanonical   BlamesTheDamaged
CHECK_DEADLOCK FALSE
