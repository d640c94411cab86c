SPECIFICATION Spec
CONSTANTS
  Keys = {k1, k2, k3}
  MaxEntries = 2
  Ttls = {0, 1}
  TrackAccess = TRUE
  MinAccess = 1
  MaxTime = 3
  MaxSets = 4
  MaxAccess = 2
SYMMETRY Symm
INVARIANTS Capacity OneTier
PROPERTIES EvictsExpiredFirst
