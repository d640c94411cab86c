SPECIFICATION Spec
CONSTANTS
  Paths = {p1, p2}
  Restorers = {r1, r2}
  MaxVersion = 1
  MaxFaults = 1
SYMMETRY Symm
INVARIANTS  JournalOrdered
PROPERTIES CertifiedRestore
