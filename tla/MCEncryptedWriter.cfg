CONSTANTS
  Chunks = {c1, c2}
  Hashes = {p1, p2}
  MaxVersion = 3
  Versions <- MCVersions
  MaxRecords = 2
  MaxDatasetVersion = 2
  None = None
SPECIFICATION Spec
SYMMETRY Symm
INVARIANTS   NoVersionTie 
PROPERTIES DatasetVersionMonotone
