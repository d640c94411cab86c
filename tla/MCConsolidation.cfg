SPECIFICATION Spec
CONSTANTS
  Embeddings = {u, v}
  WorkingCapacity = 1
  EpisodicCapacity = 1
  PromoteImportance = 6
  PromoteAccess = 1
  MaxTime = 1
  MaxRecords = 3
  MaxAccess = 2
SYMMETRY Symm
INVARIANTS WithinCapacity StatsAccount
PROPERTIES NeverForgets ColdestEvicted
