CONSTANTS
  v1 = v1
  v2 = v2
  odd = odd
  Vectors = {v1, v2, odd}
  Dim <- MCDim
  EmbeddingDim = 2
  CompactPercent = 50
  MaxLen = 4
SPECIFICATION Spec
SYMMETRY Symm
INVARIANTS  FreshIndexMirrors OneDimension 
