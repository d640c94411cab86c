----------------------------- MODULE MCChunkCache -----------------------------
(* ChunkCache with two datasets, whose chunks have different sizes. *)
EXTENDS ChunkCache

CONSTANTS small, big

MCCoords(d) == IF d = small THEN {1, 2, 3} ELSE {1, 2}
MCSize(d) == IF d = small THEN 1 ELSE 2
Symm == Permutations(Readers)
================================================================================
