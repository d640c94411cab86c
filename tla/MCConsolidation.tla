---------------------------- MODULE MCConsolidation ----------------------------
(* Consolidation with room for fewer records than are added. *)
EXTENDS Consolidation, TLC

Symm == Permutations(Embeddings)
================================================================================
