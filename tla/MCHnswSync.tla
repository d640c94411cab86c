------------------------------ MODULE MCHnswSync ------------------------------
(* HnswSync with two embeddings of the right length and one of another. *)
EXTENDS HnswSync, TLC

CONSTANTS v1, v2, odd

MCDim(v) == IF v = odd THEN 1 ELSE 2
Symm == Permutations({v1, v2})
================================================================================
