------------------------------ MODULE MCEphemeral ------------------------------
(* Ephemeral with three keys for two places. *)
EXTENDS Ephemeral

Symm == Permutations(Keys)
================================================================================
