----------------------------- MODULE MCVersionWal -----------------------------
(* VersionWal on a file of a few slots. *)
EXTENDS VersionWal, TLC

MCVersions == 1..2

Symm == Permutations(Chunks) \cup Permutations(Hashes)
===============================================================================
