--------------------------- MODULE MCEncryptedWriter ---------------------------
(* EncryptedWriter with two chunks and a few versions. *)
EXTENDS EncryptedWriter, TLC

CONSTANT MaxVersion     \* bound on the version counters

MCVersions == 1..MaxVersion

Symm == Permutations(Chunks) \cup Permutations(Hashes)
================================================================================
