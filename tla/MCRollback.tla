------------------------------- MODULE MCRollback -------------------------------
(* Rollback with two snapshot paths. *)
EXTENDS Rollback, TLC

Symm == Permutations(Paths) \cup Permutations(Restorers)
=================================================================================
