---------------------------- MODULE MCAsyncWriter ----------------------------
(* AsyncWriter with two clients and a channel that fills up. *)
EXTENDS AsyncWriter, TLC

Symm == Permutations(Clients)
================================================================================
