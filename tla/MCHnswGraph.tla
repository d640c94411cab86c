------------------------------ MODULE MCHnswGraph ------------------------------
(* HnswGraph with points at growing distances and three level assignments. *)
EXTENDS HnswGraph

MCPoints == {0, 1, 3, 7, 15}
MCAssignments == {<<0, 1, 1, 1, 1>>, <<1, 0, 2, 0, 1>>, <<0, 0, 0, 0, 0>>}
================================================================================
