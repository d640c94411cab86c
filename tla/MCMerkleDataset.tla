--------------------------- MODULE MCMerkleDataset ---------------------------
(* MerkleDataset with up to four chunks, so that trees of one to eight leaves    *)
(* occur, full and padded.                                                       *)
EXTENDS MerkleDataset, TLC

Symm == Permutations(Data)
==============================================================================
