------------------------------- MODULE MerkleTree -------------------------------
(***************************************************************************)
(* The Merkle tree of a dataset (crates/clawhdf5-format/src/merkle.rs): its  *)
(* level-order node array, its construction, inclusion proofs and the         *)
(* in-place update of a leaf.                                                *)
(*                                                                         *)
(* A hash is the tuple of what was hashed, so hashes are collision free and   *)
(* the prefixes of the preimages keep their kinds apart.  As in the code,    *)
(* nodes and leaves are counted from 0.                                      *)
(***************************************************************************)
EXTENDS Integers, SequencesExt

CONSTANT MAX_DEPTH

ASSUME TreeAssumption == MAX_DEPTH \in Nat \ {0}

hash_leaf(data) == <<"leaf", data>>
hash_pair(left, right) == <<"node", left, right>>
null_sentinel == <<"null">>

\* Mutant: the version is left out of the preimage.
hash_chunk_boundMut(idx, data, version) == <<"bound", idx, data, 0>>

hash_chunk_bound(idx, data, version) == <<"bound", idx, data, version>>

is_power_of_two(n) == \E k \in 0..n : 2^k = n
next_power_of_two(n) == CHOOSE p \in n..(2 * n) :
                          is_power_of_two(p) /\ \A q \in n..(p - 1) : ~is_power_of_two(q)
compute_depth(padded) == CHOOSE k \in 1..padded : 2^(k - 1) = padded

Tree(nodes, leaves, padded) == [nodes |-> nodes, leaf_count |-> leaves, padded_count |-> padded]

\* MerkleTree::from_leaf_hashes; leaves is a sequence.
from_leaf_hashes(leaves) ==
  IF leaves = <<>> THEN Tree([i \in {0} |-> null_sentinel], 0, 1)
  ELSE LET padded == next_power_of_two(Len(leaves))
           internal == padded - 1
           node[i \in 0..(2 * padded - 2)] ==
             IF i < internal THEN hash_pair(node[2 * i + 1], node[2 * i + 2])
             ELSE IF i - internal < Len(leaves) THEN leaves[i - internal + 1]
             ELSE null_sentinel
       IN Tree(node, Len(leaves), padded)

\* MerkleTree::build, as an option: refuses a tree that is too deep.
build(leaves) ==
  {t \in {from_leaf_hashes(leaves)} : leaves = <<>> \/ compute_depth(t.padded_count) <= MAX_DEPTH}

LeafNode(t, idx) == t.padded_count - 1 + idx
leaf_hash(t, idx) == t.nodes[LeafNode(t, idx)]

\* All leaves of a tree that reconstruct_tree made, padding included.
Leaves(t) == [i \in 1..t.leaf_count |-> leaf_hash(t, i - 1)]

\* The nodes from a node up to a child of the root.
PathUp(n) ==
  LET up[k \in 0..n] == IF k = 0 THEN <<>> ELSE <<k>> \o up[(k - 1) \div 2] IN up[n]

\* MerkleTree::proof: the siblings along the path.
proof(t, idx) ==
  LET path == PathUp(LeafNode(t, idx)) IN
  [k \in DOMAIN path |-> t.nodes[IF path[k] % 2 = 1 THEN path[k] + 1 ELSE path[k] - 1]]

\* Mutant: the running hash is always the left child.
compute_root_from_hashMut(idx, siblings, h) ==
  LET up[k \in 0..Len(siblings)] == IF k = 0 THEN h ELSE hash_pair(up[k - 1], siblings[k])
  IN up[Len(siblings)]

\* MerkleProof::compute_root_from_hash
compute_root_from_hash(idx, siblings, h) ==
  LET up[k \in 0..Len(siblings)] ==
        IF k = 0 THEN h
        ELSE IF (idx \div 2^(k - 1)) % 2 = 0 THEN hash_pair(up[k - 1], siblings[k])
        ELSE hash_pair(siblings[k], up[k - 1])
  IN up[Len(siblings)]

\* A node recomputed from its children.
Rehashed(nodes, n) == [nodes EXCEPT ![n] = hash_pair(nodes[2 * n + 1], nodes[2 * n + 2])]

\* Mutant: the walk stops below the root.
update_leafMut(t, idx, h) ==
  LET path == PathUp(LeafNode(t, idx))
      parents == SelectSeq([k \in DOMAIN path |-> (path[k] - 1) \div 2], LAMBDA p : p > 0)
  IN [t EXCEPT !.nodes = FoldLeft(Rehashed, [@ EXCEPT ![LeafNode(t, idx)] = h], parents)]

\* MerkleTree::update_leaf, for idx < padded_count.
update_leaf(t, idx, h) ==
  LET path == PathUp(LeafNode(t, idx))
      parents == [k \in DOMAIN path |-> (path[k] - 1) \div 2]
  IN [t EXCEPT !.nodes = FoldLeft(Rehashed, [@ EXCEPT ![LeafNode(t, idx)] = h], parents)]
=================================================================================
