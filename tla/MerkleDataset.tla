------------------------------ MODULE MerkleDataset ------------------------------
(***************************************************************************)
(* A dataset with a Merkle tree (crates/clawhdf5-format/src/merkle.rs): the  *)
(* root attribute, the stored nodes, the chunks and their version counters,  *)
(* the calls that change the tree, and the three verifications.              *)
(*                                                                         *)
(* External: the caller, who writes the chunk and then updates the tree with *)
(* its leaf hash, and the storage, which may damage any of the four           *)
(* artifacts independently.  One hash algorithm; the grid hash is left out.  *)
(***************************************************************************)
EXTENDS MerkleTree

CONSTANTS Data,          \* contents of a chunk
          Garbage,       \* content that no writer stores
          MaxChunks,     \* bound on the chunks of the dataset
          MaxLeaves,     \* bound on the leaves of a tree, padding included
          MaxVersion,    \* bound on the version counters
          MaxUpdates,    \* bound on the overwrites
          MaxFaults      \* bound on the damages

ASSUME DatasetAssumption ==
  /\ MaxChunks \in Nat /\ MaxLeaves \in Nat /\ MaxVersion \in Nat \ {0}
  /\ MaxUpdates \in Nat /\ MaxFaults \in Nat

VARIABLES
  merkle_attr, tree_nodes, chunks, chunk_versions,    \* Dataset
  written,    \* history: the same four as last written
  formats,    \* history: per chunk, the format its leaf was computed in
  stray,      \* history: extend_merkle put a leaf behind padding
  tainted,    \* history: a tree was derived from damaged nodes
  faults

artifacts == <<merkle_attr, tree_nodes, chunks, chunk_versions>>
vars == <<artifacts, written, formats, stray, tainted, faults>>

\* Mutant: the leaf format is not bound.
compute_integrityMut(root, format) == <<"integrity", root>>

compute_integrity(root, format) == <<"integrity", root, format>>

\* MerkleAttr::from_tree_with_companion.
from_tree_with_companion(t, companion) ==
  [root |-> t.nodes[0], leaf_format |-> "Content",
   integrity |-> compute_integrity(t.nodes[0], "Content"), companion_hash |-> companion]

with_leaf_format(attr, format) ==
  [attr EXCEPT !.leaf_format = format, !.integrity = compute_integrity(attr.root, format)]

\* MerkleAttr::unpack accepts the attribute.
unpack(attr) == attr.integrity = compute_integrity(attr.root, attr.leaf_format)

compute_sha256(nodes) == <<"sha256", nodes>>
NoCompanion == <<"none">>       \* an all-zero hash

\* Dataset::reconstruct_tree, as an option.
reconstruct_tree ==
  LET count == Cardinality(DOMAIN tree_nodes) IN
  {Tree(tree_nodes, p, p) : p \in {q \in 1..count : count = 2 * q - 1 /\ is_power_of_two(q)}}

\* Dataset::leaf_hash_for, as an option.
leaf_hash_for(format, idx, data, versions) ==
  IF format = "Content" THEN {hash_leaf(data)}
  ELSE {hash_chunk_bound(idx, data, versions[i]) : i \in {idx + 1} \cap DOMAIN versions}

-------------------------------------------------------------------------------
Ok == <<"Ok">>
Err(e) == <<e>>

\* The three verifications.
verify_root ==
  IF merkle_attr.companion_hash = NoCompanion
    THEN IF unpack(merkle_attr) THEN Ok ELSE Err("IntegrityMismatch")
  ELSE IF merkle_attr.companion_hash = compute_sha256(tree_nodes)
    THEN Ok ELSE Err("CompanionTampered")

LiveLeaf(i) == leaf_hash_for(merkle_attr.leaf_format, i - 1, chunks[i], chunk_versions)

verify_chunk(idx) ==
  IF idx >= Len(chunks) THEN Err("HyperslabOutOfBounds")
  ELSE IF \A t \in reconstruct_tree : Len(chunks) > t.leaf_count THEN Err("BadTree")
  ELSE IF LiveLeaf(idx + 1) = {} THEN Err("MissingChunkVersions")
  ELSE IF \E t \in reconstruct_tree, h \in LiveLeaf(idx + 1) :
            compute_root_from_hash(idx, proof(t, idx), h) = merkle_attr.root
    THEN Ok ELSE Err("HashMismatch")

\* The first chunk the scan of verify_dataset stops at, as an option.
FirstBad(t) ==
  LET bad == {i \in DOMAIN chunks : LiveLeaf(i) # {leaf_hash(t, i - 1)}} IN
  {i \in bad : \A j \in bad : i <= j}

verify_dataset ==
  IF chunks = <<>> \/ \A t \in reconstruct_tree : Len(chunks) > t.leaf_count
    THEN Err("BadTree")
  ELSE LET t == CHOOSE t \in reconstruct_tree : TRUE
           live == [i \in 1..t.leaf_count |->
                      IF i \in DOMAIN chunks THEN CHOOSE h \in LiveLeaf(i) : TRUE
                      ELSE null_sentinel]
       IN IF \E i \in FirstBad(t) : LiveLeaf(i) = {} THEN Err("MissingChunkVersions")
          ELSE IF FirstBad(t) # {} THEN <<"HashMismatch", (CHOOSE i \in FirstBad(t) : TRUE) - 1>>
          ELSE IF from_leaf_hashes(live).nodes[0] = merkle_attr.root
            THEN Ok ELSE Err("CompanionTampered")

-------------------------------------------------------------------------------
\* The caller stores a chunk and its counter together with a tree and its attribute.
With(s, i, x) == [k \in DOMAIN s \cup {i} |-> IF k = i THEN x ELSE s[k]]

Store(t, attr, i, d, v) ==
  /\ merkle_attr' = attr /\ tree_nodes' = t.nodes
  /\ chunks' = With(chunks, i, d) /\ chunk_versions' = With(chunk_versions, i, v)
  /\ written' = [attr |-> attr, nodes |-> t.nodes, chunks |-> With(written.chunks, i, d),
                 versions |-> With(written.versions, i, v)]
  /\ formats' = With(formats, i, merkle_attr.leaf_format)
  /\ tainted' = (tainted \/ tree_nodes # written.nodes)
  /\ UNCHANGED faults

\* A new dataset, with or without companion, its leaves in one of the formats.
Init ==
  \E n \in 0..(MaxChunks - 1), format \in {"Content", "Bound"}, has_companion \in BOOLEAN :
  \E cs \in [1..n -> Data] :
    LET vs == [i \in 1..n |-> 1]
        leaves == [i \in 1..n |-> CHOOSE h \in leaf_hash_for(format, i - 1, cs[i], vs) : TRUE]
    IN \E t \in build(leaves) :
       LET companion == IF has_companion THEN compute_sha256(t.nodes) ELSE NoCompanion
           attr == with_leaf_format(from_tree_with_companion(t, companion), format)
       IN /\ merkle_attr = attr /\ tree_nodes = t.nodes /\ chunks = cs /\ chunk_versions = vs
          /\ written = [attr |-> attr, nodes |-> t.nodes, chunks |-> cs, versions |-> vs]
          /\ formats = [i \in 1..n |-> format]
          /\ stray = FALSE /\ tainted = FALSE /\ faults = 0

\* The caller goes on as long as it can open the dataset and misses no chunk.
Writable == /\ unpack(merkle_attr)
            /\ Len(chunks) = Len(written.chunks) /\ Len(chunk_versions) = Len(chunks)

Attr(t) == from_tree_with_companion(t, compute_sha256(t.nodes))

LeafHash(i, d, v) ==
  leaf_hash_for(merkle_attr.leaf_format, i - 1, d, With(chunk_versions, i, v))

\* extend_merkle: the leaf is pushed behind all leaves of the padded tree.
ExtendMerkle(d) ==
  /\ Writable /\ Len(chunks) < MaxChunks
  /\ LET i == Len(chunks) + 1 IN
     \E t \in reconstruct_tree, h \in LeafHash(i, d, 1) :
       LET new == from_leaf_hashes(Append(Leaves(t), h)) IN
       /\ new.padded_count <= MaxLeaves
       /\ Store(new, Attr(new), i, d, 1)
       /\ stray' = (stray \/ t.leaf_count # Len(chunks))

\* The caller overwrites a chunk under its next version.
CanOverwrite(i) == /\ Writable /\ i \in DOMAIN chunks /\ chunk_versions[i] < MaxVersion
                   /\ Cardinality({k \in DOMAIN chunks : written.versions[k] > 1}) < MaxUpdates

\* update_merkle rebuilds the tree around the new leaf.
UpdateMerkle(i, d) ==
  /\ CanOverwrite(i)
  /\ \E t \in reconstruct_tree, h \in LeafHash(i, d, chunk_versions[i] + 1) :
       LET new == from_leaf_hashes([k \in 1..t.leaf_count |->
                                      IF k = i THEN h ELSE leaf_hash(t, k - 1)])
       IN Store(new, Attr(new), i, d, chunk_versions[i] + 1)
  /\ UNCHANGED stray

\* update_leaf walks the path in place; the caller keeps the leaf format.
UpdateLeaf(i, d) ==
  /\ CanOverwrite(i)
  /\ \E t \in reconstruct_tree, h \in LeafHash(i, d, chunk_versions[i] + 1) :
       /\ i - 1 < t.padded_count
       /\ LET new == update_leaf(t, i - 1, h)
          IN Store(new, with_leaf_format(Attr(new), merkle_attr.leaf_format), i, d,
                   chunk_versions[i] + 1)
  /\ UNCHANGED stray

-------------------------------------------------------------------------------
Fault == faults < MaxFaults /\ faults' = faults + 1 /\ UNCHANGED <<written, formats, stray, tainted>>

\* A chunk reads as other data, some chunks as garbage, or the last one is missing.
DamageChunks ==
  /\ Fault /\ chunks # <<>>
  /\ \/ \E i \in DOMAIN chunks, d \in Data : d # chunks[i] /\ chunks' = With(chunks, i, d)
     \/ \E bad \in SUBSET DOMAIN chunks \ {{}} :
          chunks' = [i \in DOMAIN chunks |-> IF i \in bad THEN Garbage ELSE chunks[i]]
     \/ chunks' = Front(chunks)
  /\ UNCHANGED <<merkle_attr, tree_nodes, chunk_versions>>

\* A counter is stale or wrong, or the counters are missing.
DamageVersions ==
  /\ Fault /\ chunk_versions # <<>>
  /\ \/ \E i \in DOMAIN chunk_versions, v \in 1..MaxVersion :
          v # chunk_versions[i] /\ chunk_versions' = [chunk_versions EXCEPT ![i] = v]
     \/ chunk_versions' = <<>>
  /\ UNCHANGED <<merkle_attr, tree_nodes, chunks>>

junk == <<"junk">>

\* A node is damaged, or the node array is cut short.
DamageNodes ==
  /\ Fault
  /\ \E n \in DOMAIN tree_nodes :
       \/ tree_nodes[n] # junk /\ tree_nodes' = [tree_nodes EXCEPT ![n] = junk]
       \/ tree_nodes' = [i \in 0..(n - 1) |-> tree_nodes[i]]
  /\ UNCHANGED <<merkle_attr, chunks, chunk_versions>>

\* A field of the packed attribute is damaged.
DamageAttr ==
  /\ Fault
  /\ \/ merkle_attr' = [merkle_attr EXCEPT !.root = junk]
     \/ merkle_attr' = [merkle_attr EXCEPT !.leaf_format =
                          CHOOSE f \in {"Content", "Bound"} : f # @]
     \/ merkle_attr' = [merkle_attr EXCEPT !.companion_hash = junk]
  /\ merkle_attr' # merkle_attr
  /\ UNCHANGED <<tree_nodes, chunks, chunk_versions>>

Next == \/ \E d \in Data : ExtendMerkle(d)
        \/ \E i \in 1..MaxChunks, d \in Data : UpdateMerkle(i, d) \/ UpdateLeaf(i, d)
        \/ DamageChunks \/ DamageVersions \/ DamageNodes \/ DamageAttr

Spec == Init /\ [][Next]_vars

-------------------------------------------------------------------------------
NodesIntact == ~tainted /\ tree_nodes = written.nodes

\* However updates in place, rebuilds and extensions alternate, the nodes are those
\* a construction from the leaves would give: update_leaf misses no ancestor.
TreeCanonical ==
  NodesIntact => \A t \in reconstruct_tree : from_leaf_hashes(Leaves(t)).nodes = t.nodes

SameChunk(i) == /\ i \in DOMAIN written.chunks /\ chunks[i] = written.chunks[i]
                /\ merkle_attr.leaf_format = "Bound" => chunk_versions[i] = written.versions[i]

\* Whatever is damaged, and whatever was derived from damaged nodes since, a chunk
\* that verify_chunk accepts is the one last written there, under its version if
\* the format binds it, unless a leaf is behind padding, in the slot of a later
\* chunk; and verify_dataset accepts only chunks that were written, and all of them
\* unless update_merkle worked on a node array that was cut short.
OnlyWrittenVerifies ==
  (unpack(merkle_attr) /\ ~stray) =>
    /\ \A i \in DOMAIN chunks : verify_chunk(i - 1) = Ok => SameChunk(i)
    /\ verify_dataset = Ok => /\ \A i \in DOMAIN chunks : SameChunk(i)
                              /\ tainted \/ Len(chunks) = Len(written.chunks)

\* The leaf of a chunk is in the format that verification computes.
Matches(i) == formats[i] = written.attr.leaf_format

\* Undamaged, a dataset verifies, unless extend_merkle grew a padded tree (the leaf
\* goes behind the padding); and its chunks do, except those whose format
\* extend_merkle or update_merkle reset.
IntactVerifies ==
  (artifacts = <<written.attr, written.nodes, written.chunks, written.versions>> /\ ~tainted) =>
    /\ verify_root = Ok
    /\ ~stray => \A i \in DOMAIN chunks : (verify_chunk(i - 1) = Ok) <=> Matches(i)
    /\ chunks # <<>> => ((verify_dataset = Ok)
                           <=> ~stray /\ \A i \in DOMAIN chunks : Matches(i))

\* With the nodes intact, verification blames exactly the damaged chunks:
\* verify_dataset names the first of them, verify_chunk rejects them and no other.
BlamesTheDamaged ==
  LET bad == {i \in DOMAIN chunks : ~SameChunk(i)}
      usable == /\ unpack(merkle_attr) /\ NodesIntact /\ ~stray /\ chunks # <<>>
                /\ Len(chunks) = Len(formats) /\ Len(chunk_versions) = Len(formats)
                /\ \A i \in DOMAIN chunks : Matches(i)
  IN usable =>
       /\ \A i \in DOMAIN chunks : (verify_chunk(i - 1) = Ok) <=> i \notin bad
       /\ verify_dataset = IF bad = {} THEN Ok ELSE <<"HashMismatch", Min(bad) - 1>>
==================================================================================
