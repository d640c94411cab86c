------------------------------- MODULE HnswGraph -------------------------------
(***************************************************************************)
(* HnswIndex (crates/clawhdf5-ann/src/hnsw.rs): the layered graph, built by *)
(* incremental insertion, soft deletion, compaction, search, and its flat   *)
(* encoding in an HDF5 file.                                                *)
(*                                                                         *)
(* A vector is a point on a line, and no point is equally far from two      *)
(* others, so that neighbour lists can be sets: the order in which the      *)
(* loops and heaps of the code see neighbours changes no outcome.  Ids      *)
(* count from 1.                                                            *)
(***************************************************************************)
EXTENDS Integers, SequencesExt

CONSTANTS Points,           \* vectors that may be inserted
          M,                \* m, connections per node above layer 0
          EfConstruction,
          Assignments,      \* what assign_level may return for ids 1, 2, ...
          MaxDeleted        \* bound on the soft-deleted nodes

ASSUME GraphAssumption ==
  /\ M \in Nat /\ M >= 2 /\ EfConstruction \in Nat \ {0} /\ MaxDeleted \in Nat
  /\ \A a, b, c \in Points : (b # c /\ a \in Int) => (a - b # c - a)

VARIABLES
  assign,    \* assign_level, a hash of the id
  vectors,
  graph,     \* graph[layer][node], the neighbours of node
  deleted,
  entry_point

vars == <<assign, vectors, graph, deleted, entry_point>>

Ids == DOMAIN vectors
Top == Cardinality(DOMAIN graph) - 1       \* the top layer; -1 when empty
MaxConn(layer) == IF layer = 0 THEN 2 * M ELSE M

Dist(p, q) == IF p > q THEN p - q ELSE q - p

\* The n members of ids nearest to q, and the nearest one.
Closest(vs, q, ids, n) ==
  {i \in ids : Cardinality({j \in ids : Dist(vs[j], q) < Dist(vs[i], q)}) < n}
Nearest(vs, q, ids) == CHOOSE i \in ids : \A j \in ids : Dist(vs[i], q) <= Dist(vs[j], q)

-------------------------------------------------------------------------------
\* Hop to the closest neighbour while that is closer to q.
RECURSIVE greedy_closest(_, _, _, _)
greedy_closest(vs, layer, q, ep) ==
  LET closer == {n \in layer[ep] : Dist(vs[n], q) < Dist(vs[ep], q)}
  IN  IF closer = {} THEN ep ELSE greedy_closest(vs, layer, q, Nearest(vs, q, closer))

\* The loop of search_layer: expand the closest candidate until it is further
\* away than all of ef results.
ExploredMut(results, ef, far, c) == far <= c

Explored(results, ef, far, c) == far < c /\ Cardinality(results) >= ef

RECURSIVE Explore(_, _, _, _, _, _, _)
Explore(vs, layer, q, ef, candidates, results, visited) ==
  IF candidates = {} THEN results ELSE
  LET c   == Nearest(vs, q, candidates)
      far == Max({Dist(vs[i], q) : i \in results})
      new == layer[c] \ visited
      res == Closest(vs, q, results \cup new, ef)
  IN  IF Explored(results, ef, far, Dist(vs[c], q)) THEN results
      ELSE Explore(vs, layer, q, ef, (candidates \ {c}) \cup (new \cap res), res, visited \cup new)

search_layer(vs, layer, q, ep, ef) == Explore(vs, layer, q, ef, {ep}, {ep}, {ep})

prune_connectionsMut(vs, node, neighbors, max) == neighbors

prune_connections(vs, node, neighbors, max) == Closest(vs, vs[node], neighbors, max)

\* Phase 1 of insert and of search: descend greedily from a layer to another.
RECURSIVE Descend(_, _, _, _, _, _)
Descend(vs, g, q, ep, from, to) ==
  IF from < to THEN ep ELSE Descend(vs, g, q, greedy_closest(vs, g[from], q, ep), from - 1, to)

\* Phase 2 of insert: search and connect from a layer down to layer 0.
RECURSIVE Connect(_, _, _, _, _)
Connect(vs, g, id, ep, layer) ==
  IF layer < 0 THEN g ELSE
  LET max      == MaxConn(layer)
      found    == search_layer(vs, g[layer], vs[id], ep, EfConstruction)
      selected == Closest(vs, vs[id], found, max)
      linked   == [n \in DOMAIN vs |->
                    IF n = id THEN selected
                    ELSE IF n \in selected THEN prune_connections(vs, n, g[layer][n] \cup {id}, max)
                    ELSE g[layer][n]]
  IN  Connect(vs, [g EXCEPT ![layer] = linked], id, Nearest(vs, vs[id], selected), layer - 1)

NewEntryMut(id, level, ep, ep_level) == ep

\* The entry point moves to a node on a higher layer.
NewEntry(id, level, ep, ep_level) == IF level > ep_level THEN id ELSE ep

\* insert on an index given as a record.
InsertInto(ix, p) ==
  LET vs    == Append(ix.vectors, p)
      id    == Len(vs)
      level == assign[id]
      top   == Cardinality(DOMAIN ix.graph) - 1
      grown == [l \in 0..(IF level > top THEN level ELSE top) |->
                  [n \in DOMAIN vs |-> IF l <= top /\ n # id THEN ix.graph[l][n] ELSE {}]]
  IN  IF id = 1 THEN [vectors |-> vs, graph |-> grown, entry_point |-> 1]
      ELSE LET ep_level == assign[ix.entry_point]
               ep == Descend(vs, grown, p, ix.entry_point, ep_level, level + 1)
           IN  [vectors |-> vs,
                graph   |-> Connect(vs, grown, id, ep, IF level < ep_level THEN level ELSE ep_level),
                entry_point |-> NewEntry(id, level, ix.entry_point, ep_level)]

Empty == [vectors |-> <<>>, graph |-> << >>, entry_point |-> 1]

\* build_with_metric inserts the vectors one by one.
build_with_metric(vs) == FoldLeft(InsertInto, Empty, vs)

Becomes(ix) == vectors' = ix.vectors /\ graph' = ix.graph /\ entry_point' = ix.entry_point

-------------------------------------------------------------------------------
Init ==
  /\ assign \in Assignments
  /\ vectors = <<>> /\ graph = << >> /\ deleted = <<>> /\ entry_point = 1

Insert(p) ==
  /\ Len(vectors) < Len(assign) /\ p \notin Range(vectors)
  /\ Becomes(InsertInto([vectors |-> vectors, graph |-> graph, entry_point |-> entry_point], p))
  /\ deleted' = Append(deleted, FALSE)
  /\ UNCHANGED assign

Dead == {i \in Ids : deleted[i]}

MarkDeleted(id) ==
  /\ ~deleted[id] /\ Cardinality(Dead) < MaxDeleted
  /\ deleted' = [deleted EXCEPT ![id] = TRUE]
  /\ UNCHANGED <<assign, vectors, graph, entry_point>>

\* Rebuild from the survivors, in their order.
Compact ==
  /\ LET surviving == [i \in Ids |-> IF deleted[i] THEN <<>> ELSE <<vectors[i]>>]
     IN  Becomes(build_with_metric(FlattenSeq(surviving)))
  /\ deleted' = [i \in 1..(Len(vectors) - Cardinality(Dead)) |-> FALSE]
  /\ UNCHANGED assign

Next == (\E p \in Points : Insert(p)) \/ (\E i \in Ids : MarkDeleted(i)) \/ Compact

Spec == Init /\ [][Next]_vars

-------------------------------------------------------------------------------
\* search(query, k, ef) on a non-empty index, as the set of the ids it returns.
Landing(q) == Descend(vectors, graph, q, entry_point, Top, 1)

search(q, k, ef) ==
  LET found == search_layer(vectors, graph[0], q, Landing(q), IF ef > k THEN ef ELSE k)
  IN  Closest(vectors, q, found \ Dead, k)

\* A layer as to_hdf5_bytes writes it: for each node its count, then its
\* neighbours; and as load_from_hdf5 reads it back, missing nodes padded.
FlatLayer(layer) ==
  FlattenSeq([n \in Ids |-> <<Cardinality(layer[n])>> \o SetToSeq(layer[n])])

RECURSIVE ReadLayerMut(_)
ReadLayerMut(flat) ==
  IF flat = <<>> THEN <<>>
  ELSE <<{flat[i] : i \in 2..flat[1]}>> \o ReadLayerMut(SubSeq(flat, flat[1] + 2, Len(flat)))

RECURSIVE ReadLayer(_)
ReadLayer(flat) ==
  IF flat = <<>> THEN <<>>
  ELSE <<{flat[i] : i \in 2..(flat[1] + 1)}>> \o ReadLayer(SubSeq(flat, flat[1] + 2, Len(flat)))

-------------------------------------------------------------------------------
\* However inserts and prunings interleave: links stay inside the layer of both
\* ends, no node links to itself, and no list outgrows its bound, m on the
\* upper layers and 2m on layer 0.
LinksWithinBounds ==
  \A l \in 0..Top, n \in Ids :
    /\ Cardinality(graph[l][n]) <= MaxConn(l)
    /\ n \notin graph[l][n]
    /\ graph[l][n] # {} => \A x \in graph[l][n] \cup {n} : assign[x] >= l

\* The entry point is on the top layer of the graph, where every search starts,
\* after any order of inserts and compactions.
EntryOnTop == vectors # <<>> => assign[entry_point] = Top

\* Nodes a walk over layer 0 reaches from a node.
RECURSIVE Walk(_, _)
Walk(seen, frontier) ==
  IF frontier = {} THEN seen
  ELSE LET next == UNION {graph[0][n] : n \in frontier} \ seen
       IN  Walk(seen \cup next, next)
Reachable(ep) == Walk({ep}, {ep})

\* A search whose ef covers the index is exact over what its landing node
\* reaches, soft-deleted waypoints included: it returns the k nearest live
\* nodes, and never a deleted one.
SearchExact ==
  vectors # <<>> =>
    \A q \in Points, k \in 1..2 :
      search(q, k, Len(vectors)) = Closest(vectors, q, Reachable(Landing(q)) \ Dead, k)

\* What load_from_hdf5 reads is what to_hdf5_bytes wrote, for every graph that
\* inserts, deletions and compactions can make.
LayersRoundTrip == \A l \in 0..Top : ReadLayer(FlatLayer(graph[l])) = graph[l]
===============================================================================
