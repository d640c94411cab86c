-------------------------------- MODULE HnswSync --------------------------------
(***************************************************************************)
(* The HNSW index that HDF5Memory keeps beside its cache                     *)
(* (crates/clawhdf5-agent/src/lib.rs, "HNSW index maintenance").  The index   *)
(* is built lazily, extended and marked by hooks in the calls that change   *)
(* the cache, and rebuilt before a search when a dirty flag or a length      *)
(* mismatch says so.  Some calls push entries without calling a hook.       *)
(*                                                                         *)
(* A node of the index is its vector and its deletion flag (the graph that   *)
(* search walks is not modelled here), so the index mirrors the cache when  *)
(* the two sequences are equal.                                            *)
(***************************************************************************)
EXTENDS Integers, Sequences, FiniteSets

CONSTANTS Vectors,          \* embeddings, as values
          Dim(_),           \* the length of an embedding
          EmbeddingDim,     \* MemoryConfig::embedding_dim
          CompactPercent,   \* MemoryConfig::compact_threshold, 0 for never
          MaxLen            \* bound on the entries of the cache

ASSUME HnswAssumption ==
  /\ EmbeddingDim \in Nat /\ CompactPercent \in Nat /\ MaxLen \in Nat
  /\ \A v \in Vectors : Dim(v) \in Nat

VARIABLES
  cache,            \* MemoryCache: embeddings and tombstones
  hnsw,             \* whether the index is Some
  nodes,            \* its vectors and deletion flags
  hnsw_dirty,
  hnsw_synced_len,
  searched,         \* whether the last call was a search
  candidates        \* the ids and vectors it looked at

vars == <<cache, hnsw, nodes, hnsw_dirty, hnsw_synced_len, searched, candidates>>

Entry == [emb : Vectors, dead : BOOLEAN]
Live(c) == {i \in DOMAIN c : ~c[i].dead}
LiveEntries(c) == {<<i, c[i].emb>> : i \in Live(c)}
Mark(c, i) == [c EXCEPT ![i].dead = TRUE]
New(v) == [emb |-> v, dead |-> FALSE]

\* create
Init ==
  /\ cache = <<>> /\ hnsw = FALSE /\ nodes = <<>>
  /\ hnsw_dirty = FALSE /\ hnsw_synced_len = 0
  /\ searched = FALSE /\ candidates = {}

\* open: the cache comes from the file and the log, the index is not persisted.
Reopen ==
  /\ hnsw' = FALSE /\ nodes' = <<>> /\ hnsw_dirty' = TRUE /\ hnsw_synced_len' = 0
  /\ UNCHANGED cache

-------------------------------------------------------------------------------
\* Mutant: only the emptiness of the cache is looked at.
IndexableMut(c) == EmbeddingDim # 0 /\ c # <<>>

\* build_hnsw_from_cache returns an index for these caches, a copy of the cache.
Indexable(c) ==
  /\ EmbeddingDim # 0 /\ c # <<>>
  /\ \A i \in DOMAIN c : Dim(c[i].emb) = EmbeddingDim

\* Mutant: the index is rebuilt only when the flag is set.
EnsureFreshMut ==
  IF hnsw_dirty
  THEN /\ hnsw' = Indexable(cache)
       /\ nodes' = IF Indexable(cache) THEN cache ELSE <<>>
       /\ hnsw_synced_len' = Len(cache)
       /\ hnsw_dirty' = FALSE
  ELSE UNCHANGED <<hnsw, nodes, hnsw_synced_len, hnsw_dirty>>

\* ensure_hnsw_fresh
EnsureFresh ==
  IF hnsw_dirty \/ hnsw_synced_len # Len(cache)
  THEN /\ hnsw' = Indexable(cache)
       /\ nodes' = IF Indexable(cache) THEN cache ELSE <<>>
       /\ hnsw_synced_len' = Len(cache)
       /\ hnsw_dirty' = FALSE
  ELSE UNCHANGED <<hnsw, nodes, hnsw_synced_len, hnsw_dirty>>

\* Mutant: the id returned by the index is not compared with the cache's.
OnInsertMut(v) ==
  IF hnsw_dirty THEN UNCHANGED <<hnsw, nodes, hnsw_synced_len, hnsw_dirty>>
  ELSE IF hnsw /\ Dim(v) = Dim(nodes[1].emb)
  THEN /\ nodes' = Append(nodes, New(v))
       /\ hnsw_synced_len' = Len(cache) + 1
       /\ UNCHANGED <<hnsw, hnsw_dirty>>
  ELSE hnsw_dirty' = TRUE /\ UNCHANGED <<hnsw, nodes, hnsw_synced_len>>

\* hnsw_on_insert, for the entry that becomes the last of the cache.
OnInsert(v) ==
  IF hnsw_dirty THEN UNCHANGED <<hnsw, nodes, hnsw_synced_len, hnsw_dirty>>
  ELSE IF hnsw /\ Dim(v) = Dim(nodes[1].emb)
  THEN /\ nodes' = Append(nodes, New(v))
       /\ IF Len(nodes) = Len(cache)
          THEN hnsw_synced_len' = Len(cache) + 1 /\ UNCHANGED hnsw_dirty
          ELSE hnsw_dirty' = TRUE /\ UNCHANGED hnsw_synced_len
       /\ UNCHANGED hnsw
  ELSE hnsw_dirty' = TRUE /\ UNCHANGED <<hnsw, nodes, hnsw_synced_len>>

\* hnsw_on_delete; HnswIndex::mark_deleted ignores an id it does not have.
OnDelete(i) ==
  IF hnsw /\ i \in DOMAIN nodes THEN Mark(nodes, i) ELSE nodes

-------------------------------------------------------------------------------
\* save
Save(v) ==
  /\ Len(cache) < MaxLen
  /\ cache' = Append(cache, New(v))
  /\ OnInsert(v)

\* Mutant: the tombstone is replaced with the embedding.
UpdateMut(i, v) ==
  /\ cache' = [cache EXCEPT ![i] = [emb |-> v]]
  /\ hnsw_dirty' = TRUE
  /\ UNCHANGED <<hnsw, nodes, hnsw_synced_len>>

\* save_or_update when the key has an entry (otherwise it is save)
Update(i, v) ==
  /\ cache' = [cache EXCEPT ![i].emb = v]
  /\ hnsw_dirty' = TRUE
  /\ UNCHANGED <<hnsw, nodes, hnsw_synced_len>>

\* save_batch
SaveBatch(v, w) ==
  /\ Len(cache) + 2 <= MaxLen
  /\ cache' = Append(Append(cache, New(v)), New(w))
  /\ hnsw_dirty' = TRUE
  /\ UNCHANGED <<hnsw, nodes, hnsw_synced_len>>

\* record and promote_ephemeral push without a hook.
PushUnhooked(v) ==
  /\ Len(cache) < MaxLen
  /\ cache' = Append(cache, New(v))
  /\ UNCHANGED <<hnsw, nodes, hnsw_dirty, hnsw_synced_len>>

\* MemoryCache::compact: f maps the new indices to the old ones, the inverse of the
\* code's index_map.
Compactions(c) ==
  LET n == Cardinality(Live(c))
      order == {f \in [1..n -> DOMAIN c] :
                  /\ \A j \in 1..n, k \in 1..n : j < k => f[j] < f[k]
                  /\ {f[j] : j \in 1..n} = Live(c)}
  IN {[j \in 1..n |-> c[f[j]]] : f \in order}

\* Mutant: the index is left as it is.
CompactFromMut(c) == cache' \in Compactions(c) /\ UNCHANGED hnsw_dirty

\* HDF5Memory::compact on the cache c; nothing happens when no entry was removed.
CompactFrom(c) ==
  IF Live(c) = DOMAIN c
  THEN cache' = c /\ UNCHANGED hnsw_dirty
  ELSE cache' \in Compactions(c) /\ hnsw_dirty' = TRUE

Compact ==
  /\ CompactFrom(cache)
  /\ UNCHANGED <<hnsw, nodes, hnsw_synced_len>>

ExceedsThreshold(c) ==
  CompactPercent > 0 /\ 100 * (Len(c) - Cardinality(Live(c))) > CompactPercent * Len(c)

\* delete, with its automatic compaction, which a failing flush skips
Delete(i) ==
  /\ ~cache[i].dead
  /\ nodes' = OnDelete(i)
  /\ \/ ExceedsThreshold(Mark(cache, i)) /\ CompactFrom(Mark(cache, i))
     \/ cache' = Mark(cache, i) /\ UNCHANGED hnsw_dirty
  /\ UNCHANGED <<hnsw, hnsw_synced_len>>

\* vector_keyword_search: the candidates come from the index, or from a scan of the
\* cache when there is none or the query has another dimension.
Search(d) ==
  /\ EnsureFresh
  /\ searched' = TRUE
  /\ candidates' = LiveEntries(IF hnsw' /\ d = Dim(nodes'[1].emb) THEN nodes' ELSE cache)
  /\ UNCHANGED cache

Change ==
  \/ Reopen \/ Compact
  \/ \E v \in Vectors : Save(v) \/ PushUnhooked(v)
  \/ \E v, w \in Vectors : SaveBatch(v, w)
  \/ \E i \in DOMAIN cache : Delete(i)
  \/ \E i \in Live(cache), v \in Vectors : Update(i, v)

Next ==
  \/ \E v \in Vectors : Search(Dim(v))
  \/ Change /\ searched' = FALSE /\ candidates' = {}

Spec == Init /\ [][Next]_vars

-------------------------------------------------------------------------------
HnswTypeOK ==
  /\ cache \in Seq(Entry) /\ nodes \in Seq(Entry)
  /\ hnsw \in BOOLEAN /\ hnsw_dirty \in BOOLEAN /\ hnsw_synced_len \in Nat
  /\ searched \in BOOLEAN /\ candidates \subseteq Nat \X Vectors

Fresh == ~hnsw_dirty /\ hnsw_synced_len = Len(cache)

\* Whenever ensure_hnsw_fresh would leave the index alone, the index is there exactly
\* when the cache can be indexed, and node i is entry i, deletion flag included: a
\* search never sees a deleted, moved or stale entry, whatever mix of hooked and
\* unhooked calls came before ("correctness is guaranteed by ensure_hnsw_fresh").
FreshIndexMirrors ==
  Fresh => /\ hnsw <=> Indexable(cache)
           /\ hnsw => nodes = cache

\* A search looks at exactly the entries that are live in the cache, under their
\* current ids and with their current vectors (the linear scan is the oracle of
\* vector_keyword_search).
SearchSeesCache == searched => candidates = LiveEntries(cache)

\* The assertion of HnswIndex::insert: an index in use has a first vector, and all
\* its vectors have that one's dimension.
OneDimension ==
  hnsw => /\ nodes # <<>>
          /\ \A i \in DOMAIN nodes : Dim(nodes[i].emb) = EmbeddingDim
================================================================================
