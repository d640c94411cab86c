----------------------------- MODULE HnswSyncProofs -----------------------------
(***************************************************************************)
(* Proofs about HnswSync: a search sees exactly the live entries of the      *)
(* cache, for every set of vectors, every dimension and every threshold.    *)
(*                                                                         *)
(* FreshIndexMirrors alone is not inductive: hnsw_on_insert compares the id  *)
(* the index returns with the cache's, so the proof also needs that a clean  *)
(* index has as many nodes as hnsw_synced_len says, and that no clean index  *)
(* is ahead of the cache (else an unhooked push could catch up with it).    *)
(***************************************************************************)
EXTENDS HnswSync, FiniteSetTheorems, TLAPS

CleanIndexInStep ==
  ~hnsw_dirty => /\ hnsw_synced_len <= Len(cache)
                 /\ hnsw => Len(nodes) = hnsw_synced_len

IInv == /\ HnswTypeOK /\ FreshIndexMirrors /\ OneDimension /\ CleanIndexInStep
        /\ SearchSeesCache

-------------------------------------------------------------------------------
\* Compaction keeps only entries of the cache it starts from (MemoryCache::compact).
LEMMA CompactionType ==
  ASSUME NEW c \in Seq(Entry), NEW d \in Compactions(c)
  PROVE  d \in Seq(Entry)
<1> DEFINE n == Cardinality(Live(c))
<1>1. Live(c) \subseteq 1..Len(c)
  BY DEF Live
<1>2. IsFiniteSet(Live(c))
  BY <1>1, FS_Interval, FS_Subset
<1>3. n \in Nat
  BY <1>2, FS_CardinalityType
<1> HIDE DEF n
<1>4. PICK f \in [1..n -> DOMAIN c] : d = [j \in 1..n |-> c[f[j]]]
  BY DEF Compactions, n
<1>5. d \in [1..n -> Entry]
  BY <1>4
<1>6. QED
  BY <1>3, <1>5

\* Marking an entry deleted changes its flag and nothing else
\* (MemoryCache::mark_deleted, HnswIndex::mark_deleted).
LEMMA MarkType ==
  ASSUME NEW c \in Seq(Entry), NEW i \in DOMAIN c
  PROVE  /\ Mark(c, i) \in Seq(Entry)
         /\ Len(Mark(c, i)) = Len(c) /\ DOMAIN Mark(c, i) = DOMAIN c
         /\ \A k \in DOMAIN c : Mark(c, i)[k].emb = c[k].emb
         /\ Live(Mark(c, i)) # DOMAIN Mark(c, i)
<1> DEFINE n == Len(c)
           m == Mark(c, i)
<1>1. n \in Nat /\ DOMAIN c = 1..n /\ c \in [1..n -> Entry]
  OBVIOUS
<1>2. m = [k \in 1..n |-> IF k = i THEN [c[i] EXCEPT !.dead = TRUE] ELSE c[k]]
  BY <1>1 DEF Mark
<1>3. /\ [c[i] EXCEPT !.dead = TRUE] \in Entry
      /\ [c[i] EXCEPT !.dead = TRUE].emb = c[i].emb
      /\ [c[i] EXCEPT !.dead = TRUE].dead = TRUE
  BY <1>1 DEF Entry
<1>4. m \in [1..n -> Entry]
  BY <1>1, <1>2, <1>3
<1>5. m \in Seq(Entry) /\ Len(m) = n /\ DOMAIN m = 1..n
  BY <1>1, <1>4
<1>6. \A k \in 1..n : m[k].emb = c[k].emb
  BY <1>2, <1>3
<1>7. i \in DOMAIN m /\ m[i].dead = TRUE
  BY <1>1, <1>2, <1>3, <1>5
<1>8. Live(m) # DOMAIN m
  BY <1>7 DEF Live
<1>9. QED
  BY <1>1, <1>5, <1>6, <1>8

\* Replacing the vector of an entry keeps the type (MemoryCache::update).
LEMMA UpdateType ==
  ASSUME NEW c \in Seq(Entry), NEW i \in DOMAIN c, NEW v \in Vectors
  PROVE  [c EXCEPT ![i].emb = v] \in Seq(Entry)
<1> DEFINE n == Len(c)
           m == [c EXCEPT ![i].emb = v]
<1>1. n \in Nat /\ DOMAIN c = 1..n /\ c \in [1..n -> Entry]
  OBVIOUS
<1>2. m = [k \in 1..n |-> IF k = i THEN [c[i] EXCEPT !.emb = v] ELSE c[k]]
  BY <1>1
<1>3. [c[i] EXCEPT !.emb = v] \in Entry
  BY <1>1 DEF Entry
<1>4. m \in [1..n -> Entry]
  BY <1>1, <1>2, <1>3
<1>5. QED
  BY <1>1, <1>4

\* The new entry that save and record push.
LEMMA NewType == ASSUME NEW v \in Vectors PROVE New(v) \in Entry
  BY DEF New, Entry

-------------------------------------------------------------------------------
\* The type invariant, and with it every conjunct of IInv, holds initially.
LEMMA InitIInv == Init => IInv
<1> SUFFICES ASSUME Init PROVE IInv
  OBVIOUS
<1>1. HnswTypeOK
  <2>1. <<>> \in Seq(Entry) /\ {} \subseteq Nat \X Vectors /\ 0 \in Nat
    OBVIOUS
  <2>2. QED
    BY <2>1 DEF Init, HnswTypeOK
<1>2. ~Indexable(cache) /\ LiveEntries(cache) = {}
  BY DEF Init, Indexable, LiveEntries, Live
<1>3. QED
  BY <1>1, <1>2 DEF Init, IInv, FreshIndexMirrors, Fresh, OneDimension, CleanIndexInStep,
     SearchSeesCache

\* Every call but search keeps the types.
LEMMA ChangeType ==
  ASSUME HnswTypeOK, Change, searched' = FALSE, candidates' = {}
  PROVE  HnswTypeOK'
<1> USE DEF HnswTypeOK
<1>0. /\ <<>> \in Seq(Entry) /\ 0 \in Nat /\ candidates' \subseteq Nat \X Vectors
      /\ searched' \in BOOLEAN
  <2>1. <<>> \in Seq(Entry) /\ 0 \in Nat
    OBVIOUS
  <2>2. searched' \in BOOLEAN /\ candidates' \subseteq Nat \X Vectors
    BY Zenon
  <2>3. QED
    BY <2>1, <2>2
<1>1. CASE Reopen
  BY <1>0, <1>1 DEF Reopen
<1>2. CASE Compact
  <2>1. cache' \in Seq(Entry) /\ hnsw_dirty' \in BOOLEAN
    BY <1>2, CompactionType DEF Compact, CompactFrom
  <2>2. QED
    BY <1>0, <1>2, <2>1 DEF Compact
<1>3. ASSUME NEW v \in Vectors, Save(v)
      PROVE  HnswTypeOK'
  <2>1. cache' \in Seq(Entry)
    BY <1>3, NewType DEF Save
  <2>2. Append(nodes, New(v)) \in Seq(Entry)
    BY NewType
  <2>3. Len(cache) + 1 \in Nat
    OBVIOUS
  <2>4. QED
    BY <1>0, <1>3, <2>1, <2>2, <2>3 DEF Save, OnInsert
<1>4. ASSUME NEW v \in Vectors, PushUnhooked(v)
      PROVE  HnswTypeOK'
  <2>1. cache' \in Seq(Entry)
    BY <1>4, NewType DEF PushUnhooked
  <2>2. QED
    BY <1>0, <1>4, <2>1 DEF PushUnhooked
<1>5. ASSUME NEW v \in Vectors, NEW w \in Vectors, SaveBatch(v, w)
      PROVE  HnswTypeOK'
  <2>1. cache' \in Seq(Entry)
    BY <1>5, NewType DEF SaveBatch
  <2>2. QED
    BY <1>0, <1>5, <2>1 DEF SaveBatch
<1>6. ASSUME NEW i \in DOMAIN cache, Delete(i)
      PROVE  HnswTypeOK'
  <2>1. nodes' \in Seq(Entry)
    BY <1>6, MarkType DEF Delete, OnDelete
  <2>2. cache' \in Seq(Entry) /\ hnsw_dirty' \in BOOLEAN
    BY <1>6, MarkType, CompactionType DEF Delete, CompactFrom
  <2>3. QED
    BY <1>0, <1>6, <2>1, <2>2 DEF Delete
<1>7. ASSUME NEW i \in Live(cache), NEW v \in Vectors, Update(i, v)
      PROVE  HnswTypeOK'
  <2>1. cache' \in Seq(Entry)
    BY <1>7, UpdateType DEF Update, Live
  <2>2. QED
    BY <1>0, <1>7, <2>1 DEF Update
<1>8. QED
  BY <1>1, <1>2, <1>3, <1>4, <1>5, <1>6, <1>7 DEF Change

Rest == FreshIndexMirrors /\ OneDimension /\ CleanIndexInStep

\* save keeps the index in step: with equal lengths a clean index mirrors the cache,
\* so appending to both keeps it a mirror; otherwise it becomes dirty.
LEMMA SaveInStep ==
  ASSUME HnswTypeOK, Rest, NEW v \in Vectors, Save(v)
  PROVE  Rest'
<1> USE DEF HnswTypeOK
<1>1. /\ cache' = Append(cache, New(v)) /\ New(v) \in Entry /\ New(v).emb = v
      /\ Len(cache') = Len(cache) + 1
  BY NewType DEF Save, New
<1>2. CASE hnsw_dirty
  BY <1>1, <1>2 DEF Save, OnInsert, Rest, FreshIndexMirrors, Fresh, OneDimension,
     CleanIndexInStep
<1>3. CASE ~hnsw_dirty /\ hnsw /\ Dim(v) = Dim(nodes[1].emb)
  <2>1. nodes' = Append(nodes, New(v)) /\ hnsw'
    BY <1>3 DEF Save, OnInsert
  <2>2. Dim(v) = EmbeddingDim /\ nodes # <<>>
    <3>1. nodes # <<>> /\ \A i \in DOMAIN nodes : Dim(nodes[i].emb) = EmbeddingDim
      BY <1>3 DEF Rest, OneDimension
    <3>2. 1 \in DOMAIN nodes
      BY <3>1
    <3>3. QED
      BY <1>3, <3>1, <3>2
  <2>3. OneDimension'
    <3>1. nodes' # <<>> /\ Len(nodes') = Len(nodes) + 1
      BY <1>1, <2>1
    <3>2. ASSUME NEW i \in DOMAIN nodes' PROVE Dim(nodes'[i].emb) = EmbeddingDim
      <4>1. CASE i = Len(nodes) + 1
        BY <1>1, <2>1, <2>2, <4>1
      <4>2. CASE i # Len(nodes) + 1
        <5>1. i \in DOMAIN nodes /\ nodes'[i] = nodes[i]
          BY <1>1, <2>1, <3>1, <4>2
        <5>2. QED
          BY <1>3, <5>1 DEF Rest, OneDimension
      <4>3. QED
        BY <4>1, <4>2
    <3>3. QED
      BY <3>1, <3>2 DEF OneDimension
  <2>4. CASE Len(nodes) = Len(cache)
    <3>1. ~hnsw_dirty' /\ hnsw_synced_len' = Len(cache) + 1
      BY <1>3, <2>4 DEF Save, OnInsert
    <3>2. nodes = cache
      BY <1>3, <2>4 DEF Rest, CleanIndexInStep, FreshIndexMirrors, Fresh
    <3>3. nodes' = cache'
      BY <1>1, <2>1, <3>2
    <3>4. Indexable(cache)
      BY <1>3, <2>4 DEF Rest, CleanIndexInStep, FreshIndexMirrors, Fresh
    <3>5. Indexable(cache')
      BY <2>1, <2>3, <3>3, <3>4 DEF OneDimension, Indexable
    <3>6. QED
      BY <1>1, <2>1, <2>3, <3>1, <3>3, <3>5 DEF Rest, FreshIndexMirrors, CleanIndexInStep
  <2>5. CASE Len(nodes) # Len(cache)
    <3>1. hnsw_dirty'
      BY <1>3, <2>5 DEF Save, OnInsert
    <3>2. QED
      BY <2>3, <3>1 DEF Rest, FreshIndexMirrors, Fresh, CleanIndexInStep
  <2>6. QED
    BY <2>4, <2>5
<1>4. CASE ~hnsw_dirty /\ ~(hnsw /\ Dim(v) = Dim(nodes[1].emb))
  <2>1. hnsw_dirty' /\ UNCHANGED <<hnsw, nodes>>
    BY <1>4 DEF Save, OnInsert
  <2>2. QED
    BY <2>1 DEF Rest, FreshIndexMirrors, Fresh, OneDimension, CleanIndexInStep
<1>5. QED
  BY <1>2, <1>3, <1>4

\* delete without compaction marks the same entry in the cache and, if it is there,
\* in the index; with compaction the index becomes dirty.
LEMMA DeleteInStep ==
  ASSUME HnswTypeOK, Rest, NEW i \in DOMAIN cache, Delete(i)
  PROVE  Rest'
<1> USE DEF HnswTypeOK
<1>1. UNCHANGED <<hnsw, hnsw_synced_len>> /\ nodes' = OnDelete(i)
  BY DEF Delete
<1>2. /\ nodes' \in Seq(Entry) /\ Len(nodes') = Len(nodes)
      /\ \A k \in DOMAIN nodes : nodes'[k].emb = nodes[k].emb
  BY <1>1, MarkType DEF OnDelete
<1>3. OneDimension'
  BY <1>1, <1>2 DEF Rest, OneDimension
<1>4. CASE hnsw_dirty'
  BY <1>3, <1>4 DEF Rest, FreshIndexMirrors, Fresh, CleanIndexInStep
<1>5. CASE ~hnsw_dirty'
  <2>1. cache' = Mark(cache, i) /\ ~hnsw_dirty
    BY <1>5, MarkType DEF Delete, CompactFrom
  <2>2. /\ Len(cache') = Len(cache) /\ cache' \in Seq(Entry)
        /\ \A k \in DOMAIN cache : cache'[k].emb = cache[k].emb
    BY <2>1, MarkType
  <2>3. CleanIndexInStep'
    BY <1>1, <1>2, <2>1, <2>2 DEF Rest, CleanIndexInStep
  <2>4. Indexable(cache') <=> Indexable(cache)
    <3>1. DOMAIN cache' = DOMAIN cache /\ (cache' = <<>> <=> cache = <<>>)
      BY <2>2
    <3>2. QED
      BY <2>2, <3>1 DEF Indexable
  <2>5. Fresh' => Fresh
    BY <1>1, <2>1, <2>2 DEF Fresh
  <2>6. ASSUME Fresh', hnsw' PROVE nodes' = cache'
    <3>1. nodes = cache
      BY <1>1, <2>5, <2>6 DEF Rest, FreshIndexMirrors
    <3>2. QED
      BY <1>1, <2>1, <2>6, <3>1 DEF OnDelete
  <2>7. FreshIndexMirrors'
    BY <1>1, <2>4, <2>5, <2>6 DEF Rest, FreshIndexMirrors
  <2>8. QED
    BY <1>3, <2>3, <2>7 DEF Rest
<1>6. QED
  BY <1>4, <1>5

\* An unhooked push leaves a clean index shorter than the cache, so not fresh.
LEMMA PushInStep ==
  ASSUME HnswTypeOK, Rest, NEW v \in Vectors, PushUnhooked(v)
  PROVE  Rest'
<1>1. Len(cache') = Len(cache) + 1 /\ Len(cache) \in Nat
  BY NewType DEF PushUnhooked, HnswTypeOK
<1>2. UNCHANGED <<hnsw, nodes, hnsw_dirty, hnsw_synced_len>> /\ hnsw_synced_len \in Nat
  BY DEF PushUnhooked, HnswTypeOK
<1>3. CleanIndexInStep'
  BY <1>1, <1>2 DEF Rest, CleanIndexInStep
<1>4. ~Fresh'
  BY <1>1, <1>2 DEF Rest, CleanIndexInStep, Fresh
<1>5. OneDimension'
  BY <1>2 DEF Rest, OneDimension
<1>6. QED
  BY <1>3, <1>4, <1>5 DEF Rest, FreshIndexMirrors

\* Every call but search keeps the index in step with the cache.
LEMMA ChangeInStep ==
  ASSUME HnswTypeOK, Rest, Change
  PROVE  Rest'
<1>1. CASE Reopen
  BY <1>1 DEF Reopen, Rest, FreshIndexMirrors, Fresh, OneDimension, CleanIndexInStep
<1>2. CASE Compact
  <2>1. UNCHANGED <<hnsw, nodes, hnsw_synced_len>>
    BY <1>2 DEF Compact
  <2>2. CASE hnsw_dirty'
    BY <2>1, <2>2 DEF Rest, FreshIndexMirrors, Fresh, OneDimension, CleanIndexInStep
  <2>3. CASE ~hnsw_dirty'
    <3>1. UNCHANGED <<cache, hnsw_dirty>>
      BY <1>2, <2>3 DEF Compact, CompactFrom
    <3>2. QED
      BY <2>1, <3>1 DEF Rest, FreshIndexMirrors, Fresh, OneDimension, CleanIndexInStep
  <2>4. QED
    BY <2>2, <2>3
<1>3. ASSUME NEW v \in Vectors, NEW w \in Vectors, SaveBatch(v, w)
      PROVE  Rest'
  BY <1>3 DEF SaveBatch, Rest, FreshIndexMirrors, Fresh, OneDimension, CleanIndexInStep
<1>4. ASSUME NEW i \in Live(cache), NEW v \in Vectors, Update(i, v)
      PROVE  Rest'
  BY <1>4 DEF Update, Rest, FreshIndexMirrors, Fresh, OneDimension, CleanIndexInStep
<1>5. QED
  BY <1>1, <1>2, <1>3, <1>4, SaveInStep, DeleteInStep, PushInStep DEF Change

\* A search leaves the index fresh, so what it looks at is the cache.
LEMMA SearchSees ==
  ASSUME HnswTypeOK, Rest, NEW d \in Nat, Search(d)
  PROVE  HnswTypeOK' /\ Rest' /\ SearchSeesCache'
<1> USE DEF HnswTypeOK
<1>1. cache' = cache /\ searched' /\ EnsureFresh /\ Len(cache) \in Nat
  BY DEF Search
<1>2. /\ nodes' \in Seq(Entry) /\ hnsw' \in BOOLEAN /\ hnsw_dirty' \in BOOLEAN
      /\ hnsw_synced_len' \in Nat
  <2>1. Indexable(cache) \in BOOLEAN /\ <<>> \in Seq(Entry)
    BY DEF Indexable
  <2>2. CASE hnsw_dirty \/ hnsw_synced_len # Len(cache)
    BY <1>1, <2>1, <2>2 DEF EnsureFresh
  <2>3. CASE ~(hnsw_dirty \/ hnsw_synced_len # Len(cache))
    BY <1>1, <2>3 DEF EnsureFresh
  <2>4. QED
    BY <2>2, <2>3
<1>3. Fresh'
  BY <1>1 DEF EnsureFresh, Fresh
<1>4. (hnsw' <=> Indexable(cache)) /\ (hnsw' => nodes' = cache)
  <2>1. CASE hnsw_dirty \/ hnsw_synced_len # Len(cache)
    BY <1>1, <2>1 DEF EnsureFresh
  <2>2. CASE ~(hnsw_dirty \/ hnsw_synced_len # Len(cache))
    BY <1>1, <2>2 DEF EnsureFresh, Rest, FreshIndexMirrors, Fresh
  <2>3. QED
    BY <2>1, <2>2
<1>5. candidates' = LiveEntries(cache)
  BY <1>4 DEF Search
<1>6. candidates' \subseteq Nat \X Vectors
  <2>1. ASSUME NEW i \in Live(cache) PROVE <<i, cache[i].emb>> \in Nat \X Vectors
    <3>1. i \in Nat /\ cache[i] \in Entry
      BY DEF Live
    <3>2. QED
      BY <3>1 DEF Entry
  <2>2. QED
    BY <1>5, <2>1 DEF LiveEntries
<1>7. HnswTypeOK'
  BY <1>1, <1>2, <1>6 DEF Search
<1>8. SearchSeesCache'
  BY <1>1, <1>5 DEF SearchSeesCache
<1>9. FreshIndexMirrors'
  BY <1>1, <1>4 DEF FreshIndexMirrors
<1>10. OneDimension'
  BY <1>4 DEF OneDimension, Indexable
<1>11. CleanIndexInStep'
  BY <1>1, <1>3, <1>4 DEF CleanIndexInStep, Fresh
<1>12. QED
  BY <1>7, <1>8, <1>9, <1>10, <1>11 DEF Rest

\* IInv is inductive.
LEMMA NextIInv == IInv /\ [Next]_vars => IInv'
<1> SUFFICES ASSUME IInv, [Next]_vars PROVE IInv'
  OBVIOUS
<1>1. HnswTypeOK /\ Rest /\ SearchSeesCache
  BY DEF IInv, Rest
<1>2. ASSUME NEW v \in Vectors, Search(Dim(v)) PROVE IInv'
  BY <1>1, <1>2, SearchSees, HnswAssumption DEF IInv, Rest
<1>3. CASE Change /\ searched' = FALSE /\ candidates' = {}
  <2>1. HnswTypeOK'
    BY <1>1, <1>3, ChangeType
  <2>2. Rest'
    BY <1>1, <1>3, ChangeInStep
  <2>3. QED
    BY <1>3, <2>1, <2>2 DEF IInv, Rest, SearchSeesCache
<1>4. CASE UNCHANGED vars
  BY <1>1, <1>4 DEF vars, IInv, HnswTypeOK, Rest, FreshIndexMirrors, Fresh, OneDimension,
     CleanIndexInStep, SearchSeesCache, LiveEntries, Live
<1>5. QED
  BY <1>2, <1>3, <1>4 DEF Next

\* The cache, the index and their bookkeeping keep their types.
THEOREM HnswTypeCorrect == Spec => []HnswTypeOK
<1>1. IInv => HnswTypeOK
  BY DEF IInv
<1>2. QED
  BY InitIInv, NextIInv, <1>1, PTL DEF Spec

\* An index that ensure_hnsw_fresh leaves alone equals the cache.
THEOREM FreshIndexCorrect == Spec => []FreshIndexMirrors
<1>1. IInv => FreshIndexMirrors
  BY DEF IInv
<1>2. QED
  BY InitIInv, NextIInv, <1>1, PTL DEF Spec

\* The assertion of HnswIndex::insert never fails.
THEOREM InsertAssertionHolds == Spec => []OneDimension
<1>1. IInv => OneDimension
  BY DEF IInv
<1>2. QED
  BY InitIInv, NextIInv, <1>1, PTL DEF Spec

\* Every search looks at exactly the live entries of the cache.
THEOREM SearchCorrect == Spec => []SearchSeesCache
<1>1. IInv => SearchSeesCache
  BY DEF IInv
<1>2. QED
  BY InitIInv, NextIInv, <1>1, PTL DEF Spec
================================================================================
