----------------------------- MODULE Consolidation -----------------------------
(***************************************************************************)
(* ConsolidationEngine (crates/clawhdf5-agent/src/consolidation.rs): records *)
(* move from the Working to the Episodic to the Semantic tier and are       *)
(* evicted by decay score when a tier is over its capacity.                 *)
(*                                                                         *)
(* Scores are integers: an importance in tenths, for the default weights    *)
(* and for embeddings that are equal or orthogonal, and a decay whose rate  *)
(* halves it at every tick of the clock, scaled to stay whole.              *)
(***************************************************************************)
EXTENDS Integers, FiniteSets, Functions

CONSTANTS Embeddings,
          WorkingCapacity, EpisodicCapacity,
          PromoteImportance,   \* working_to_episodic_threshold, in tenths
          PromoteAccess,       \* episodic_to_semantic_threshold
          MaxTime,             \* bound on the caller's clock
          MaxRecords,          \* bound on the records ever added
          MaxAccess            \* bound on a record's access_count

ASSUME ConsolidationAssumption ==
  /\ WorkingCapacity \in Nat /\ EpisodicCapacity \in Nat
  /\ PromoteImportance \in Nat /\ PromoteAccess \in Nat
  /\ MaxTime \in Nat /\ MaxRecords \in Nat /\ MaxAccess \in Nat

VARIABLES
  now,          \* the time callers pass
  records,      \* ConsolidationEngine::records, by id
  next_id,
  evictions, promotions,   \* ConsolidationStats
  settled       \* history: nothing was added since the last cycle

vars == <<now, records, next_id, evictions, promotions, settled>>

Tiers == {"Working", "Episodic", "Semantic"}

Init == /\ now = 0 /\ records = << >> /\ next_id = 0
        /\ evictions = 0 /\ promotions = 0 /\ settled = TRUE

InTier(r, t) == {i \in DOMAIN r : r[i].tier = t}

-------------------------------------------------------------------------------
\* 1 - the largest similarity to a Working record, and 1 if there is none.
score_surprise(v) ==
  IF \E i \in InTier(records, "Working") : records[i].embedding = v THEN 0 ELSE 1

\* The weights 0.5, 0.3 and 0.2 of surprise, correction and length.
score_combined(surprise, correction, length) == 5 * surprise + 3 * correction + 2 * length

AddMemory(v, correction, length) ==
  /\ next_id < MaxRecords
  /\ records' = [i \in DOMAIN records \cup {next_id} |->
       IF i # next_id THEN records[i]
       ELSE [embedding |-> v, tier |-> "Working", access_count |-> 0, last_accessed |-> now,
             importance |-> score_combined(score_surprise(v), correction, length)]]
  /\ next_id' = next_id + 1
  /\ settled' = FALSE
  /\ UNCHANGED <<now, evictions, promotions>>

AccessMemory(id) ==
  /\ id \in DOMAIN records /\ records[id].access_count < MaxAccess
  /\ records' = [records EXCEPT ![id].access_count = @ + 1, ![id].last_accessed = now]
  /\ UNCHANGED <<now, next_id, evictions, promotions, settled>>

-------------------------------------------------------------------------------
\* importance * (access_count + 1) * e^(-lambda * elapsed), in units of
\* 2^-MaxTime for lambda = ln 2 per tick; elapsed is never negative.
compute_decay(r) ==
  LET elapsed == IF now >= r.last_accessed THEN now - r.last_accessed ELSE 0
  IN  r.importance * (r.access_count + 1) * 2^(MaxTime - elapsed)

\* The order of the stable sort by decay over records kept in id order.
Before(r, a, b) ==
  \/ compute_decay(r[a]) < compute_decay(r[b])
  \/ compute_decay(r[a]) = compute_decay(r[b]) /\ a < b

\* The records of a tier that an eviction down to the capacity removes.
OverflowMut(r, tier, capacity) ==
  LET ids == InTier(r, tier)
  IN  {a \in ids : Cardinality({b \in ids : Before(r, a, b)}) < Cardinality(ids) - capacity}

AnyTierMut(r, tier, capacity) ==
  LET ids == DOMAIN r
  IN  {a \in ids : Cardinality({b \in ids : Before(r, b, a)}) < Cardinality(ids) - capacity}

Overflow(r, tier, capacity) ==
  LET ids == InTier(r, tier)
  IN  {a \in ids : Cardinality({b \in ids : Before(r, b, a)}) < Cardinality(ids) - capacity}

Important(rec) == rec.importance > PromoteImportance
Frequent(rec) == rec.access_count > PromoteAccess

ToEpisodic(r) ==
  [i \in DOMAIN r |-> IF r[i].tier = "Working" /\ Important(r[i])
                      THEN [r[i] EXCEPT !.tier = "Episodic"] ELSE r[i]]

ToSemantic(r) ==
  [i \in DOMAIN r |-> IF r[i].tier = "Episodic" /\ Frequent(r[i])
                      THEN [r[i] EXCEPT !.tier = "Semantic"] ELSE r[i]]

MovedMut(r, s) == Cardinality(InTier(s, "Semantic")) - Cardinality(InTier(r, "Semantic"))

Moved(r, s) == Cardinality({i \in DOMAIN r : r[i].tier # s[i].tier})

\* Episodic eviction before the promotions instead of after them.
ConsolidateMut ==
  LET out1     == Overflow(records, "Working", WorkingCapacity)
      kept     == Restrict(records, DOMAIN records \ out1)
      out2     == Overflow(kept, "Episodic", EpisodicCapacity)
      kept2    == Restrict(kept, DOMAIN kept \ out2)
      episodic == ToEpisodic(kept2)
      semantic == ToSemantic(episodic)
  IN  /\ records' = semantic
      /\ evictions' = evictions + Cardinality(out1) + Cardinality(out2)
      /\ promotions' = promotions + Moved(kept2, episodic) + Moved(episodic, semantic)
      /\ settled' = TRUE
      /\ UNCHANGED <<now, next_id>>

\* consolidate: evict Working, promote to Episodic, promote to Semantic, evict
\* Episodic.
Consolidate ==
  LET out1     == Overflow(records, "Working", WorkingCapacity)
      kept     == Restrict(records, DOMAIN records \ out1)
      episodic == ToEpisodic(kept)
      semantic == ToSemantic(episodic)
      out2     == Overflow(semantic, "Episodic", EpisodicCapacity)
  IN  /\ records' = Restrict(semantic, DOMAIN semantic \ out2)
      /\ evictions' = evictions + Cardinality(out1) + Cardinality(out2)
      /\ promotions' = promotions + Moved(kept, episodic) + Moved(episodic, semantic)
      /\ settled' = TRUE
      /\ UNCHANGED <<now, next_id>>

Clock == now' \in 0..MaxTime /\ UNCHANGED <<records, next_id, evictions, promotions, settled>>

Next ==
  \/ \E v \in Embeddings, c \in 0..1, l \in 0..1 : AddMemory(v, c, l)
  \/ \E id \in DOMAIN records : AccessMemory(id)
  \/ Consolidate
  \/ Clock

Spec == Init /\ [][Next]_vars

-------------------------------------------------------------------------------
\* After a cycle, and until a memory is added, both bounded tiers are within
\* their capacity, although the promotions of the cycle fill the Episodic tier
\* after the Working tier was cut.
WithinCapacity ==
  settled => /\ Cardinality(InTier(records, "Working")) <= WorkingCapacity
             /\ Cardinality(InTier(records, "Episodic")) <= EpisodicCapacity

\* The running totals of ConsolidationStats account for every record: each one
\* added is there or was evicted once, and every tier a record has
\* climbed was counted as a promotion.
StatsAccount ==
  LET climbed == Cardinality(InTier(records, "Episodic"))
                   + 2 * Cardinality(InTier(records, "Semantic"))
  IN  /\ evictions + Cardinality(DOMAIN records) = next_id
      /\ climbed <= promotions

Rank(t) == CASE t = "Working" -> 1 [] t = "Episodic" -> 2 [] t = "Semantic" -> 3

\* No step moves a record down a tier, and none removes a Semantic record: what
\* reached long-term memory stays there.
NeverForgets ==
  [][ \A i \in DOMAIN records :
        \/ i \in DOMAIN records' /\ Rank(records[i].tier) <= Rank(records'[i].tier)
        \/ i \notin DOMAIN records' /\ records[i].tier # "Semantic" ]_vars

\* A cycle that evicts a Working record it would not have promoted keeps no
\* Working record with a lower decay score.
ColdestEvicted ==
  [][ \A i \in DOMAIN records \ DOMAIN records', j \in DOMAIN records' :
        (/\ records[i].tier = "Working" /\ ~Important(records[i])
         /\ records'[j].tier = "Working")
          => compute_decay(records[i]) <= compute_decay(records[j]) ]_vars
===============================================================================
