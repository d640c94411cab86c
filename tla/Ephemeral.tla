------------------------------- MODULE Ephemeral -------------------------------
(***************************************************************************)
(* The ephemeral tier (crates/clawhdf5-agent/src/ephemeral.rs) and its      *)
(* promotion into the persistent cache (HDF5Memory::promote_ephemeral in    *)
(* lib.rs).  Every call reads the wall clock, which the system may set      *)
(* forward or back between two calls.  A value is the number of the set     *)
(* call that stored it; the hit, miss, expiry and eviction counts, which    *)
(* only stats() reads, are left out.                                        *)
(***************************************************************************)
EXTENDS Integers, SequencesExt

CONSTANTS Keys,
          MaxEntries,   \* EphemeralConfig::max_entries
          Ttls,         \* time-to-live values callers pass or the default; 0: never expires
          TrackAccess,  \* EphemeralConfig::track_access
          MinAccess,    \* min_access_count of promote_ephemeral
          MaxTime,      \* bound: the clock is in 1..MaxTime
          MaxSets,      \* bound on the calls of set
          MaxAccess     \* bound on an entry's access_count

ASSUME EphemeralAssumption ==
  /\ MaxEntries \in Nat /\ MinAccess \in Nat /\ MaxTime \in Nat \ {0}
  /\ MaxSets \in Nat /\ MaxAccess \in Nat
  /\ Ttls \subseteq Nat /\ TrackAccess \in BOOLEAN

VARIABLES
  now,       \* the wall clock
  entries,   \* EphemeralStore::entries
  cache,     \* the values promote_ephemeral pushed to the persistent cache
  disk,      \* those of them the .h5 file holds
  next       \* bound: the number of the next set call

vars == <<now, entries, cache, disk, next>>

Init == /\ now = 1 /\ entries = << >> /\ cache = <<>> /\ disk = <<>> /\ next = 1

\* An entry at the very instant of its expiry is still alive.
Alive(e) == e.expires_at = 0 \/ now <= e.expires_at
LiveKeys == {k \in DOMAIN entries : Alive(entries[k])}

Without(K) == Restrict(entries, DOMAIN entries \ K)

\* The least used entries, the longest unused of them first.
Coldest ==
  {k \in DOMAIN entries : \A j \in DOMAIN entries :
     \/ entries[k].access_count < entries[j].access_count
     \/ /\ entries[k].access_count = entries[j].access_count
        /\ entries[k].last_accessed <= entries[j].last_accessed}

\* The maps set() may insert into: the one there is, the one without expired
\* entries when that makes room, or the one without a coldest entry.
RoomForMut(key) ==
  IF key \in DOMAIN entries \/ Cardinality(DOMAIN entries) < MaxEntries \/ entries = << >>
  THEN {entries}
  ELSE {Without({k}) : k \in Coldest}

RoomFor(key) ==
  IF key \in DOMAIN entries \/ Cardinality(DOMAIN entries) < MaxEntries \/ entries = << >>
  THEN {entries}
  ELSE IF LiveKeys # DOMAIN entries THEN {Restrict(entries, LiveKeys)}
  ELSE {Without({k}) : k \in Coldest}

expires_at(ttl) == IF ttl > 0 THEN now + ttl ELSE 0

\* set, set_text, set_with_embedding, and one entry of set_batch.
SetMut(key, ttl) ==
  /\ next <= MaxSets
  /\ \E room \in {entries} :
       entries' = (key :> [value |-> next, last_accessed |-> now,
                           expires_at |-> expires_at(ttl), access_count |-> 0]) @@ room
  /\ next' = next + 1
  /\ UNCHANGED <<now, cache, disk>>

Set(key, ttl) ==
  /\ next <= MaxSets
  /\ \E room \in RoomFor(key) :
       entries' = (key :> [value |-> next, last_accessed |-> now,
                           expires_at |-> expires_at(ttl), access_count |-> 0]) @@ room
  /\ next' = next + 1
  /\ UNCHANGED <<now, cache, disk>>

\* A hit of get, or of get_text on an entry that has text.
Hit(key) ==
  /\ key \in LiveKeys
  /\ entries[key].access_count < MaxAccess
  /\ entries' = [entries EXCEPT ![key].last_accessed = now,
                                ![key].access_count = @ + (IF TrackAccess THEN 1 ELSE 0)]
  /\ UNCHANGED <<now, cache, disk, next>>

\* get or get_text of an expired entry, and delete.
Drop(key) ==
  /\ key \in DOMAIN entries
  /\ entries' = Without({key})
  /\ UNCHANGED <<now, cache, disk, next>>

SetTtl(key, ttl) ==
  /\ key \in DOMAIN entries
  /\ entries' = [entries EXCEPT ![key].expires_at = expires_at(ttl)]
  /\ UNCHANGED <<now, cache, disk, next>>

\* cleanup_expired, and search_text, which drops the expired entries it meets.
CleanupExpired ==
  /\ entries' = Restrict(entries, LiveKeys)
  /\ UNCHANGED <<now, cache, disk, next>>

Clear == entries' = << >> /\ UNCHANGED <<now, cache, disk, next>>

Candidates == {k \in LiveKeys : entries[k].access_count >= MinAccess}

\* promote_ephemeral; the hash map lists the candidates in any order.
PromoteMut ==
  /\ Candidates # {}
  /\ \E order \in SetToSeqs(Candidates) :
       cache' = cache \o [i \in DOMAIN order |-> entries[order[i]].value]
  /\ disk' \in {disk, cache'}
  /\ UNCHANGED <<now, entries, next>>

Promote ==
  /\ Candidates # {}
  /\ \E order \in SetToSeqs(Candidates) :
       cache' = cache \o [i \in DOMAIN order |-> entries[order[i]].value]
  /\ entries' = Without(Candidates)
  /\ disk' \in {disk, cache'}        \* flush fails, or writes the whole cache
  /\ UNCHANGED <<now, next>>

Clock == now' \in 1..MaxTime /\ UNCHANGED <<entries, cache, disk, next>>

Next ==
  \/ \E k \in Keys, ttl \in Ttls : Set(k, ttl) \/ SetTtl(k, ttl)
  \/ \E k \in Keys : Hit(k) \/ Drop(k)
  \/ CleanupExpired \/ Clear \/ Promote \/ Clock

Spec == Init /\ [][Next]_vars

-------------------------------------------------------------------------------
\* No sequence of calls, expiries and clock changes takes the store past its
\* capacity, although set looks at the capacity for new keys only.  A capacity
\* of 0 holds one entry: evict_one has nothing to evict on the first set.
Capacity == Cardinality(DOMAIN entries) <= (IF MaxEntries = 0 THEN 1 ELSE MaxEntries)

\* set() evicts a live entry only when no entry of the store has expired:
\* dead entries never push live ones out.
EvictsExpiredFirst ==
  [][ (next' # next /\ \E k \in LiveKeys : k \notin DOMAIN entries')
        => LiveKeys = DOMAIN entries ]_vars

\* A value is in one tier: promotion moves it, never copies it, never pushes it
\* twice, also when its flush fails and the call is made again; and the file
\* holds a prefix of what was promoted.
OneTier ==
  /\ IsInjective(cache)
  /\ \A k \in DOMAIN entries : entries[k].value \notin Range(cache)
  /\ IsPrefix(disk, cache)
===============================================================================
