------------------------------ MODULE MemoryStore ------------------------------
(***************************************************************************)
(* HDF5Memory (crates/clawhdf5-agent/src/lib.rs, cache.rs, storage.rs): a   *)
(* cache of entries in memory, an .h5 file that holds a whole cache, and a   *)
(* sidecar log of the saves made since the file was last written.  flush    *)
(* replaces the file by a rename and then truncates the log; a process      *)
(* crash or an I/O error may fall between any two of its steps.             *)
(*                                                                         *)
(* An entry is its tags and a unique id that stands for its content.        *)
(* Sessions, the knowledge graph and activation weights travel with the .h5 *)
(* file only; the calls that change them are here as the flush they make.   *)
(***************************************************************************)
EXTENDS AgentWal, FiniteSets

CONSTANTS Tags,         \* non-empty tags of an entry
          MaxSaves,     \* bound on the entries ever saved
          MaxEntries,   \* bound on the entries of a cache, replayed duplicates included
          Configs,      \* configurations a store may be created with
          Default       \* the configuration every open() falls back to

ASSUME StoreAssumption == MaxSaves \in Nat /\ MaxEntries \in Nat

VARIABLES
  made,         \* the .h5 file exists
  h5,           \* the entries it holds
  opened,       \* an HDF5Memory value exists
  has_wal,      \* HDF5Memory::wal is Some
  config,       \* wal_enabled, wal_max_entries, compact_threshold (in percent)
  cache,        \* MemoryCache
  call,         \* the flush in progress and the call it belongs to
  next_uid,     \* bound: ids are handed out in order
  acked,        \* history: ids of entries stored by calls that returned Ok
  diverged      \* history: since the last flush a call changed the cache and the
                \* log differently (an upsert, or a call that returned an error)

storeVars == <<made, h5, opened, has_wal, config, cache, call, next_uid, acked, diverged>>
vars == <<agentWalVars, storeVars>>

NoCall == [step |-> "idle", left |-> 0, op |-> "none", stored |-> {}]

Live(s) == SelectSeq(s, LAMBDA e : e.live)
Uids(s) == {s[i].uid : i \in DOMAIN s}

Init ==
  /\ AgentWalInit
  /\ made = FALSE /\ h5 = <<>> /\ opened = FALSE /\ has_wal = FALSE
  /\ config = Default
  /\ cache = <<>> /\ call = NoCall /\ next_uid = 1 /\ acked = {} /\ diverged = FALSE

-------------------------------------------------------------------------------
\* What open() rebuilds: the file, then the log replayed on top of it.
Recovered == IF header = "ok" THEN h5 \o Entries ELSE h5

Ready == opened /\ call.step = "idle"

new_entry(t) == [tags |-> t, uid |-> next_uid, live |-> TRUE]

\* flush() and the `extra' truncation some callers add to it.
StartFlush(op, extra, stored) ==
  call' = [step |-> "rename", left |-> IF has_wal' THEN 1 + extra ELSE 0,
           op |-> op, stored |-> stored]

Acknowledge(new) == acked' = acked \cup new

\* HDF5Memory::create on a fresh path.
Create ==
  /\ ~made /\ ~opened
  /\ config' \in Configs
  /\ made' = TRUE /\ h5' = <<>> /\ cache' = <<>>
  /\ opened' = TRUE /\ has_wal' = config'.wal_enabled
  /\ call' = IF has_wal' THEN [NoCall EXCEPT !.step = "create", !.left = 1, !.op = "open"]
             ELSE NoCall
  /\ UNCHANGED <<agentWalVars, next_uid, acked, diverged>>

\* HDF5Memory::open: read the file, replay the sidecar, reopen or create it.  The
\* wal and compaction settings are not stored in the file.
Open ==
  /\ made /\ ~opened /\ Len(Recovered) <= MaxEntries
  /\ \/ LoadWal /\ UNCHANGED call
     \/ /\ header = "absent" /\ Default.wal_enabled
        /\ call' = [NoCall EXCEPT !.step = "create", !.left = 1, !.op = "open"]
        /\ UNCHANGED agentWalVars
  /\ config' = Default
  /\ cache' = Recovered
  /\ acked' = Uids(Live(Recovered))
  /\ opened' = TRUE /\ has_wal' = TRUE /\ diverged' = FALSE
  /\ UNCHANGED <<made, h5, next_uid>>

-------------------------------------------------------------------------------
NeedsFlush == ~has_wal \/ entry_count' > config.wal_max_entries

\* The end of save and save_or_update: flush when the log is long, or return.
FlushIfLong(uid) ==
  /\ has_wal' = has_wal
  /\ IF NeedsFlush
       THEN StartFlush("save", 1, {uid}) /\ UNCHANGED acked
       ELSE Acknowledge({uid}) /\ UNCHANGED call

\* HDF5Memory::save
Save(t) ==
  /\ Ready /\ next_uid <= MaxSaves
  /\ IF has_wal THEN AppendSave(new_entry(t)) ELSE UNCHANGED agentWalVars
  /\ cache' = Append(cache, new_entry(t))
  /\ next_uid' = next_uid + 1
  /\ FlushIfLong(next_uid)
  /\ UNCHANGED <<made, h5, opened, config, diverged>>

\* append_save fails: save returns before it touches the cache.
SaveFails(t) ==
  /\ Ready /\ has_wal /\ next_uid <= MaxSaves
  /\ \/ AppendTorn /\ UNCHANGED diverged
     \/ AppendUnsynced(new_entry(t)) /\ diverged' = TRUE
  /\ next_uid' = next_uid + 1
  /\ UNCHANGED <<made, h5, opened, has_wal, config, cache, call, acked>>

\* MemoryCache::find_by_tags
find_by_tags(t, i) ==
  /\ cache[i].live /\ cache[i].tags = t
  /\ \A j \in 1..(i - 1) : ~(cache[j].live /\ cache[j].tags = t)

\* HDF5Memory::save_or_update, when an active entry has the tags.
SaveOrUpdate(t) ==
  /\ Ready /\ next_uid <= MaxSaves
  /\ \E i \in DOMAIN cache :
       /\ find_by_tags(t, i)
       /\ IF has_wal THEN AppendSave(new_entry(t)) ELSE UNCHANGED agentWalVars
       /\ cache' = [cache EXCEPT ![i] = new_entry(t)]
       /\ has_wal' = has_wal
       /\ IF NeedsFlush
            THEN StartFlush("save", 1, {next_uid}) /\ acked' = acked \ {cache[i].uid}
            ELSE acked' = (acked \ {cache[i].uid}) \cup {next_uid} /\ UNCHANGED call
  /\ next_uid' = next_uid + 1
  /\ diverged' = TRUE
  /\ UNCHANGED <<made, h5, opened, config>>

\* save_batch, record and promote_ephemeral: the entries go to the cache, not to
\* the log, and the file is rewritten.
SaveBatch(t, u) ==
  /\ Ready /\ next_uid < MaxSaves
  /\ cache' = cache \o <<new_entry(t), [new_entry(u) EXCEPT !.uid = @ + 1]>>
  /\ next_uid' = next_uid + 2
  /\ has_wal' = has_wal
  /\ StartFlush("batch", 0, {next_uid, next_uid + 1})
  /\ UNCHANGED <<agentWalVars, made, h5, opened, config, acked, diverged>>

\* HDF5Memory::delete
Delete(i) ==
  /\ Ready /\ i \in DOMAIN cache /\ cache[i].live
  /\ cache' = [cache EXCEPT ![i].live = FALSE]
  /\ acked' = acked \ {cache[i].uid}
  /\ has_wal' = has_wal
  /\ StartFlush("delete", 0, {})
  /\ UNCHANGED <<agentWalVars, made, h5, opened, config, next_uid, diverged>>

\* HDF5Memory::compact, when there is something to remove.
Compact ==
  /\ Ready /\ Live(cache) # cache
  /\ cache' = Live(cache)
  /\ has_wal' = has_wal
  /\ StartFlush("compact", 0, {})
  /\ UNCHANGED <<agentWalVars, made, h5, opened, config, next_uid, acked, diverged>>

\* flush_wal and tick_session truncate twice; add_session, add_entity,
\* add_entity_alias, add_relation and extract_and_store_entities once.
FlushOnly ==
  /\ Ready
  /\ has_wal' = has_wal
  /\ \E extra \in {0, 1} : StartFlush("flush", extra, {})
  /\ UNCHANGED <<agentWalVars, made, h5, opened, config, cache, next_uid, acked, diverged>>

-------------------------------------------------------------------------------
tombstone_fraction_exceeds(percent) ==
  100 * (Len(cache) - Len(Live(cache))) > percent * Len(cache)

\* The call returns Ok; a delete first compacts when too much is tombstoned.
Return ==
  IF call.op = "delete" /\ config.compact_threshold > 0
                        /\ tombstone_fraction_exceeds(config.compact_threshold)
    THEN /\ cache' = Live(cache)
         /\ call' = [call EXCEPT !.step = "rename", !.op = "compact",
                                 !.left = IF has_wal THEN 1 ELSE 0]
         /\ UNCHANGED acked
    ELSE /\ call' = NoCall
         /\ Acknowledge(call.stored)
         /\ UNCHANGED cache

\* Mutant: the log is truncated although the file was not replaced.
RenameMut ==
  /\ call.step = "rename"
  /\ h5' \in {h5, cache}
  /\ IF call.left = 0
       THEN Return /\ diverged' = FALSE
       ELSE call' = [call EXCEPT !.step = "create"] /\ UNCHANGED <<cache, acked, diverged>>
  /\ UNCHANGED <<agentWalVars, made, opened, has_wal, config, next_uid>>

\* write_to_disk: the file is replaced as a whole.
Rename ==
  /\ call.step = "rename"
  /\ h5' = cache
  /\ IF call.left = 0
       THEN Return /\ diverged' = FALSE
       ELSE call' = [call EXCEPT !.step = "create"] /\ UNCHANGED <<cache, acked, diverged>>
  /\ UNCHANGED <<agentWalVars, made, opened, has_wal, config, next_uid>>

\* WalFile::truncate, and the creation of the sidecar in create and open.
TruncateFile ==
  /\ call.step = "create"
  /\ CreateWalFile
  /\ call' = [call EXCEPT !.step = "header"]
  /\ UNCHANGED <<made, h5, opened, has_wal, config, cache, next_uid, acked, diverged>>

WriteHeader ==
  /\ call.step = "header"
  /\ WriteWalHeader
  /\ IF call.left = 1
       THEN Return
       ELSE call' = [call EXCEPT !.step = "create", !.left = @ - 1] /\ UNCHANGED <<cache, acked>>
  /\ diverged' = FALSE
  /\ UNCHANGED <<made, h5, opened, has_wal, config, next_uid>>

\* A step of the flush fails and the call returns the error.  A failed truncate
\* leaves the log without a file handle.
FlushFails ==
  /\ call.step # "idle" /\ call.op # "open"
  /\ IF call.step = "rename"
       THEN /\ UNCHANGED agentWalVars
            /\ diverged' = (diverged \/ call.op \in {"batch", "delete", "compact"} \/ ~has_wal)
       ELSE /\ file_open' = FALSE
            /\ UNCHANGED <<diskWal, entry_count, pending_header_sync, chain_tip, diverged>>
  /\ call' = NoCall
  /\ UNCHANGED <<made, h5, opened, has_wal, config, cache, next_uid, acked>>

\* The process dies (also while open creates the sidecar), possibly inside an
\* append.
Crash ==
  /\ opened
  /\ \/ UNCHANGED diskWal
     \/ Ready /\ has_wal /\ file_open /\ Extend(Torn) /\ UNCHANGED <<header, header_count>>
  /\ entry_count' = 0 /\ pending_header_sync' = 0 /\ chain_tip' = <<>> /\ file_open' = FALSE
  /\ opened' = FALSE /\ has_wal' = FALSE /\ cache' = <<>> /\ call' = NoCall
  /\ diverged' = FALSE
  /\ UNCHANGED <<made, h5, config, next_uid, acked>>

SaveAny == \E t \in Tags : Save(t)
SaveFailsAny == \E t \in Tags : SaveFails(t)
BatchAny == \E t, u \in Tags : SaveBatch(t, u)
UpdateAny == \E t \in Tags : SaveOrUpdate(t)
DeleteAny == \E i \in DOMAIN cache : Delete(i)

FlushStep == Rename \/ TruncateFile \/ WriteHeader

Next == \/ Create \/ Open \/ SaveAny \/ BatchAny \/ UpdateAny \/ DeleteAny \/ Compact
        \/ FlushOnly \/ FlushStep \/ SaveFailsAny \/ FlushFails \/ Crash

Spec == Init /\ [][Next]_vars

-------------------------------------------------------------------------------
\* Whatever the store acknowledged and did not delete since is in what the disk
\* holds, at every step of every call: flush replaces the file before it empties
\* the log, and an upsert is logged before it is applied.
NoLoss == CleanLog => acked \subseteq Uids(Live(Recovered))

\* Between calls a reopen would rebuild the cache exactly: same entries, same
\* indices, same tombstones, whatever crashed or failed before, unless an upsert or
\* a failed call is not yet flushed (the write-ahead log's purpose, wal.rs).
ReopenFaithful ==
  (Ready /\ (has_wal => file_open) /\ CleanLog /\ ~diverged) =>
    ~ParseFails /\ Recovered = cache
================================================================================
