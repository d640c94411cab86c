---------------------------- MODULE MCMemoryStore ----------------------------
(* MemoryStore with two tags, a log that is flushed early, and the three ways a *)
(* store can be configured: logged, unlogged, and with eager compaction.        *)
EXTENDS MemoryStore, TLC

MCConfigs == {[wal_enabled |-> TRUE, wal_max_entries |-> 1, compact_threshold |-> 0],
              [wal_enabled |-> FALSE, wal_max_entries |-> 1, compact_threshold |-> 30]}
MCDefault == [wal_enabled |-> TRUE, wal_max_entries |-> 2, compact_threshold |-> 30]

Symm == Permutations(Tags)
================================================================================
