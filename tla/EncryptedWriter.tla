---------------------------- MODULE EncryptedWriter ----------------------------
(***************************************************************************)
(* EncryptedChunkWriter (crates/clawhdf5-filters/src/chacha20_filter.rs)    *)
(* and its commit_with_write_order (write_order.rs) on top of VersionWal.   *)
(*                                                                         *)
(* A write journals (chunk, version), encrypts under the nonce derived from *)
(* that pair, then drives the sink through chunk data, companion nodes and  *)
(* root attribute, each synced before the next, and only then marks the log *)
(* entry committed.  The call is a sequence of actions: the process may die *)
(* between any two, and every sink or log write may fail.                   *)
(*                                                                         *)
(* External, modelled from how this code uses it: the caller, who rebuilds  *)
(* the tree for each commit and reopens the store from the companion; and   *)
(* the storage behind MerkleWriteSink, where an unsynced write may or may   *)
(* not survive.  A Merkle tree is the function giving the version each leaf *)
(* was built from, which identifies the ciphertext.                         *)
(***************************************************************************)
EXTENDS VersionWal

CONSTANT MaxDatasetVersion     \* u64::MAX of the dataset version counter

ASSUME WriterAssumption == MaxDatasetVersion \in Nat

VARIABLES
  phase,            \* what the writer is doing
  counters,         \* VersionCounterStore
  dataset_version,  \* EncryptedChunkWriter::dataset_version
  recovered,        \* what recover() returned
  results,          \* the EncryptedChunkResults the caller holds
  result,           \* the one being committed
  tree,             \* the caller's tree
  data, companion, root,   \* the three artifacts of the sink
  used,             \* history: every (chunk, version, plaintext) encrypted
  published         \* history: every (version, tree) a root attribute made durable

memVars == <<counters, dataset_version, recovered, results, result, tree>>
diskVars == <<data, companion, root>>
vars == <<walVars, phase, memVars, diskVars, used, published>>

Plaintexts == Hashes
NoResult == [chunk_idx |-> None, version |-> 0, plaintext |-> None]
Zero == [c \in Chunks |-> 0]

\* An artifact: what is on stable storage, what a read returns, and the unsynced
\* writes that may reach stable storage.
Fresh(v) == [durable |-> v, cached |-> v, maybe |-> {}]
Written(a, v) == [a EXCEPT !.cached = v, !.maybe = @ \cup {v}]
Synced(a) == Fresh(a.cached)
AfterCrash(a) == {Fresh(v) : v \in {a.durable} \cup a.maybe}

Root(n, t) == [version |-> n, tree |-> t]

Init ==
  /\ WalInit
  /\ phase = "down"
  /\ counters = Zero /\ dataset_version = 0
  /\ recovered = {} /\ results = {} /\ result = NoResult /\ tree = Zero
  /\ data = [c \in Chunks |-> Fresh(0)]
  /\ companion = Fresh(Zero)
  /\ root = Fresh(Root(0, Zero))
  /\ used = {} /\ published = {Root(0, Zero)}

-------------------------------------------------------------------------------
\* VersionCounterStore::seed: never regresses.
Seed(ctr, c, v) == [ctr EXCEPT ![c] = IF v > @ THEN v ELSE @]
next_version(c) == counters[c] + 1

\* Mutant: the dataset version restarts at zero.
ReopenMut ==
  /\ phase = "down"
  /\ Open
  /\ phase' = "opened"
  /\ counters' = companion.durable
  /\ tree' = companion.durable
  /\ dataset_version' = 0
  /\ UNCHANGED <<recovered, results, result, diskVars, used, published>>

\* Reopen: the log, the counters the companion holds, and the dataset version
\* of the persisted root attribute (with_dataset_version).
Reopen ==
  /\ phase = "down"
  /\ Open
  /\ phase' = "opened"
  /\ counters' = companion.durable
  /\ tree' = companion.durable
  /\ dataset_version' = root.durable.version
  /\ UNCHANGED <<recovered, results, result, diskVars, used, published>>

\* The log can be compacted until the writer takes it over.
CompactLog ==
  /\ phase = "opened"
  /\ Compact \/ CompactStep \/ CompactDone
  /\ UNCHANGED <<phase, memVars, diskVars, used, published>>

\* Mutant: the reported versions are not seeded.
RecoverWriterMut ==
  /\ phase = "opened"
  /\ Ready
  /\ ~CorruptIn(1..record_count)
  /\ recovered' = {slots[i] : i \in PendingIdx}
  /\ phase' = "ready"
  /\ UNCHANGED <<walVars, counters, dataset_version, results, result, tree, diskVars,
                 used, published>>

\* EncryptedChunkWriter::recover: seed every version the log reports.
RecoverWriter ==
  /\ phase = "opened"
  /\ Ready
  /\ ~CorruptIn(1..record_count)
  /\ LET out == {slots[i] : i \in PendingIdx} IN
     /\ recovered' = out
     /\ counters' \in [Chunks -> Versions \cup {0}]
     /\ \A c \in Chunks :
          LET vs == {counters[c]} \cup {r.version : r \in {q \in out : q.chunk_idx = c}}
          IN counters'[c] \in vs /\ \A v \in vs : v <= counters'[c]
  /\ phase' = "ready"
  /\ UNCHANGED <<walVars, dataset_version, results, result, tree, diskVars, used, published>>

\* EncryptedChunkWriter::encrypt_chunk: journal, reserve, encrypt.
EncryptChunk(c, p) ==
  /\ phase = "ready"
  /\ next_version(c) \in Versions
  /\ LET v == next_version(c)
         r == [chunk_idx |-> c, version |-> v, plaintext |-> p] IN
     /\ JournalVersion(c, v, p)
     /\ counters' = Seed(counters, c, v)
     /\ used' = used \cup {r}
     /\ results' = results \cup {r}
  /\ UNCHANGED <<phase, dataset_version, recovered, result, tree, diskVars, published>>

\* The caller replays a recovered entry: it re-encrypts at the journaled version,
\* after verify_replay_plaintext accepted its candidate plaintext.
verify_replay_plaintext(r, p) == p = r.plaintext_hash

Replay(r, p) ==
  /\ phase = "ready" /\ job.op = "idle"
  /\ r \in recovered
  /\ verify_replay_plaintext(r, p)
  /\ LET q == [chunk_idx |-> r.chunk_idx, version |-> r.version, plaintext |-> p] IN
     /\ used' = used \cup {q}
     /\ results' = results \cup {q}
  /\ UNCHANGED <<walVars, phase, counters, dataset_version, recovered, result, tree,
                 diskVars, published>>

-------------------------------------------------------------------------------
\* commit_with_write_order.  The next dataset version is checked before any
\* write; the caller passes the tree with the chunk's new leaf.
BeginCommit(r) ==
  /\ phase = "ready" /\ job.op = "idle"
  /\ r \in results
  /\ dataset_version < MaxDatasetVersion
  /\ phase' = "chunk"
  /\ result' = r
  /\ tree' = [tree EXCEPT ![r.chunk_idx] = r.version]
  /\ UNCHANGED <<walVars, counters, dataset_version, recovered, results, diskVars,
                 used, published>>

\* A sink write or sync succeeds and the call goes on, or fails and it returns;
\* a failed write may have reached the cache all the same.
GoOn(next) == phase' = next
Fail == phase' = "ready"

WriteChunkData ==
  /\ phase = "chunk"
  /\ LET w == [data EXCEPT ![result.chunk_idx] = Written(@, result.version)] IN
     \/ GoOn("chunk_sync") /\ data' = w
     \/ Fail /\ data' \in {data, w}
  /\ UNCHANGED <<walVars, memVars, companion, root, used, published>>

\* Mutant: no sync between chunk data and companion nodes.
SyncChunkDataMut ==
  /\ phase = "chunk_sync" /\ GoOn("nodes")
  /\ UNCHANGED <<walVars, memVars, diskVars, used, published>>

SyncChunkData ==
  /\ phase = "chunk_sync"
  /\ \/ GoOn("nodes") /\ data' = [data EXCEPT ![result.chunk_idx] = Synced(@)]
     \/ Fail /\ UNCHANGED data
  /\ UNCHANGED <<walVars, memVars, companion, root, used, published>>

WriteCompanionNodes ==
  /\ phase = "nodes"
  /\ \/ GoOn("nodes_sync") /\ companion' = Written(companion, tree)
     \/ Fail /\ companion' \in {companion, Written(companion, tree)}
  /\ UNCHANGED <<walVars, memVars, data, root, used, published>>

\* Mutant: no sync between companion nodes and root attribute.
SyncCompanionNodesMut ==
  /\ phase = "nodes_sync" /\ GoOn("root")
  /\ UNCHANGED <<walVars, memVars, diskVars, used, published>>

SyncCompanionNodes ==
  /\ phase = "nodes_sync"
  /\ \/ GoOn("root") /\ companion' = Synced(companion)
     \/ Fail /\ UNCHANGED companion
  /\ UNCHANGED <<walVars, memVars, data, root, used, published>>

\* Mutant: the dataset version advances only when the write succeeds.
WriteRootAttributeMut ==
  /\ phase = "root"
  /\ LET w == Written(root, Root(dataset_version + 1, tree)) IN
     \/ GoOn("root_sync") /\ root' = w /\ dataset_version' = dataset_version + 1
     \/ Fail /\ root' \in {root, w} /\ UNCHANGED dataset_version
  /\ UNCHANGED <<walVars, counters, recovered, results, result, tree, data, companion,
                 used, published>>

\* The dataset version is burned before the root attribute is presented.
WriteRootAttribute ==
  /\ phase = "root"
  /\ dataset_version' = dataset_version + 1
  /\ LET w == Written(root, Root(dataset_version', tree)) IN
     \/ GoOn("root_sync") /\ root' = w
     \/ Fail /\ root' \in {root, w}
  /\ UNCHANGED <<walVars, counters, recovered, results, result, tree, data, companion,
                 used, published>>

SyncRootAttribute ==
  /\ phase = "root_sync"
  /\ \/ GoOn("commit") /\ root' = Synced(root) /\ published' = published \cup {root.cached}
     \/ Fail /\ UNCHANGED <<root, published>>
  /\ UNCHANGED <<walVars, memVars, data, companion, used>>

\* EncryptedChunkWriter::commit: seed, then the log sweeps the chunk's entries.
CommitLog ==
  /\ phase = "commit"
  /\ counters' = Seed(counters, result.chunk_idx, result.version)
  /\ CommitVersion(result.chunk_idx)
  /\ phase' = "sweep"
  /\ UNCHANGED <<dataset_version, recovered, results, result, tree, diskVars, used, published>>

SweepLog ==
  /\ phase = "sweep"
  /\ CommitStep \/ CommitDone
  /\ phase' = IF job'.op = "idle" THEN "ready" ELSE "sweep"
  /\ results' = IF CommitDone /\ job.found THEN results \ {result} ELSE results
  /\ UNCHANGED <<counters, dataset_version, recovered, result, tree, diskVars, used, published>>

-------------------------------------------------------------------------------
\* A write to the log fails and the call in progress returns the error.
LogIoError ==
  /\ phase \in {"opened", "ready", "sweep"}
  /\ IoError
  /\ phase' = IF phase = "sweep" THEN "ready" ELSE phase
  /\ UNCHANGED <<memVars, diskVars, used, published>>

\* The process dies: memory is gone, each unsynced write settles either way.
Die ==
  /\ phase # "down"
  /\ Crash
  /\ phase' = "down"
  /\ counters' = Zero /\ dataset_version' = 0
  /\ recovered' = {} /\ results' = {} /\ result' = NoResult /\ tree' = Zero
  /\ data' \in {f \in [Chunks -> UNION {AfterCrash(data[c]) : c \in Chunks}] :
                 \A c \in Chunks : f[c] \in AfterCrash(data[c])}
  /\ companion' \in AfterCrash(companion)
  /\ root' \in AfterCrash(root)
  /\ published' = published \cup {root'.durable}
  /\ UNCHANGED used

\* The caller commits only the newest version of a chunk.
Newest(r) == r.version = counters[r.chunk_idx]

Encrypt == \E c \in Chunks, p \in Plaintexts : EncryptChunk(c, p)
ReplayAny == \E r \in recovered, p \in Plaintexts : Replay(r, p)
BeginNewest == \E r \in results : Newest(r) /\ BeginCommit(r)

WriteOrder == \/ WriteChunkData \/ SyncChunkData
              \/ WriteCompanionNodes \/ SyncCompanionNodes
              \/ WriteRootAttribute \/ SyncRootAttribute

Next == \/ Reopen \/ CompactLog \/ RecoverWriter \/ Encrypt \/ ReplayAny \/ BeginNewest
        \/ WriteOrder \/ CommitLog \/ SweepLog \/ LogIoError \/ Die

Spec == Init /\ [][Next]_vars

-------------------------------------------------------------------------------
\* No (chunk, version) pair ever encrypts two plaintexts, across any number of
\* crashes, failed writes, retries, replays and compactions: encrypt_chunk's "Nonce
\* Safety" and recover's "the nonce can never be reused".
NonceUnique ==
  \A a, b \in used :
    (a.chunk_idx = b.chunk_idx /\ a.version = b.version) => a.plaintext = b.plaintext

InLog(c) == \E e \in Unresolved : e.chunk_idx = c
LogReadable == ~CorruptIn(1..MaxRecords)

\* After a crash, a chunk that recover() will not report holds the data its
\* companion leaf was built from (write_order.rs: "A crash in between therefore
\* leaves the WAL entry uncommitted").
UnreportedChunkVerifies ==
  (phase = "down" /\ LogReadable) =>
    \A c \in Chunks : InLog(c) \/ data[c].durable = companion.durable[c]

\* After a crash the root attribute never runs ahead of the companion nodes, and
\* where it lags behind them the chunk is reported ("the root attribute never
\* references companion nodes that never reached disk").
RootBehindCompanion ==
  (phase = "down" /\ LogReadable) =>
    \A c \in Chunks :
      \/ root.durable.tree[c] = companion.durable[c]
      \/ root.durable.tree[c] < companion.durable[c] /\ InLog(c)

\* No two different roots that are or may become durable carry one dataset version,
\* whatever failed between presenting a version and learning its fate: the tie that
\* commit_with_write_order burns versions to rule out (Remark A.13).
NoVersionTie ==
  \A a, b \in published \cup root.maybe : a.version = b.version => a.tree = b.tree

\* The durable dataset version never goes back, across crashes and reopens.
DatasetVersionMonotone == [][root'.durable.version >= root.durable.version]_vars
================================================================================
