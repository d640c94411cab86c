------------------------------ MODULE VersionWal ------------------------------
(***************************************************************************)
(* The write-ahead log of per-chunk version counters                       *)
(* (crates/clawhdf5-filters/src/version_wal.rs).  The file is an array of   *)
(* fixed-size record slots behind a header; `slots' is the array, file_len  *)
(* the number of whole slots the file holds.  VersionWal::new, the append,  *)
(* and the scans of commit_version and compact are actions; the two that    *)
(* rewrite several slots do so one write at a time, so that a crash or an   *)
(* I/O error can fall between two writes or inside one.                     *)
(*                                                                         *)
(* A process crash keeps what write_all handed to the kernel: loss of the   *)
(* page cache (the "Durability Caveat" of the source) is not modelled.      *)
(* The plaintext hash is modelled as collision free.                        *)
(***************************************************************************)
EXTENDS Integers, FiniteSets

CONSTANTS Chunks,       \* chunk indices
          Versions,     \* values of a version counter, positive
          Hashes,       \* plaintext hashes
          MaxRecords,   \* VersionWal::max_records
          None          \* the content of a field nobody reads

ASSUME WalAssumption == /\ MaxRecords \in Nat
                        /\ Versions \subseteq Nat \ {0}
                        /\ None \notin Chunks \cup Hashes

VARIABLES slots, file_len,             \* the file
          wal_open, record_count,      \* the VersionWal value
          job,                         \* the multi-write call in progress
          pending_records, src         \* compact(): the records kept, and the
                                       \* slots they were read from

fileVars == <<slots, file_len>>
keepVars == <<pending_records, src>>
walVars == <<fileVars, wal_open, record_count, job, keepVars>>

WalRecord == [status : {"Pending", "Committed"}, chunk_idx : Chunks,
              version : Versions, plaintext_hash : Hashes]

\* An all-zero slot, and a non-empty slot whose CRC check fails.
Empty == [status |-> "Empty", chunk_idx |-> None, version |-> 0, plaintext_hash |-> None]
Corrupt == [status |-> "Corrupt", chunk_idx |-> None, version |-> 0, plaintext_hash |-> None]

new_pending(c, v, h) ==
  [status |-> "Pending", chunk_idx |-> c, version |-> v, plaintext_hash |-> h]

PendingOf(c, r) == r.status = "Pending" /\ r.chunk_idx = c

Idle == [op |-> "idle", chunk |-> None, pos |-> 0, found |-> FALSE]

TypeOK ==
  /\ slots \in [1..MaxRecords -> WalRecord \cup {Empty, Corrupt}]
  /\ file_len \in 0..MaxRecords
  /\ wal_open \in BOOLEAN
  /\ record_count \in 0..file_len
  /\ job \in [op : {"idle", "commit", "compact"}, chunk : Chunks \cup {None},
              pos : 0..(MaxRecords + 1), found : BOOLEAN]

WalInit ==
  /\ slots = [i \in 1..MaxRecords |-> Empty]
  /\ file_len = 0
  /\ wal_open = FALSE
  /\ record_count = 0
  /\ job = Idle
  /\ src = <<>> /\ pending_records = <<>>

-------------------------------------------------------------------------------
\* VersionWal::new on an existing file: every whole slot counts as a record,
\* the zeroed ones included; a partial slot at the end of the file does not.
Open ==
  /\ ~wal_open
  /\ wal_open' = TRUE
  /\ record_count' = file_len
  /\ UNCHANGED <<fileVars, job, keepVars>>

WriteSlot(i, r) ==
  /\ slots' = [slots EXCEPT ![i] = r]
  /\ file_len' = IF i > file_len THEN i ELSE file_len

Ready == wal_open /\ job.op = "idle"

WalFull == record_count >= MaxRecords

\* Mutant: no capacity check.
JournalVersionMut(c, v, h) ==
  /\ Ready
  /\ WriteSlot(record_count + 1, new_pending(c, v, h))
  /\ record_count' = record_count + 1
  /\ UNCHANGED <<wal_open, job, keepVars>>

JournalVersion(c, v, h) ==
  /\ Ready
  /\ ~WalFull
  /\ WriteSlot(record_count + 1, new_pending(c, v, h))
  /\ record_count' = record_count + 1
  /\ UNCHANGED <<wal_open, job, keepVars>>

\* A slot that fails its CRC check stops every scan that meets it.
CorruptIn(S) == \E i \in S : slots[i] = Corrupt

\* commit_version scans from the last record down to the first and rewrites
\* every Pending record of the chunk, whatever its version.
CommitVersion(c) ==
  /\ Ready
  /\ job' = [Idle EXCEPT !.op = "commit", !.chunk = c, !.pos = record_count]
  /\ UNCHANGED <<fileVars, wal_open, record_count, keepVars>>

\* Mutant: the scan stops at its first match.
CommitStepMut ==
  /\ job.op = "commit" /\ job.pos > 0
  /\ LET r == slots[job.pos] IN
     IF PendingOf(job.chunk, r)
       THEN /\ slots' = [slots EXCEPT ![job.pos] = [r EXCEPT !.status = "Committed"]]
            /\ job' = [job EXCEPT !.pos = 0, !.found = TRUE]
       ELSE /\ job' = [job EXCEPT !.pos = @ - 1]
            /\ UNCHANGED slots
  /\ UNCHANGED <<file_len, wal_open, record_count, keepVars>>

CommitStep ==
  /\ job.op = "commit" /\ job.pos > 0
  /\ LET r == slots[job.pos] IN
     IF r = Corrupt
       THEN /\ job' = Idle
            /\ UNCHANGED slots
     ELSE IF PendingOf(job.chunk, r)
       THEN /\ slots' = [slots EXCEPT ![job.pos] = [r EXCEPT !.status = "Committed"]]
            /\ job' = [job EXCEPT !.pos = @ - 1, !.found = TRUE]
       ELSE /\ job' = [job EXCEPT !.pos = @ - 1]
            /\ UNCHANGED slots
  /\ UNCHANGED <<file_len, wal_open, record_count, keepVars>>

\* The scan is over: Ok, or RecordNotFound when nothing was Pending.
CommitDone ==
  /\ job.op = "commit" /\ job.pos = 0
  /\ job' = Idle
  /\ UNCHANGED <<fileVars, wal_open, record_count, keepVars>>

\* The indices of the Pending records below record_count, and the ways to list
\* an index set in slot order (there is exactly one).
PendingIdx == {i \in 1..record_count : slots[i].status = "Pending"}
InOrder(S) == {f \in [1..Cardinality(S) -> S] :
                 \A j, k \in 1..Cardinality(S) : j < k => f[j] < f[k]}

\* compact() collects the Pending records, then rewrites the slots from the
\* front: the Pending records first, zeroes up to the old record count.
Compact ==
  /\ Ready
  /\ ~CorruptIn(1..record_count)
  /\ src' \in InOrder(PendingIdx)
  /\ pending_records' = [k \in DOMAIN src' |-> slots[src'[k]]]
  /\ job' = [Idle EXCEPT !.op = "compact", !.pos = 1]
  /\ UNCHANGED <<fileVars, wal_open, record_count>>

\* Mutant: the rewrite starts one record late.
CompactedSlotMut(k) == IF k + 1 \in DOMAIN pending_records THEN pending_records[k + 1] ELSE Empty

CompactedSlot(k) == IF k \in DOMAIN pending_records THEN pending_records[k] ELSE Empty

CompactStep ==
  /\ job.op = "compact" /\ job.pos <= record_count
  /\ slots' = [slots EXCEPT ![job.pos] = CompactedSlot(job.pos)]
  /\ job' = [job EXCEPT !.pos = @ + 1]
  /\ UNCHANGED <<file_len, wal_open, record_count, keepVars>>

\* Mutant: record_count is one short.
CompactDoneMut ==
  /\ job.op = "compact" /\ job.pos > record_count
  /\ \E n \in {Cardinality(DOMAIN pending_records)} : record_count' = IF n > 0 THEN n - 1 ELSE n
  /\ job' = Idle /\ src' = <<>> /\ pending_records' = <<>>
  /\ UNCHANGED <<fileVars, wal_open>>

CompactDone ==
  /\ job.op = "compact" /\ job.pos > record_count
  /\ record_count' = Cardinality(DOMAIN pending_records)
  /\ job' = Idle /\ src' = <<>> /\ pending_records' = <<>>
  /\ UNCHANGED <<fileVars, wal_open>>

\* The slots whose bytes a write cut short would leave neither old nor new: the
\* one the call in progress is about to change.  A cut append at the end of the
\* file leaves a partial slot, which Open does not count.
TornSlots ==
  {i \in 1..file_len :
     CASE job.op = "idle"    -> i = record_count + 1
       [] job.op = "commit"  -> i = job.pos /\ PendingOf(job.chunk, slots[i])
       [] job.op = "compact" -> i = job.pos /\ i <= record_count
                                            /\ slots[i] # CompactedSlot(i)}

Interrupted ==
  /\ wal_open
  /\ job' = Idle /\ src' = <<>> /\ pending_records' = <<>>
  /\ \/ UNCHANGED slots
     \/ \E i \in TornSlots : slots' = [slots EXCEPT ![i] = Corrupt]
  /\ UNCHANGED file_len

\* The process dies; or write_all fails and the call returns WalError::Io.
Crash == Interrupted /\ wal_open' = FALSE /\ record_count' = 0
IoError == Interrupted /\ UNCHANGED <<wal_open, record_count>>

Journal == \E c \in Chunks, v \in Versions, h \in Hashes : JournalVersion(c, v, h)
Commit == \E c \in Chunks : CommitVersion(c)

WalNext == \/ Open \/ Journal \/ Commit \/ CommitStep \/ CommitDone
           \/ Compact \/ CompactStep \/ CompactDone \/ Crash \/ IoError

WalSpec == WalInit /\ [][WalNext]_walVars

-------------------------------------------------------------------------------
\* Nothing recovery must see lies at or beyond the append position, so an append
\* never overwrites a live record (journal_version writes at record_count, also
\* after a compaction lowered it and after a failed one left it alone).
AppendIsFree ==
  wal_open =>
    \A i \in (record_count + 1)..MaxRecords : slots[i] \in {Empty, Corrupt}

\* When commit_version(c) returns Ok no Pending record of c is left anywhere in
\* the file: a later recover() cannot report the chunk (its doc comment: "every
\* Pending record for chunk_idx ... not just the newest one").
CommitSweeps ==
  [][(CommitDone /\ job.found) =>
       \A i \in 1..MaxRecords : ~PendingOf(job.chunk, slots'[i])]_walVars

\* Every entry recovery would report, read off the file.
Unresolved == {[chunk_idx |-> slots[i].chunk_idx, version |-> slots[i].version,
                plaintext_hash |-> slots[i].plaintext_hash] :
                 i \in {k \in 1..MaxRecords : slots[k].status = "Pending"}}

Ledger == INSTANCE PendingLedger WITH
            pending <- Unresolved,
            committing <- IF job.op = "commit" THEN job.chunk ELSE None

\* The slot file implements the ledger of unresolved entries: whatever sequence
\* of appends, sweeps, compactions, crashes and reopens, in any slot layout, an
\* entry is lost only to a commit of its chunk.
ImplementsLedger == Ledger!Spec
===============================================================================
