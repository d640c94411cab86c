--------------------------- MODULE VersionWalProofs ---------------------------
(***************************************************************************)
(* VersionWal for every number of slots, chunks, versions and hashes: its   *)
(* type invariant, that an append never overwrites a live record, and that  *)
(* the slot file implements the ledger of unresolved entries.               *)
(***************************************************************************)
EXTENDS VersionWal, FiniteSetTheorems, TLAPS

Slots == 1..MaxRecords

\* While compact() rewrites slot `pos', the records it has not yet copied are
\* still where it read them: their source slots lie at or after pos.
CompactAt(n) ==
  /\ src \in [1..n -> 1..record_count]
  /\ pending_records \in [1..n -> WalRecord]
  /\ job.pos \in 1..(record_count + 1)
  /\ \A j, k \in 1..n : j < k => src[j] < src[k]
  /\ \A k \in 1..n : pending_records[k].status = "Pending"
  /\ \A k \in 1..n : k < job.pos => slots[k] = pending_records[k]
  /\ \A k \in 1..n : k >= job.pos => /\ src[k] >= job.pos
                                     /\ slots[src[k]] = pending_records[k]
  /\ \A i \in 1..record_count : (i > n /\ i < job.pos) => slots[i] = Empty
  /\ \A i \in Slots : slots[i].status = "Pending" =>
                        \E k \in 1..n : slots[i] = pending_records[k]

CompactInv == \E n \in 0..record_count : CompactAt(n)

\* No call is in progress on a closed log, and nothing lies past the end of file.
RestInv ==
  /\ \A i \in Slots : i > file_len => slots[i] = Empty
  /\ ~wal_open => job.op = "idle"
  /\ job.op = "idle" => job = Idle

\* The part of the log commit_version has scanned holds nothing of its chunk.
CommitInv ==
  /\ job.chunk \in Chunks
  /\ job.pos \in 0..record_count
  /\ \A i \in Slots : i > job.pos => ~PendingOf(job.chunk, slots[i])

\* The inductive invariant.
WalInv ==
  /\ TypeOK
  /\ AppendIsFree
  /\ RestInv
  /\ job.op = "commit" => CommitInv
  /\ job.op = "compact" => CompactInv

-------------------------------------------------------------------------------
\* The list compact() builds: at most record_count records, in slot order.
LEMMA ListedInOrder ==
  ASSUME record_count \in Nat, NEW f \in InOrder(PendingIdx)
  PROVE  \E n \in 0..record_count :
           /\ f \in [1..n -> PendingIdx]
           /\ \A j, k \in 1..n : j < k => f[j] < f[k]
           /\ \A i \in PendingIdx : \E k \in 1..n : f[k] = i
<1>1. IsFiniteSet(1..record_count) /\ Cardinality(1..record_count) = record_count
  BY FS_Interval
<1>2. /\ IsFiniteSet(PendingIdx)
      /\ Cardinality(PendingIdx) <= record_count
  BY <1>1, FS_Subset DEF PendingIdx
<1>3. Cardinality(PendingIdx) \in Nat
  BY <1>2, FS_CardinalityType
<1>. DEFINE n == Cardinality(PendingIdx)
<1>4. /\ f \in [1..n -> PendingIdx]
      /\ \A j, k \in 1..n : j < k => f[j] < f[k]
  BY DEF InOrder
<1>5. f \in Injection(1..n, PendingIdx)
  <2>1. \A j, k \in 1..n : f[j] = f[k] => j = k
    BY <1>3, <1>4 DEF PendingIdx
  <2>. QED
    BY <1>4, <2>1 DEF Injection, IsInjective
<1>6. Cardinality(1..n) = n
  BY <1>3, FS_Interval
<1>7. f \in Surjection(1..n, PendingIdx)
  BY <1>2, <1>5, <1>6, FS_Injection
<1>8. \A i \in PendingIdx : \E k \in 1..n : f[k] = i
  BY <1>7 DEF Surjection
<1>. QED
  BY <1>2, <1>3, <1>4, <1>8

\* The fields of a job record.
LEMMA JobType ==
  ASSUME NEW o \in {"idle", "commit", "compact"}, NEW c \in Chunks \cup {None},
         NEW p \in 0..(MaxRecords + 1), NEW b \in BOOLEAN
  PROVE  [op |-> o, chunk |-> c, pos |-> p, found |-> b]
           \in [op : {"idle", "commit", "compact"}, chunk : Chunks \cup {None},
               pos : 0..(MaxRecords + 1), found : BOOLEAN]
  OBVIOUS

\* The invariant holds of a file that does not exist yet.
LEMMA WalInitInv == WalInit => WalInv
<1>. SUFFICES ASSUME WalInit PROVE WalInv
  OBVIOUS
<1>. USE WalAssumption DEF WalInit
<1>1. TypeOK
  <2>1. slots \in [1..MaxRecords -> WalRecord \cup {Empty, Corrupt}]
    OBVIOUS
  <2>2. file_len \in 0..MaxRecords /\ record_count \in 0..file_len
    OBVIOUS
  <2>3. job \in [op : {"idle", "commit", "compact"}, chunk : Chunks \cup {None},
                pos : 0..(MaxRecords + 1), found : BOOLEAN]
    BY DEF Idle
  <2>4. wal_open \in BOOLEAN
    OBVIOUS
  <2>. QED
    BY <2>1, <2>2, <2>3, <2>4 DEF TypeOK
<1>2. RestInv
  BY DEF RestInv, Idle, Slots
<1>3. AppendIsFree /\ job.op = "idle"
  BY DEF AppendIsFree, Idle
<1>. QED
  BY <1>1, <1>2, <1>3 DEF WalInv

\* VersionWal::new: the whole slots of the file become the records.
LEMMA OpenInv == WalInv /\ Open => WalInv'
<1>. SUFFICES ASSUME WalInv, Open PROVE WalInv'
  OBVIOUS
<1>. USE WalAssumption DEF Open, fileVars, keepVars
<1>1. TypeOK'
  BY DEF WalInv, TypeOK
<1>2. RestInv' /\ job' = Idle
  BY DEF WalInv, RestInv
<1>3. AppendIsFree'
  BY DEF WalInv, RestInv, AppendIsFree, TypeOK, Slots
<1>. QED
  BY <1>1, <1>2, <1>3 DEF WalInv, Idle

\* journal_version: the record goes to the first free slot.
LEMMA JournalInv ==
  ASSUME WalInv, NEW c \in Chunks, NEW v \in Versions, NEW h \in Hashes,
         JournalVersion(c, v, h)
  PROVE  WalInv'
<1>. USE WalAssumption DEF JournalVersion, Ready, WalFull, WriteSlot, keepVars
<1>1. new_pending(c, v, h) \in WalRecord
  BY DEF new_pending, WalRecord
<1>2. TypeOK'
  BY <1>1 DEF WalInv, TypeOK
<1>3. RestInv' /\ job' = Idle
  BY DEF WalInv, RestInv, TypeOK, Slots
<1>4. AppendIsFree'
  BY DEF WalInv, AppendIsFree, TypeOK
<1>. QED
  BY <1>2, <1>3, <1>4 DEF WalInv, Idle

\* commit_version: its start, one slot of its scan, its end.
LEMMA CommitVersionInv ==
  ASSUME WalInv, NEW c \in Chunks, CommitVersion(c)
  PROVE  WalInv'
<1>0. /\ job' = [op |-> "commit", chunk |-> c, pos |-> record_count, found |-> FALSE]
      /\ wal_open /\ job.op = "idle"
      /\ UNCHANGED <<slots, file_len, wal_open, record_count>>
  BY DEF CommitVersion, Ready, Idle, fileVars
<1>1. TypeOK' /\ job'.op = "commit" /\ job'.chunk = c /\ job'.pos = record_count
  BY <1>0, JobType, WalAssumption DEF WalInv, TypeOK
<1>2. RestInv' /\ AppendIsFree'
  BY <1>0, <1>1 DEF WalInv, RestInv, AppendIsFree
<1>3. \A i \in Slots : i > record_count => slots[i].status # "Pending"
  BY <1>0, WalAssumption DEF WalInv, AppendIsFree, TypeOK, Slots, Empty, Corrupt
<1>4. CommitInv'
  BY <1>0, <1>1, <1>3 DEF WalInv, TypeOK, CommitInv, PendingOf, Slots
<1>. QED
  BY <1>1, <1>2, <1>4 DEF WalInv

LEMMA CommitStepInv == WalInv /\ CommitStep => WalInv'
<1>. SUFFICES ASSUME WalInv, CommitStep PROVE WalInv'
  OBVIOUS
<1>. USE WalAssumption DEF CommitStep, keepVars
<1>1. job.pos \in Slots /\ CommitInv /\ wal_open
  BY DEF WalInv, CommitInv, RestInv, TypeOK, Slots
<1>2. CASE slots[job.pos] = Corrupt
  <2>1. job' = Idle /\ slots' = slots
    BY <1>2
  <2>2. TypeOK'
    BY <2>1 DEF WalInv, TypeOK, Idle
  <2>3. RestInv' /\ AppendIsFree'
    BY <2>1 DEF WalInv, RestInv, AppendIsFree
  <2>. QED
    BY <2>1, <2>2, <2>3 DEF WalInv, Idle
<1>3. CASE slots[job.pos] # Corrupt /\ PendingOf(job.chunk, slots[job.pos])
  <2>. DEFINE r == [slots[job.pos] EXCEPT !.status = "Committed"]
  <2>1. /\ slots' = [slots EXCEPT ![job.pos] = r]
        /\ job' = [job EXCEPT !.pos = @ - 1, !.found = TRUE]
    BY <1>3
  <2>2. slots[job.pos] \in WalRecord
    BY <1>1, <1>3 DEF WalInv, TypeOK, PendingOf, Empty, Corrupt, Slots
  <2>3. r \in WalRecord /\ r.status = "Committed"
    BY <2>2 DEF WalRecord
  <2>. HIDE DEF r
  <2>4. /\ job'.pos = job.pos - 1 /\ job'.op = "commit" /\ job'.chunk = job.chunk
        /\ TypeOK'
    <3>1. job' = [op |-> job.op, chunk |-> job.chunk, pos |-> job.pos - 1, found |-> TRUE]
      BY <2>1 DEF WalInv, TypeOK
    <3>2. slots' \in [1..MaxRecords -> WalRecord \cup {Empty, Corrupt}]
      BY <2>1, <2>3 DEF WalInv, TypeOK
    <3>. QED
      BY <1>1, <3>1, <3>2 DEF WalInv, TypeOK, Slots
  <2>5. RestInv' /\ AppendIsFree'
    BY <1>1, <2>1, <2>4 DEF WalInv, RestInv, AppendIsFree, CommitInv, TypeOK, Slots
  <2>6. CommitInv'
    BY <1>1, <2>1, <2>3, <2>4 DEF WalInv, CommitInv, PendingOf, TypeOK, Slots
  <2>. QED
    BY <2>4, <2>5, <2>6 DEF WalInv
<1>4. CASE slots[job.pos] # Corrupt /\ ~PendingOf(job.chunk, slots[job.pos])
  <2>1. slots' = slots /\ job' = [job EXCEPT !.pos = @ - 1]
    BY <1>4
  <2>2. /\ job'.pos = job.pos - 1 /\ job'.op = "commit" /\ job'.chunk = job.chunk
        /\ TypeOK'
    BY <1>1, <2>1 DEF WalInv, TypeOK, Slots
  <2>3. RestInv' /\ AppendIsFree'
    BY <1>1, <2>1, <2>2 DEF WalInv, RestInv, AppendIsFree
  <2>4. CommitInv'
    BY <1>1, <1>4, <2>1, <2>2 DEF WalInv, CommitInv, TypeOK, Slots
  <2>. QED
    BY <2>2, <2>3, <2>4 DEF WalInv
<1>. QED
  BY <1>2, <1>3, <1>4

LEMMA CommitDoneInv == WalInv /\ CommitDone => WalInv'
<1>. SUFFICES ASSUME WalInv, CommitDone PROVE WalInv'
  OBVIOUS
<1>. USE WalAssumption DEF CommitDone, fileVars, keepVars
<1>1. TypeOK'
  BY DEF WalInv, TypeOK, Idle
<1>2. RestInv' /\ AppendIsFree'
  BY DEF WalInv, RestInv, AppendIsFree
<1>. QED
  BY <1>1, <1>2 DEF WalInv, Idle

\* compact: the list of Pending records, one slot of the rewrite, its end.
LEMMA CompactStartInv == WalInv /\ Compact => WalInv'
<1>. SUFFICES ASSUME WalInv, Compact PROVE WalInv'
  OBVIOUS
<1>0. /\ job' = [op |-> "compact", chunk |-> None, pos |-> 1, found |-> FALSE]
      /\ wal_open /\ job.op = "idle"
      /\ UNCHANGED <<slots, file_len, wal_open, record_count>>
  BY DEF Compact, Ready, Idle, fileVars
<1>1. TypeOK' /\ job'.op = "compact" /\ job'.pos = 1
  BY <1>0, JobType, WalAssumption DEF WalInv, TypeOK
<1>2. RestInv' /\ AppendIsFree'
  BY <1>0, <1>1 DEF WalInv, RestInv, AppendIsFree
<1>3. CompactInv'
  <2>1. PICK n \in 0..record_count :
          /\ src' \in [1..n -> PendingIdx]
          /\ \A j, k \in 1..n : j < k => src'[j] < src'[k]
          /\ \A i \in PendingIdx : \E k \in 1..n : src'[k] = i
    <3>1. record_count \in Nat /\ src' \in InOrder(PendingIdx)
      BY WalAssumption DEF WalInv, TypeOK, Compact
    <3>. QED
      BY <3>1, ListedInOrder
  <2>2. pending_records' = [k \in 1..n |-> slots[src'[k]]]
    BY <2>1 DEF Compact
  <2>3. \A i \in PendingIdx : /\ i \in 1..record_count
                              /\ slots[i].status = "Pending"
                              /\ slots[i] \in WalRecord
    BY WalAssumption DEF PendingIdx, WalInv, TypeOK, Empty, Corrupt
  <2>4. \A k \in 1..n : /\ src'[k] \in 1..record_count
                        /\ slots[src'[k]].status = "Pending"
                        /\ slots[src'[k]] \in WalRecord
    BY <2>1, <2>3
  <2>5. \A i \in Slots : slots[i].status = "Pending" => i \in PendingIdx
    BY <1>0, WalAssumption DEF WalInv, AppendIsFree, TypeOK, PendingIdx, Slots, Empty, Corrupt
  <2>6. \A i \in Slots : slots[i].status = "Pending" =>
                          \E k \in 1..n : slots[i] = pending_records'[k]
    BY <2>1, <2>2, <2>5
  <2>7. record_count \in Nat /\ n \in Nat /\ 1 \in 1..(record_count + 1)
    BY DEF WalInv, TypeOK
  <2>8. src' \in [1..n -> 1..record_count] /\ pending_records' \in [1..n -> WalRecord]
    BY <2>1, <2>2, <2>4
  <2>9. \A k \in 1..n : /\ pending_records'[k].status = "Pending"
                        /\ k >= 1
                        /\ src'[k] >= 1
                        /\ slots[src'[k]] = pending_records'[k]
    BY <2>2, <2>4, <2>7
  <2>10. \A k \in 1..n : ~(k < job'.pos)
    BY <1>1, <2>7
  <2>11. \A i \in 1..record_count : ~(i < job'.pos)
    BY <1>1, <2>7
  <2>. QED
    <3>1. CompactAt(n)'
      BY <1>0, <1>1, <2>1, <2>6, <2>7, <2>8, <2>9, <2>10, <2>11 DEF CompactAt
    <3>. QED
      BY <1>0, <3>1 DEF CompactInv
<1>. QED
  BY <1>1, <1>2, <1>3 DEF WalInv

\* Overwriting slot pos, with the record due there or with garbage when that
\* changes it, loses no record that the compaction keeps.
LEMMA CompactKeeps ==
  ASSUME WalInv, NEW n \in 0..record_count, CompactAt(n), job.pos <= record_count,
         NEW k \in 1..n,
         NEW s, s = CompactedSlot(job.pos) \/ slots[job.pos] # CompactedSlot(job.pos)
  PROVE  \E i \in Slots : [slots EXCEPT ![job.pos] = s][i] = pending_records[k]
<1>. DEFINE p == job.pos
<1>0. /\ record_count \in Nat /\ n \in Nat /\ p \in Slots /\ p \in 1..record_count
      /\ \A i \in 1..record_count : i \in Slots
      /\ DOMAIN slots = Slots
  BY WalAssumption DEF WalInv, TypeOK, CompactAt, Slots
<1>1. CASE k < p
  BY <1>0, <1>1 DEF CompactAt
<1>2. CASE k >= p /\ src[k] # p
  <2>1. src[k] \in 1..record_count /\ slots[src[k]] = pending_records[k]
    BY <1>0, <1>2 DEF CompactAt
  <2>. QED
    BY <1>0, <1>2, <2>1
<1>3. CASE k >= p /\ src[k] = p
  <2>1. k = p
    <3>1. SUFFICES ASSUME k > p PROVE FALSE
      BY <1>0, <1>3
    <3>2. p \in 1..n /\ src[p] < src[k] /\ src[p] >= p /\ src[p] \in Int
      BY <1>0, <3>1 DEF CompactAt
    <3>. QED
      BY <1>0, <1>3, <3>2
  <2>2. CompactedSlot(p) = pending_records[k] /\ slots[p] = pending_records[k]
    BY <1>0, <1>3, <2>1 DEF CompactAt, CompactedSlot
  <2>3. [slots EXCEPT ![p] = s][p] = pending_records[k]
    BY <1>0, <2>2
  <2>. QED
    BY <1>0, <2>3
<1>. QED
  BY <1>0, <1>1, <1>2, <1>3 DEF CompactAt

LEMMA CompactStepInv == WalInv /\ CompactStep => WalInv'
<1>. SUFFICES ASSUME WalInv, CompactStep PROVE WalInv'
  OBVIOUS
<1>. DEFINE p == job.pos
<1>0. /\ slots' = [slots EXCEPT ![p] = CompactedSlot(p)]
      /\ job.op = "compact" /\ p <= record_count
      /\ UNCHANGED <<file_len, wal_open, record_count, pending_records, src>>
  BY DEF CompactStep, keepVars
<1>1. PICK n \in 0..record_count : CompactAt(n)
  BY <1>0 DEF WalInv, CompactInv
<1>2. /\ record_count \in Nat /\ n \in Nat /\ p \in 1..record_count /\ record_count <= file_len
      /\ DOMAIN slots = Slots /\ file_len \in 0..MaxRecords /\ p \in Slots
  BY <1>0, <1>1, WalAssumption DEF WalInv, TypeOK, CompactAt, Slots
<1>3. CompactedSlot(p) \in WalRecord \cup {Empty, Corrupt}
  BY <1>1, <1>2 DEF CompactAt, CompactedSlot
<1>4. job' = [op |-> "compact", chunk |-> job.chunk, pos |-> p + 1, found |-> job.found]
  BY <1>0 DEF CompactStep, WalInv, TypeOK
<1>5. TypeOK' /\ job'.op = "compact" /\ job'.pos = p + 1
  <2>1. slots' \in [1..MaxRecords -> WalRecord \cup {Empty, Corrupt}]
    BY <1>0, <1>3 DEF WalInv, TypeOK
  <2>2. job' \in [op : {"idle", "commit", "compact"}, chunk : Chunks \cup {None},
                 pos : 0..(MaxRecords + 1), found : BOOLEAN]
    <3>1. job.chunk \in Chunks \cup {None} /\ job.found \in BOOLEAN
      BY DEF WalInv, TypeOK
    <3>2. p + 1 \in 0..(MaxRecords + 1)
      BY <1>2, WalAssumption
    <3>. QED
      BY <1>4, <3>1, <3>2, JobType
  <2>. QED
    BY <1>0, <1>4, <2>1, <2>2 DEF WalInv, TypeOK
<1>6. RestInv' /\ AppendIsFree'
  BY <1>0, <1>2, <1>5, WalAssumption DEF WalInv, RestInv, AppendIsFree, Slots
<1>7. CompactAt(n)'
  <2>1. \A k \in 1..n : k < p + 1 => slots'[k] = pending_records[k]
    BY <1>0, <1>1, <1>2 DEF CompactAt, CompactedSlot, Slots
  <2>2. \A k \in 1..n : k >= p + 1 => src[k] >= p + 1
    <3>1. SUFFICES ASSUME NEW k \in 1..n, k >= p + 1 PROVE src[k] >= p + 1
      OBVIOUS
    <3>2. p \in 1..n /\ src[p] < src[k] /\ src[p] >= p /\ src[p] \in Int /\ src[k] \in Int
      BY <1>1, <1>2, <3>1 DEF CompactAt
    <3>. QED
      BY <1>2, <3>1, <3>2
  <2>3. \A k \in 1..n : k >= p + 1 => slots'[src[k]] = pending_records[k]
    <3>1. SUFFICES ASSUME NEW k \in 1..n, k >= p + 1
                   PROVE slots'[src[k]] = pending_records[k]
      OBVIOUS
    <3>2. src[k] >= p + 1 /\ src[k] \in 1..record_count
      BY <1>1, <1>2, <2>2, <3>1 DEF CompactAt
    <3>3. k >= p
      BY <1>2, <3>1
    <3>4. slots[src[k]] = pending_records[k]
      BY <1>1, <3>3 DEF CompactAt
    <3>5. src[k] \in Slots /\ src[k] # p
      BY <1>2, <3>2, WalAssumption DEF Slots
    <3>. QED
      BY <1>0, <1>2, <3>4, <3>5
  <2>4. \A i \in 1..record_count : (i > n /\ i < p + 1) => slots'[i] = Empty
    BY <1>0, <1>1, <1>2 DEF CompactAt, CompactedSlot, Slots
  <2>5. \A i \in Slots : slots'[i].status = "Pending" =>
                        \E k \in 1..n : slots'[i] = pending_records[k]
    BY <1>0, <1>1, <1>2 DEF CompactAt, CompactedSlot, Empty
  <2>. QED
    BY <1>0, <1>1, <1>2, <1>5, <2>1, <2>2, <2>3, <2>4, <2>5 DEF CompactAt
<1>8. CompactInv'
  BY <1>0, <1>7 DEF CompactInv
<1>. QED
  BY <1>5, <1>6, <1>8 DEF WalInv

LEMMA CompactDoneInv == WalInv /\ CompactDone => WalInv'
<1>. SUFFICES ASSUME WalInv, CompactDone PROVE WalInv'
  OBVIOUS
<1>0. /\ job.op = "compact" /\ job.pos > record_count
      /\ record_count' = Cardinality(DOMAIN pending_records)
      /\ job' = Idle
      /\ UNCHANGED <<slots, file_len, wal_open>>
  BY DEF CompactDone, fileVars
<1>1. PICK n \in 0..record_count : CompactAt(n)
  BY <1>0 DEF WalInv, CompactInv
<1>2. record_count \in Nat /\ n \in Nat /\ file_len \in 0..MaxRecords /\ record_count <= file_len
  BY WalAssumption DEF WalInv, TypeOK
<1>3. record_count' = n
  BY <1>0, <1>1, <1>2, FS_Interval DEF CompactAt
<1>4. TypeOK'
  BY <1>0, <1>2, <1>3, WalAssumption DEF WalInv, TypeOK, Idle
<1>5. AppendIsFree'
  <2>1. SUFFICES ASSUME wal_open', NEW i \in (n + 1)..MaxRecords
                 PROVE slots[i] \in {Empty, Corrupt}
    BY <1>0, <1>3 DEF AppendIsFree
  <2>2. CASE i \in 1..record_count
    BY <1>0, <1>1, <1>2, <2>1, <2>2 DEF CompactAt
  <2>3. CASE i \in (record_count + 1)..MaxRecords
    BY <1>0, <2>1, <2>3 DEF WalInv, AppendIsFree
  <2>. QED
    BY <1>2, <2>1, <2>2, <2>3, WalAssumption
<1>6. RestInv'
  BY <1>0 DEF WalInv, RestInv, Idle
<1>. QED
  BY <1>0, <1>4, <1>5, <1>6 DEF WalInv, Idle

\* A crash or an I/O error, wherever it falls.
LEMMA InterruptedInv ==
  ASSUME WalInv, Interrupted,
         \/ wal_open' = FALSE /\ record_count' = 0
         \/ UNCHANGED <<wal_open, record_count>>
  PROVE  WalInv'
<1>0. job' = Idle /\ file_len' = file_len
  BY DEF Interrupted
<1>1. \/ slots' = slots
      \/ \E i \in 1..file_len : slots' = [slots EXCEPT ![i] = Corrupt]
  BY DEF Interrupted, TornSlots
<1>2. file_len \in 0..MaxRecords /\ record_count \in 0..file_len /\ wal_open \in BOOLEAN
  BY DEF WalInv, TypeOK
<1>3. slots' \in [1..MaxRecords -> WalRecord \cup {Empty, Corrupt}]
  BY <1>1 DEF WalInv, TypeOK
<1>4. TypeOK'
  <2>1. job' \in [op : {"idle", "commit", "compact"}, chunk : Chunks \cup {None},
                 pos : 0..(MaxRecords + 1), found : BOOLEAN]
    BY <1>0, WalAssumption DEF Idle
  <2>2. record_count' \in 0..file_len' /\ file_len' \in 0..MaxRecords
    BY <1>0, <1>2, WalAssumption
  <2>3. wal_open' \in BOOLEAN
    BY <1>2
  <2>. QED
    BY <1>3, <2>1, <2>2, <2>3 DEF TypeOK
<1>5. RestInv'
  BY <1>0, <1>1, <1>2, WalAssumption DEF WalInv, RestInv, TypeOK, Idle, Slots
<1>6. AppendIsFree'
  <2>1. SUFFICES ASSUME wal_open' PROVE AppendIsFree'
    BY DEF AppendIsFree
  <2>2. UNCHANGED <<wal_open, record_count>>
    BY <2>1
  <2>3. \A i \in (record_count + 1)..MaxRecords : slots[i] \in {Empty, Corrupt}
    BY <2>1, <2>2 DEF WalInv, AppendIsFree
  <2>. QED
    BY <1>1, <1>2, <2>2, <2>3, WalAssumption DEF WalInv, TypeOK, AppendIsFree
<1>. QED
  BY <1>0, <1>4, <1>5, <1>6 DEF WalInv, Idle

\* Every step of the log preserves the invariant.
LEMMA WalStepInv == WalInv /\ [WalNext]_walVars => WalInv'
<1>. SUFFICES ASSUME WalInv, [WalNext]_walVars PROVE WalInv'
  OBVIOUS
<1>1. CASE Open
  BY <1>1, OpenInv
<1>2. CASE Journal
  BY <1>2, JournalInv DEF Journal
<1>3. CASE Commit
  BY <1>3, CommitVersionInv DEF Commit
<1>4. CASE CommitStep
  BY <1>4, CommitStepInv
<1>5. CASE CommitDone
  BY <1>5, CommitDoneInv
<1>6. CASE Compact
  BY <1>6, CompactStartInv
<1>7. CASE CompactStep
  BY <1>7, CompactStepInv
<1>8. CASE CompactDone
  BY <1>8, CompactDoneInv
<1>9. CASE Crash
  BY <1>9, InterruptedInv DEF Crash
<1>10. CASE IoError
  BY <1>10, InterruptedInv DEF IoError
<1>11. CASE UNCHANGED walVars
  <2>1. UNCHANGED <<slots, file_len, wal_open, record_count, job, pending_records, src>>
    BY <1>11 DEF walVars, fileVars, keepVars
  <2>2. TypeOK' /\ AppendIsFree' /\ RestInv'
    BY <2>1 DEF WalInv, TypeOK, AppendIsFree, RestInv
  <2>3. job'.op = "commit" => CommitInv'
    BY <2>1 DEF WalInv, CommitInv
  <2>4. job'.op = "compact" => CompactInv'
    BY <2>1 DEF WalInv, CompactInv, CompactAt
  <2>. QED
    BY <2>2, <2>3, <2>4 DEF WalInv
<1>. QED
  BY <1>1, <1>2, <1>3, <1>4, <1>5, <1>6, <1>7, <1>8, <1>9, <1>10, <1>11 DEF WalNext

LEMMA WalInvariant == WalSpec => []WalInv
  BY WalInitInv, WalStepInv, PTL DEF WalSpec

\* The log's state is always well typed.
THEOREM WalTypeCorrect == WalSpec => []TypeOK
<1>1. WalInv => TypeOK
  BY DEF WalInv
<1>. QED
  BY <1>1, WalInvariant, PTL

\* For every capacity and every history, nothing recovery needs lies at or past
\* the append position, so journal_version never overwrites a live record.
THEOREM AppendNeverOverwrites == WalSpec => []AppendIsFree
<1>1. WalInv => AppendIsFree
  BY DEF WalInv
<1>. QED
  BY <1>1, WalInvariant, PTL

\* A commit_version that returns Ok leaves no Pending record of its chunk.
THEOREM CommitSweepsAll == WalSpec => CommitSweeps
<1>1. WalInv /\ [WalNext]_walVars =>
        [(CommitDone /\ job.found) =>
           \A i \in 1..MaxRecords : ~PendingOf(job.chunk, slots'[i])]_walVars
  <2>1. SUFFICES ASSUME WalInv, CommitDone
                 PROVE \A i \in 1..MaxRecords : ~PendingOf(job.chunk, slots'[i])
    OBVIOUS
  <2>2. CommitInv /\ job.pos = 0 /\ slots' = slots
    BY <2>1 DEF WalInv, CommitDone, fileVars
  <2>. QED
    BY <2>2, WalAssumption DEF CommitInv, Slots
<1>. QED
  BY <1>1, WalInvariant, PTL DEF WalSpec, CommitSweeps

-------------------------------------------------------------------------------
(* The slot file implements the ledger. *)

EntryOf(r) == [chunk_idx |-> r.chunk_idx, version |-> r.version,
               plaintext_hash |-> r.plaintext_hash]
Committing == IF job.op = "commit" THEN job.chunk ELSE None

\* Unresolved is the set of entries of the Pending slots.
LEMMA UnresolvedDef ==
  \A e : e \in Unresolved <=>
           \E i \in Slots : slots[i].status = "Pending" /\ e = EntryOf(slots[i])
  BY DEF Unresolved, EntryOf, Slots

LEMMA UnresolvedDefNext ==
  \A e : e \in Unresolved' <=>
           \E i \in Slots : slots'[i].status = "Pending" /\ e = EntryOf(slots'[i])
  BY DEF Unresolved, EntryOf, Slots

\* A step that leaves both alone, or only resolves entries of the chunk being
\* committed, is a step of the ledger.
LEMMA LedgerStutter ==
  ASSUME Unresolved' = Unresolved, Committing' = Committing
  PROVE  [Ledger!Next]_(Ledger!vars)
  BY DEF Ledger!vars, Committing

LEMMA LedgerResolve ==
  ASSUME Committing # None, Committing' \in {Committing, None},
         Unresolved' \subseteq Unresolved,
         \A e \in Unresolved : e \notin Unresolved' => e.chunk_idx = Committing
  PROVE  [Ledger!Next]_(Ledger!vars)
<1>. DEFINE done == Unresolved \ Unresolved'
<1>1. done \in SUBSET {e \in Unresolved : e.chunk_idx = Committing}
  OBVIOUS
<1>2. Unresolved' = Unresolved \ done
  OBVIOUS
<1>3. Ledger!Resolve
  BY <1>1, <1>2 DEF Ledger!Resolve, Committing
<1>. QED
  BY <1>3 DEF Ledger!Next

LEMMA LedgerJournal ==
  ASSUME WalInv, NEW c \in Chunks, NEW v \in Versions, NEW h \in Hashes,
         JournalVersion(c, v, h)
  PROVE  [Ledger!Next]_(Ledger!vars)
<1>. DEFINE rec == new_pending(c, v, h)
            k == record_count + 1
<1>1. /\ slots' = [slots EXCEPT ![k] = rec] /\ k \in Slots
      /\ job.op = "idle" /\ job' = job /\ wal_open
  BY WalAssumption DEF JournalVersion, WriteSlot, Ready, WalFull, WalInv, TypeOK, Slots
<1>2. DOMAIN slots = Slots
  BY DEF WalInv, TypeOK, Slots
<1>3. slots[k].status # "Pending"
  BY <1>1 DEF WalInv, AppendIsFree, Slots, Empty, Corrupt
<1>4. rec.status = "Pending" /\ EntryOf(rec) \in Ledger!Entry
  BY DEF new_pending, EntryOf, Ledger!Entry
<1>. HIDE DEF rec, k
<1>5. slots'[k] = rec /\ \A i \in Slots : i # k => slots'[i] = slots[i]
  BY <1>1, <1>2
<1>6. Unresolved' = Unresolved \cup {EntryOf(rec)}
  <2>1. ASSUME NEW e \in Unresolved' PROVE e \in Unresolved \cup {EntryOf(rec)}
    BY <1>5, UnresolvedDef, UnresolvedDefNext
  <2>2. ASSUME NEW e \in Unresolved PROVE e \in Unresolved'
    <3>1. PICK i \in Slots : slots[i].status = "Pending" /\ e = EntryOf(slots[i])
      BY UnresolvedDef
    <3>2. slots'[i] = slots[i]
      BY <1>3, <1>5, <3>1
    <3>. QED
      BY <3>1, <3>2, UnresolvedDefNext
  <2>3. EntryOf(rec) \in Unresolved'
    BY <1>1, <1>4, <1>5, UnresolvedDefNext
  <2>. QED
    BY <2>1, <2>2, <2>3
<1>7. Ledger!Journal
  BY <1>1, <1>4, <1>6 DEF Ledger!Journal
<1>. QED
  BY <1>7 DEF Ledger!Next

LEMMA LedgerCommitStep == WalInv /\ CommitStep => [Ledger!Next]_(Ledger!vars)
<1>. SUFFICES ASSUME WalInv, CommitStep PROVE [Ledger!Next]_(Ledger!vars)
  OBVIOUS
<1>0. job.op = "commit" /\ job.pos > 0
  BY DEF CommitStep
<1>1. /\ job.op = "commit" /\ job.chunk \in Chunks /\ job.pos \in Slots
      /\ DOMAIN slots = Slots
  BY <1>0, WalAssumption DEF WalInv, CommitInv, TypeOK, Slots
<1>2. Committing = job.chunk /\ Committing # None
  BY <1>1, WalAssumption DEF Committing
<1>3. Committing' \in {Committing, None}
  <2>1. job' = Idle \/ (job'.op = job.op /\ job'.chunk = job.chunk)
    BY DEF CommitStep, WalInv, TypeOK
  <2>. QED
    BY <2>1 DEF Committing, Idle
<1>4. \/ slots' = slots
      \/ /\ PendingOf(job.chunk, slots[job.pos])
         /\ slots' = [slots EXCEPT ![job.pos] =
                        [slots[job.pos] EXCEPT !.status = "Committed"]]
  BY DEF CommitStep
<1>5. \A i \in Slots : \/ slots'[i] = slots[i]
                       \/ PendingOf(job.chunk, slots[i]) /\ slots'[i].status # "Pending"
  <2>1. CASE slots' = slots
    BY <2>1
  <2>2. CASE /\ PendingOf(job.chunk, slots[job.pos])
             /\ slots' = [slots EXCEPT ![job.pos] =
                            [slots[job.pos] EXCEPT !.status = "Committed"]]
    <3>1. slots[job.pos] \in WalRecord
      BY <1>1, <2>2 DEF WalInv, TypeOK, PendingOf, Empty, Corrupt, Slots
    <3>2. [slots[job.pos] EXCEPT !.status = "Committed"].status = "Committed"
      BY <3>1 DEF WalRecord
    <3>. QED
      BY <1>1, <2>2, <3>2
  <2>. QED
    BY <1>4, <2>1, <2>2
<1>6. Unresolved' \subseteq Unresolved
  BY <1>5, UnresolvedDef, UnresolvedDefNext
<1>7. \A e \in Unresolved : e \notin Unresolved' => e.chunk_idx = Committing
  <2>1. SUFFICES ASSUME NEW e \in Unresolved, e \notin Unresolved'
                 PROVE e.chunk_idx = job.chunk
    BY <1>2
  <2>2. PICK i \in Slots : slots[i].status = "Pending" /\ e = EntryOf(slots[i])
    BY UnresolvedDef
  <2>3. PendingOf(job.chunk, slots[i])
    BY <1>5, <2>1, <2>2, UnresolvedDefNext
  <2>. QED
    BY <2>2, <2>3 DEF PendingOf, EntryOf
<1>. QED
  BY <1>2, <1>3, <1>6, <1>7, LedgerResolve

\* One slot of the rewrite, complete or cut short, keeps every entry.
LEMMA CompactKeepsUnresolved ==
  ASSUME WalInv, job.op = "compact", job.pos <= record_count,
         NEW s \in {CompactedSlot(job.pos), Corrupt},
         s = CompactedSlot(job.pos) \/ slots[job.pos] # CompactedSlot(job.pos),
         slots' = [slots EXCEPT ![job.pos] = s]
  PROVE  Unresolved' = Unresolved
<1>1. PICK n \in 0..record_count : CompactAt(n)
  BY DEF WalInv, CompactInv
<1>2. job.pos \in Slots /\ DOMAIN slots = Slots /\ record_count \in Nat /\ n \in Nat
      /\ job.pos \in 1..record_count
  BY <1>1, WalAssumption DEF WalInv, TypeOK, CompactAt, Slots
<1>3. \A k \in 1..n : \E i \in Slots : slots'[i] = pending_records[k]
  BY <1>1, CompactKeeps
<1>4. \A k \in 1..n : pending_records[k].status = "Pending"
  BY <1>1 DEF CompactAt
<1>5. ASSUME NEW e \in Unresolved PROVE e \in Unresolved'
  <2>1. PICK i \in Slots : slots[i].status = "Pending" /\ e = EntryOf(slots[i])
    BY UnresolvedDef
  <2>2. PICK k \in 1..n : slots[i] = pending_records[k]
    BY <1>1, <2>1 DEF CompactAt
  <2>3. PICK j \in Slots : slots'[j] = pending_records[k]
    BY <1>3
  <2>. QED
    BY <1>4, <2>1, <2>2, <2>3, UnresolvedDefNext
<1>6. \A k \in 1..n : \E i \in Slots : slots[i] = pending_records[k]
  <2>. SUFFICES ASSUME NEW k \in 1..n PROVE \E i \in Slots : slots[i] = pending_records[k]
    OBVIOUS
  <2>1. k \in Nat
    OBVIOUS
  <2>2. CASE k < job.pos
    <3>1. slots[k] = pending_records[k]
      BY <1>1, <2>2 DEF CompactAt
    <3>2. k \in Slots
      BY <1>2, <2>2, WalAssumption DEF Slots
    <3>. QED
      BY <3>1, <3>2
  <2>3. CASE k >= job.pos
    <3>1. src[k] \in 1..record_count /\ slots[src[k]] = pending_records[k]
      BY <1>1, <2>3 DEF CompactAt
    <3>2. \A i \in 1..record_count : i \in Slots
      BY WalAssumption DEF WalInv, TypeOK, Slots
    <3>. QED
      BY <3>1, <3>2
  <2>4. k < job.pos \/ k >= job.pos
    BY <1>2, <2>1
  <2>. QED
    BY <2>2, <2>3, <2>4
<1>7. s.status = "Pending" => \E k \in 1..n : s = pending_records[k]
  BY <1>1 DEF CompactAt, CompactedSlot, Empty, Corrupt
<1>8. ASSUME NEW e \in Unresolved' PROVE e \in Unresolved
  <2>1. PICK i \in Slots : slots'[i].status = "Pending" /\ e = EntryOf(slots'[i])
    BY UnresolvedDefNext
  <2>2. \/ slots'[i] = slots[i]
        \/ \E k \in 1..n : slots'[i] = pending_records[k]
    BY <1>2, <1>7, <2>1
  <2>3. \E j \in Slots : slots[j] = slots'[i]
    BY <1>6, <2>2
  <2>. QED
    BY <2>1, <2>3, UnresolvedDef
<1>. QED
  BY <1>5, <1>8

LEMMA LedgerInterrupted == WalInv /\ Interrupted => [Ledger!Next]_(Ledger!vars)
<1>. SUFFICES ASSUME WalInv, Interrupted PROVE [Ledger!Next]_(Ledger!vars)
  OBVIOUS
<1>0. job' = Idle /\ Committing' = None /\ wal_open /\ DOMAIN slots = Slots
  BY DEF Interrupted, Committing, Idle, WalInv, TypeOK, Slots
<1>1. CASE slots' = slots
  <2>1. Unresolved' = Unresolved
    BY <1>1 DEF Unresolved
  <2>2. CASE Committing = None
    BY <1>0, <2>1, <2>2, LedgerStutter
  <2>3. CASE Committing # None
    BY <1>0, <2>1, <2>3, LedgerResolve
  <2>. QED
    BY <2>2, <2>3
<1>2. ASSUME NEW t \in TornSlots, slots' = [slots EXCEPT ![t] = Corrupt]
      PROVE  [Ledger!Next]_(Ledger!vars)
  <2>0. t \in 1..file_len /\ t \in Slots
    BY WalAssumption DEF TornSlots, WalInv, TypeOK, Slots
  <2>1. \A i \in Slots : \/ slots'[i] = slots[i]
                         \/ i = t /\ slots'[i].status # "Pending"
    BY <1>0, <1>2 DEF Corrupt
  <2>2. Unresolved' \subseteq Unresolved
    BY <2>1, UnresolvedDef, UnresolvedDefNext
  <2>3. CASE job.op = "idle"
    <3>1. t = record_count + 1
      BY <2>3 DEF TornSlots
    <3>2. slots[t].status # "Pending"
      BY <1>0, <2>0, <3>1 DEF WalInv, AppendIsFree, Slots, Empty, Corrupt
    <3>3. Unresolved \subseteq Unresolved'
      BY <2>1, <3>2, UnresolvedDef, UnresolvedDefNext
    <3>. QED
      BY <1>0, <2>2, <2>3, <3>3, LedgerStutter DEF Committing
  <2>4. CASE job.op = "commit"
    <3>1. PendingOf(job.chunk, slots[t])
      BY <2>4 DEF TornSlots
    <3>2. Committing = job.chunk /\ Committing # None
      BY <2>4, WalAssumption DEF Committing, WalInv, CommitInv
    <3>3. \A e \in Unresolved : e \notin Unresolved' => e.chunk_idx = Committing
      <4>1. SUFFICES ASSUME NEW e \in Unresolved, e \notin Unresolved'
                     PROVE e.chunk_idx = job.chunk
        BY <3>2
      <4>2. PICK i \in Slots : slots[i].status = "Pending" /\ e = EntryOf(slots[i])
        BY UnresolvedDef
      <4>3. i = t
        BY <2>1, <4>1, <4>2, UnresolvedDefNext
      <4>. QED
        BY <3>1, <4>2, <4>3 DEF PendingOf, EntryOf
    <3>. QED
      BY <1>0, <2>2, <3>2, <3>3, LedgerResolve
  <2>5. CASE job.op = "compact"
    <3>1. t = job.pos /\ job.pos <= record_count /\ slots[job.pos] # CompactedSlot(job.pos)
      BY <2>5 DEF TornSlots
    <3>2. Unresolved' = Unresolved
      BY <1>2, <2>5, <3>1, CompactKeepsUnresolved
    <3>. QED
      BY <1>0, <2>5, <3>2, LedgerStutter DEF Committing
  <2>. QED
    BY <2>3, <2>4, <2>5 DEF WalInv, TypeOK
<1>. QED
  BY <1>1, <1>2 DEF Interrupted

\* Every step of the log is a step of the ledger or leaves it alone.
LEMMA LedgerStep == WalInv /\ WalInv' /\ [WalNext]_walVars => [Ledger!Next]_(Ledger!vars)
<1>. SUFFICES ASSUME WalInv, WalInv', [WalNext]_walVars PROVE [Ledger!Next]_(Ledger!vars)
  OBVIOUS
<1>1. CASE Open
  <2>1. slots' = slots /\ job' = job
    BY <1>1 DEF Open, fileVars
  <2>. QED
    BY <2>1, LedgerStutter DEF Unresolved, Committing
<1>2. CASE Journal
  BY <1>2, LedgerJournal DEF Journal
<1>3. CASE Commit
  <2>1. PICK c \in Chunks : CommitVersion(c)
    BY <1>3 DEF Commit
  <2>2. slots' = slots /\ job.op = "idle" /\ job'.op = "commit" /\ job'.chunk = c
    BY <2>1 DEF CommitVersion, Ready, Idle, fileVars
  <2>3. Ledger!BeginCommit
    BY <2>2 DEF Ledger!BeginCommit, Unresolved
  <2>. QED
    BY <2>3 DEF Ledger!Next
<1>4. CASE CommitStep
  BY <1>4, LedgerCommitStep
<1>5. CASE CommitDone
  <2>1. slots' = slots /\ job.op = "commit" /\ job' = Idle
    BY <1>5 DEF CommitDone, fileVars
  <2>2. Unresolved' = Unresolved
    BY <2>1 DEF Unresolved
  <2>3. Committing # None /\ Committing' = None
    BY <2>1, WalAssumption DEF Committing, Idle, WalInv, CommitInv
  <2>. QED
    BY <2>2, <2>3, LedgerResolve
<1>6. CASE Compact
  <2>1. slots' = slots /\ job.op = "idle" /\ job'.op = "compact"
    BY <1>6 DEF Compact, Ready, Idle, fileVars
  <2>. QED
    BY <2>1, LedgerStutter DEF Unresolved, Committing
<1>7. CASE CompactStep
  <2>1. /\ job.op = "compact" /\ job.pos <= record_count
        /\ slots' = [slots EXCEPT ![job.pos] = CompactedSlot(job.pos)]
        /\ job' = [job EXCEPT !.pos = @ + 1]
    BY <1>7 DEF CompactStep
  <2>2. Unresolved' = Unresolved
    BY <2>1, CompactKeepsUnresolved
  <2>3. job'.op = "compact"
    BY <2>1 DEF WalInv, TypeOK
  <2>. QED
    BY <2>1, <2>2, <2>3, LedgerStutter DEF Committing
<1>8. CASE CompactDone
  <2>1. slots' = slots /\ job.op = "compact" /\ job' = Idle
    BY <1>8 DEF CompactDone, fileVars
  <2>. QED
    BY <2>1, LedgerStutter DEF Unresolved, Committing, Idle
<1>9. CASE Crash \/ IoError
  BY <1>9, LedgerInterrupted DEF Crash, IoError
<1>10. CASE UNCHANGED walVars
  <2>1. slots' = slots /\ job' = job
    BY <1>10 DEF walVars, fileVars
  <2>. QED
    BY <2>1, LedgerStutter DEF Unresolved, Committing
<1>. QED
  BY <1>1, <1>2, <1>3, <1>4, <1>5, <1>6, <1>7, <1>8, <1>9, <1>10 DEF WalNext

\* The slot file implements the ledger: journal_version adds an entry, and only
\* a commit_version of its chunk ever removes one; appends, compactions, crashes
\* and I/O errors in the middle of a rewrite lose and invent none.
THEOREM WalImplementsLedger == WalSpec => ImplementsLedger
<1>1. WalInit => Ledger!Init
  <2>. SUFFICES ASSUME WalInit PROVE Ledger!Init
    OBVIOUS
  <2>1. \A i \in 1..MaxRecords : slots[i].status # "Pending"
    BY DEF WalInit, Empty
  <2>2. Unresolved = {}
    BY <2>1 DEF Unresolved
  <2>3. job.op = "idle"
    BY DEF WalInit, Idle
  <2>. QED
    BY <2>2, <2>3 DEF Ledger!Init
<1>2. WalSpec => []WalInv
  BY WalInvariant
<1>. QED
  BY <1>1, <1>2, LedgerStep, PTL DEF WalSpec, ImplementsLedger, Ledger!Spec
===============================================================================
