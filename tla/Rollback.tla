-------------------------------- MODULE Rollback --------------------------------
(***************************************************************************)
(* Snapshots, the provenance journal and the restore of a journaled version *)
(* (crates/clawhdf5-agent/src/storage.rs, crates/clawhdf5-format/src/       *)
(* merkle_journal.rs and merkle_recovery.rs).  Several processes restore    *)
(* one live file while its owner commits, snapshots and journals; storage   *)
(* may corrupt a file or a record, and processes may die between two steps. *)
(*                                                                         *)
(* A file's content is the version that was committed when it was written,  *)
(* and the Merkle root of a sound content is that version.                  *)
(***************************************************************************)
EXTENDS Integers, Sequences, FiniteSets, Functions

CONSTANTS Paths,        \* snapshot destinations; one path per second and file name
          Restorers,    \* calls of restore_to_version, one at a time in each
          MaxVersion,   \* bound on the commits
          MaxFaults     \* bound on corruptions and failed calls

ASSUME RollbackAssumption == MaxVersion \in Nat /\ MaxFaults \in Nat

VARIABLES
  version,     \* EncryptedChunkWriter::dataset_version of the owner
  live,        \* content of the live file
  snapshots,   \* content of the snapshot files there are
  journal,     \* ProvenanceJournal::records
  stored,      \* the journal as the owner last wrote it, packed
  restore,     \* each restorer: its step, the record it selected, its own temp file
  faults,      \* bound: faults so far
  strays       \* temp files left by restorers that died

vars == <<version, live, snapshots, journal, stored, restore, faults, strays>>

Corrupt == -1
Idle == [step |-> "idle", record |-> {}, tmp |-> {}]

Init ==
  /\ version = 0 /\ live = 0 /\ snapshots = << >>
  /\ journal = <<>> /\ stored = <<>>
  /\ restore = [r \in Restorers |-> Idle]
  /\ faults = 0 /\ strays = 0

-------------------------------------------------------------------------------
\* The owner.  A commit rewrites the live file.
Commit ==
  /\ version < MaxVersion
  /\ version' = version + 1 /\ live' = version + 1
  /\ UNCHANGED <<snapshots, journal, stored, restore, faults, strays>>

AppendRecordMut(record) ==
  IF journal # <<>> /\ record.version < journal[Len(journal)].version
  THEN UNCHANGED journal
  ELSE journal' = Append(journal, record)

\* ProvenanceJournal::append refuses a version that does not increase.
AppendRecord(record) ==
  IF journal # <<>> /\ record.version <= journal[Len(journal)].version
  THEN UNCHANGED journal
  ELSE journal' = Append(journal, record)

\* snapshot_and_journal: the copy replaces what the path held, also when the
\* journal then refuses the record.
SnapshotAndJournal(path) ==
  /\ live # Corrupt
  /\ snapshots' = [p \in DOMAIN snapshots \cup {path} |-> IF p = path THEN live ELSE snapshots[p]]
  /\ AppendRecord([version |-> version, signed_root |-> live, sig_verifies |-> TRUE,
                   snapshot_ref |-> path])
  /\ UNCHANGED <<version, live, stored, restore, faults, strays>>

\* The owner writes the packed journal to its dataset or sidecar file.
Persist ==
  /\ stored' = journal
  /\ UNCHANGED <<version, live, snapshots, journal, restore, faults, strays>>

\* unpack accepts exactly what pack writes: strictly increasing versions.
unpack(records) == \A i \in 1..(Len(records) - 1) : records[i].version < records[i + 1].version

OwnerRestarts ==
  /\ unpack(stored)
  /\ journal' = stored
  /\ UNCHANGED <<version, live, snapshots, stored, restore, faults, strays>>

-------------------------------------------------------------------------------
record_for_version(j, v) == {j[i] : i \in {k \in DOMAIN j : j[k].version = v}}

\* select_restore_record for Version(v): the record, if its signature verifies.
Explicit(j, v) == {rec \in record_for_version(j, v) : rec.sig_verifies}

\* select_restore_record for LastKnownGood: the newest record that verifies.
LastKnownGood(j) ==
  {j[i] : i \in {k \in DOMAIN j : /\ j[k].sig_verifies
                                 /\ \A n \in DOMAIN j : n > k => ~j[n].sig_verifies}}

\* Selection and signature gate; without a record the call returns an error.
Select(r, selected) ==
  /\ restore[r].step = "idle" /\ selected # {}
  /\ restore' = [restore EXCEPT ![r] = [step |-> "copy", record |-> selected, tmp |-> {}]]
  /\ UNCHANGED <<version, live, snapshots, journal, stored, faults, strays>>

Chosen(r) == CHOOSE rec \in restore[r].record : TRUE

\* The call returns an error after it removed its temp file.
Reject(r) ==
  /\ restore' = [restore EXCEPT ![r] = Idle]
  /\ UNCHANGED <<version, live, snapshots, journal, stored, strays>>

\* The snapshot is copied to a temp file of this call.
Copy(r) ==
  /\ restore[r].step = "copy"
  /\ LET ref == Chosen(r).snapshot_ref
     IN  IF ref \in DOMAIN snapshots
         THEN /\ restore' = [restore EXCEPT ![r].step = "gate", ![r].tmp = {snapshots[ref]}]
              /\ UNCHANGED <<version, live, snapshots, journal, stored, faults, strays>>
         ELSE Reject(r) /\ UNCHANGED faults

\* The caller's gate: verify_dataset, and the root the record certifies.
verify_restored_dataset(content, rec) == content # Corrupt /\ content = rec.signed_root

\* The gate looks at the snapshot again instead of at the copy.
GateMut(r) ==
  /\ restore[r].step = "gate"
  /\ IF \A p \in DOMAIN snapshots \cap {Chosen(r).snapshot_ref} :
          verify_restored_dataset(snapshots[p], Chosen(r))
     THEN /\ restore' = [restore EXCEPT ![r].step = "rename"]
          /\ UNCHANGED <<version, live, snapshots, journal, stored, strays>>
     ELSE Reject(r)
  /\ UNCHANGED faults

Gate(r) ==
  /\ restore[r].step = "gate"
  /\ IF \A c \in restore[r].tmp : verify_restored_dataset(c, Chosen(r))
     THEN /\ restore' = [restore EXCEPT ![r].step = "rename"]
          /\ UNCHANGED <<version, live, snapshots, journal, stored, strays>>
     ELSE Reject(r)
  /\ UNCHANGED faults

\* sync_all and the rename over the live file; Ok(version).
Rename(r) ==
  /\ restore[r].step = "rename"
  /\ live' = CHOOSE c \in restore[r].tmp : TRUE
  /\ restore' = [restore EXCEPT ![r] = Idle]
  /\ UNCHANGED <<version, snapshots, journal, stored, faults, strays>>

FailedCallMut(r) ==
  /\ faults < MaxFaults /\ restore[r].step # "idle"
  /\ faults' = faults + 1
  /\ restore' = [restore EXCEPT ![r].step = "idle"]
  /\ UNCHANGED <<version, live, snapshots, journal, stored, strays>>

\* An I/O error of the copy, the gate, the sync or the rename.
FailedCall(r) ==
  /\ faults < MaxFaults /\ restore[r].step # "idle"
  /\ faults' = faults + 1
  /\ Reject(r)

\* The process dies; its temp file stays and no later call uses its name.
Dies(r) ==
  /\ faults < MaxFaults /\ restore[r].step # "idle"
  /\ faults' = faults + 1
  /\ strays' = strays + Cardinality(restore[r].tmp)
  /\ restore' = [restore EXCEPT ![r] = Idle]
  /\ UNCHANGED <<version, live, snapshots, journal, stored>>

\* Storage damages the live file or a record's signature, damages or loses a
\* snapshot.
Damage ==
  /\ faults < MaxFaults /\ faults' = faults + 1
  /\ \/ live' = Corrupt /\ UNCHANGED <<snapshots, journal, stored>>
     \/ \E p \in DOMAIN snapshots :
          snapshots' \in {[snapshots EXCEPT ![p] = Corrupt], Restrict(snapshots, DOMAIN snapshots \ {p})}
        /\ UNCHANGED <<live, journal, stored>>
     \/ \E i \in DOMAIN stored : stored' = [stored EXCEPT ![i].sig_verifies = FALSE]
        /\ UNCHANGED <<live, snapshots, journal>>
  /\ UNCHANGED <<version, restore, strays>>

Owner == Commit \/ Persist \/ OwnerRestarts \/ \E p \in Paths : SnapshotAndJournal(p)

Restorer(r) ==
  \/ \E j \in {journal, stored} :
       \/ Select(r, LastKnownGood(j))
       \/ \E v \in 0..MaxVersion : Select(r, Explicit(j, v))
  \/ Copy(r) \/ Gate(r) \/ Rename(r) \/ FailedCall(r) \/ Dies(r)

Next == Owner \/ Damage \/ \E r \in Restorers : Restorer(r)

Spec == Init /\ [][Next]_vars

--------------------------------------------------------------------------------
\* Apart from commits and damage, the live file changes only to what the record
\* a restore selected certifies, signature included, however snapshots are
\* replaced or damaged between the steps of the restore; a restore that fails
\* leaves the live file as it was.
CertifiedRestore ==
  [][ (live' # live /\ version' = version /\ faults' = faults) =>
        \E r \in Restorers : /\ restore[r].step = "rename"
                             /\ Chosen(r).sig_verifies
                             /\ live' = Chosen(r).signed_root ]_vars

\* A restore that has returned, with Ok or an error, has left no temp file.
NoTempLeft == \A r \in Restorers : restore[r].step = "idle" => restore[r].tmp = {}

\* The versions of the journal strictly increase, in memory and as stored: the
\* binary search of record_for_version finds what is there, the newest record
\* is the last, and unpack accepts what pack wrote.
JournalOrdered == unpack(journal) /\ unpack(stored)
================================================================================
