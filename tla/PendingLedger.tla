----------------------------- MODULE PendingLedger -----------------------------
(***************************************************************************)
(* What VersionWal (crates/clawhdf5-filters/src/version_wal.rs) promises    *)
(* the encrypted writer: a set of journaled, unresolved entries.  An entry  *)
(* enters when it is journaled and leaves only while a commit of its own    *)
(* chunk is running; a crash, a reopen, an I/O error and a compaction,      *)
(* wherever they stop, neither lose nor invent an entry.                    *)
(***************************************************************************)
CONSTANTS Chunks, Versions, Hashes, None

VARIABLES pending,      \* journaled entries recovery must still report
          committing    \* the chunk a commit is running for, or None

vars == <<pending, committing>>

Entry == [chunk_idx : Chunks, version : Versions, plaintext_hash : Hashes]

Init == pending = {} /\ committing = None

Journal ==
  /\ committing = None
  /\ \E e \in Entry : pending' = pending \cup {e}
  /\ UNCHANGED committing

BeginCommit ==
  /\ committing = None
  /\ committing' \in Chunks
  /\ UNCHANGED pending

\* Entries of the chunk are resolved one by one; the call may end early.
Resolve ==
  /\ committing # None
  /\ \E done \in SUBSET {e \in pending : e.chunk_idx = committing} :
       pending' = pending \ done
  /\ committing' \in {committing, None}

Next == Journal \/ BeginCommit \/ Resolve

Spec == Init /\ [][Next]_vars
================================================================================
