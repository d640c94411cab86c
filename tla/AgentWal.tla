------------------------------- MODULE AgentWal -------------------------------
(***************************************************************************)
(* The sidecar log of the agent memory store                               *)
(* (crates/clawhdf5-agent/src/wal.rs).  The file is a header and a sequence  *)
(* of records; each record carries the chain hash of everything before it.  *)
(* The hash is modelled as collision free: a tip is the sequence of entries *)
(* hashed so far.  A write cut short leaves a torn record, bytes that are a *)
(* proper prefix of a record.                                               *)
(*                                                                         *)
(* Only version-2 files: nothing here writes version 1.  A process crash    *)
(* keeps what write_all handed to the kernel.                               *)
(***************************************************************************)
EXTENDS Integers, Sequences

CONSTANTS GroupCommitSize,    \* GROUP_COMMIT_SIZE
          MaxLog              \* bound on the records in the file, torn ones included

ASSUME AgentWalAssumption == GroupCommitSize \in Nat \ {0} /\ MaxLog \in Nat

VARIABLES
  log,                 \* the records in the file
  header,              \* the header: "absent" (no file), "short" or "ok"
  header_count,        \* its entry_count field
  fate,                \* how a torn record parses once bytes follow it
  entry_count, pending_header_sync, chain_tip,   \* WalFile
  file_open            \* WalFile::file is Some

diskWal == <<log, header, header_count, fate>>
memWal == <<entry_count, pending_header_sync, chain_tip, file_open>>
agentWalVars == <<diskWal, memWal>>

Fates == {"stop", "error"}

Whole(e, tip) == [torn |-> FALSE, entry |-> <<e>>, tip |-> tip]
Torn == [torn |-> TRUE, entry |-> <<>>, tip |-> <<>>]

initial_chain == <<>>
chain_next(prev, e) == Append(prev, e)

AgentWalInit ==
  /\ log = <<>> /\ header = "absent" /\ header_count = 0 /\ fate = "stop"
  /\ entry_count = 0 /\ pending_header_sync = 0 /\ chain_tip = initial_chain
  /\ file_open = FALSE

-------------------------------------------------------------------------------
\* parse_entries.  A torn record at the end of the file ends the log quietly; one
\* that is followed by more bytes swallows some of them, and then either runs out
\* of bytes (the log ends there) or fails its hash or its decoding.
FirstTorn == IF \E i \in DOMAIN log : log[i].torn
               THEN CHOOSE i \in DOMAIN log : log[i].torn /\ \A j \in 1..(i - 1) : ~log[j].torn
               ELSE Len(log) + 1

Entries == [i \in 1..(FirstTorn - 1) |-> log[i].entry[1]]

ChainVerifies ==
  \A i \in 1..(FirstTorn - 1) : log[i].tip = chain_next(SubSeq(Entries, 1, i - 1), Entries[i])

ParseFails == ~ChainVerifies \/ (FirstTorn < Len(log) /\ fate = "error")

\* No record follows a torn one.
CleanLog == FirstTorn >= Len(log)

-------------------------------------------------------------------------------
\* Mutant: the chain restarts with every open.
LoadWalMut ==
  /\ header = "ok" /\ ~ParseFails
  /\ entry_count' = header_count
  /\ pending_header_sync' = 0
  /\ chain_tip' = initial_chain
  /\ file_open' = TRUE
  /\ UNCHANGED diskWal

\* WalFile::open on an existing file: the count comes from the header, the chain
\* tip from a replay, and the file position is the end of the file.
LoadWal ==
  /\ header = "ok" /\ ~ParseFails
  /\ entry_count' = header_count
  /\ pending_header_sync' = 0
  /\ chain_tip' = Entries
  /\ file_open' = TRUE
  /\ UNCHANGED diskWal

\* File::create, in open and in truncate: the file exists and is empty.
CreateWalFile ==
  /\ log' = <<>> /\ header' = "short" /\ header_count' = 0 /\ fate' = "stop"
  /\ file_open' = FALSE
  /\ UNCHANGED <<entry_count, pending_header_sync, chain_tip>>

WriteWalHeader ==
  /\ header = "short"
  /\ header' = "ok"
  /\ entry_count' = 0 /\ pending_header_sync' = 0 /\ chain_tip' = initial_chain
  /\ file_open' = TRUE
  /\ UNCHANGED <<log, header_count, fate>>

\* Bytes that follow a torn record can change how it parses.
Extend(r) ==
  /\ Len(log) < MaxLog
  /\ log' = Append(log, r)
  /\ fate' \in IF FirstTorn <= Len(log) THEN Fates ELSE {fate}

\* append_save, up to and including the header sync every GroupCommitSize entries.
AppendSave(e) ==
  /\ file_open
  /\ Extend(Whole(e, chain_next(chain_tip, e)))
  /\ chain_tip' = chain_next(chain_tip, e)
  /\ entry_count' = entry_count + 1
  /\ IF pending_header_sync + 1 >= GroupCommitSize
       THEN header_count' = entry_count' /\ pending_header_sync' = 0
       ELSE pending_header_sync' = pending_header_sync + 1 /\ UNCHANGED header_count
  /\ UNCHANGED <<header, file_open>>

\* append_save fails inside the record, or while syncing the header after it.
AppendTorn ==
  /\ file_open
  /\ Extend(Torn)
  /\ UNCHANGED <<header, header_count, memWal>>

AppendUnsynced(e) ==
  /\ file_open
  /\ pending_header_sync + 1 >= GroupCommitSize
  /\ Extend(Whole(e, chain_next(chain_tip, e)))
  /\ chain_tip' = chain_next(chain_tip, e)
  /\ entry_count' = entry_count + 1
  /\ pending_header_sync' = pending_header_sync + 1
  /\ UNCHANGED <<header, header_count, file_open>>
===============================================================================
