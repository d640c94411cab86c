------------------------------ MODULE AsyncWriter ------------------------------
(***************************************************************************)
(* AsyncHDF5Memory (crates/clawhdf5-agent/src/async_memory.rs): client       *)
(* tasks send saves and flushes through a bounded channel to one background *)
(* writer, which applies them to the shared HDF5Memory; deletes and other   *)
(* direct calls take the mutex themselves.  Every use of the store is one   *)
(* spawn_blocking task that holds the mutex throughout, so it is one step;  *)
(* the writer gives the mutex up between its tasks.                         *)
(*                                                                         *)
(* HDF5Memory appears at the granularity of its calls (MemoryStore has the  *)
(* steps inside them): the ids in its cache, in the .h5 file and in the log. *)
(***************************************************************************)
EXTENDS Integers, Sequences, FiniteSets, SequencesExt

CONSTANTS Clients,          \* tasks that share the AsyncHDF5Memory
          Capacity,         \* AsyncConfig::channel_capacity
          FlushThreshold,   \* AsyncConfig::flush_threshold, 0 for none
          UseInterval,      \* AsyncConfig::flush_interval > 0
          WalMaxEntries,    \* MemoryConfig::wal_max_entries
          MaxSaves,         \* bound on the entries ever saved
          MaxFlushes        \* bound on the flush and tick commands ever sent

ASSUME AsyncAssumption ==
  /\ Capacity \in Nat \ {0}
  /\ {FlushThreshold, WalMaxEntries, MaxSaves, MaxFlushes} \subseteq Nat
  /\ UseInterval \in BOOLEAN

VARIABLES
  queue,      \* the channel
  open,       \* the receiver is alive
  senders,    \* the AsyncHDF5Memory value, with its sender, is alive
  writer,     \* what the background task does next
  dirty,
  cache, h5, log,     \* HDF5Memory, by ids
  gone,       \* history: ids that were deleted
  excused,    \* history: since the last completed flush the writer has overlooked
              \* an error, or has not learnt of entries in the cache
  pc,         \* what each client waits for
  outcome,    \* the result of its last call
  need,       \* history: ids in the cache when its flush was sent
  saves, flushes      \* bounds

store == <<cache, h5, log, gone, excused>>
bounds == <<saves, flushes>>
vars == <<queue, open, senders, writer, dirty, store, pc, outcome, need, bounds>>

Ids == 1..MaxSaves
Sent(n) == [i \in 1..n |-> saves + i]

\* wrap_with: a new store, or one whose log open() has just replayed.
Init ==
  /\ queue = <<>> /\ open = TRUE /\ senders = TRUE /\ writer = "recv" /\ dirty = FALSE
  /\ h5 = {} /\ log \in {{}, {1}} /\ cache = log /\ gone = {} /\ excused = (log # {})
  /\ pc = [c \in Clients |-> "idle"] /\ outcome = [c \in Clients |-> "none"]
  /\ need = [c \in Clients |-> {}]
  /\ saves = Cardinality(log) /\ flushes = 0

-------------------------------------------------------------------------------
\* Mutant: the reply is not awaited.
SendMut(c, op, ids, wait) ==
  /\ open /\ senders /\ Len(queue) < Capacity
  /\ queue' = Append(queue, [op |-> op, client |-> c, ids |-> ids])
  /\ UNCHANGED <<open, senders, writer, dirty, store, pc, outcome>>

\* A client sends a command and awaits the reply; while the channel is full it
\* waits to send.
Send(c, op, ids, wait) ==
  /\ open /\ senders /\ Len(queue) < Capacity
  /\ queue' = Append(queue, [op |-> op, client |-> c, ids |-> ids])
  /\ pc' = [pc EXCEPT ![c] = wait]
  /\ UNCHANGED <<open, senders, writer, dirty, store, outcome>>

\* save and save_batch
SendSave(c) ==
  /\ pc[c] = "idle"
  /\ \E n \in 0..2 :
       /\ saves + n <= MaxSaves
       /\ saves' = saves + n
       /\ Send(c, "save", Sent(n), "saving")
  /\ UNCHANGED <<need, flushes>>

\* flush; shutdown starts with one.
SendFlush(c) ==
  /\ pc[c] = "idle"
  /\ flushes < MaxFlushes /\ flushes' = flushes + 1
  /\ \E wait \in {"flushing", "shutdown_flush"} : Send(c, "flush", <<>>, wait)
  /\ need' = [need EXCEPT ![c] = cache]
  /\ UNCHANGED saves

SendTick(c) ==
  /\ pc[c] = "idle"
  /\ flushes < MaxFlushes /\ flushes' = flushes + 1
  /\ Send(c, "tick", <<>>, "flushing")
  /\ need' = [need EXCEPT ![c] = cache]
  /\ UNCHANGED saves

\* shutdown goes on once its flush succeeded, and returns when it failed.
SendShutdown(c) ==
  /\ pc[c] = "shutdown_next"
  /\ \/ outcome[c] = "ok" /\ Send(c, "shutdown", <<>>, "stopping")
     \/ /\ outcome[c] = "err" \/ ~open
        /\ pc' = [pc EXCEPT ![c] = "idle"]
        /\ UNCHANGED <<queue, open, senders, writer, dirty, store, outcome>>
  /\ UNCHANGED <<need, bounds>>

\* The direct calls take the mutex, change the cache and flush it: delete, and record,
\* which adds entries (the calls on sessions and on the graph change neither).  When
\* the flush fails the cache stays changed, and the writer does not hear of it.
FlushDirect ==
  \/ h5' = cache' /\ log' = {} /\ excused' = FALSE
  \/ h5' \in {h5, cache'} /\ UNCHANGED log /\ excused' = TRUE

DeleteDirect(c) ==
  /\ pc[c] = "idle" /\ senders
  /\ \E id \in cache :
       /\ cache' = cache \ {id}
       /\ gone' = gone \cup {id}
  /\ FlushDirect
  /\ UNCHANGED <<queue, open, senders, writer, dirty, pc, outcome, need, bounds>>

RecordDirect(c) ==
  /\ pc[c] = "idle" /\ senders
  /\ saves < MaxSaves /\ saves' = saves + 1
  /\ cache' = cache \cup {saves'}
  /\ FlushDirect
  /\ UNCHANGED <<queue, open, senders, writer, dirty, gone, pc, outcome, need, flushes>>

\* The last handle is dropped, when no call borrows it.
Drop ==
  /\ senders /\ \A c \in Clients : pc[c] = "idle"
  /\ senders' = FALSE
  /\ UNCHANGED <<queue, open, writer, dirty, store, pc, outcome, need, bounds>>

-------------------------------------------------------------------------------
\* HDF5Memory::save with the log enabled: append, push, and merge a log that has
\* grown past wal_max_entries.
Save(m, id) ==
  LET c == m.cache \cup {id}
      l == m.log \cup {id}
  IN IF Cardinality(l) > WalMaxEntries THEN [cache |-> c, h5 |-> c, log |-> {}]
                                       ELSE [cache |-> c, h5 |-> m.h5, log |-> l]

\* A save that fails: at the append, in the flush of the merge, or at its truncate.
SaveFailures(m, id) ==
  LET c == m.cache \cup {id}
      l == m.log \cup {id}
  IN {m} \cup (IF Cardinality(l) > WalMaxEntries
               THEN {[cache |-> c, h5 |-> m.h5, log |-> l], [cache |-> c, h5 |-> c, log |-> l]}
               ELSE {})

Memory == [cache |-> cache, h5 |-> h5, log |-> log]
SaveAll(ids) == FoldLeft(Save, Memory, ids)
BecomeMemory(m) == cache' = m.cache /\ h5' = m.h5 /\ log' = m.log

Waiting(c) == pc[c] \notin {"idle", "shutdown_next"}

Reply(c, result) ==
  /\ need' = [need EXCEPT ![c] = {}]
  /\ outcome' = [outcome EXCEPT ![c] = result]
  /\ pc' = [pc EXCEPT ![c] = IF @ = "shutdown_flush" THEN "shutdown_next" ELSE "idle"]

Recv(op) ==
  /\ open /\ writer = "recv" /\ queue # <<>> /\ Head(queue).op = op
  /\ queue' = Tail(queue)

AfterSave == IF FlushThreshold > 0 THEN "check" ELSE "recv"

\* Mutant: the flag is set only when no threshold flush will be considered.
RecvSaveMut ==
  /\ Recv("save")
  /\ LET m == Head(queue) IN
     /\ BecomeMemory(SaveAll(m.ids))
     /\ Reply(m.client, "ok")
  /\ dirty' = (FlushThreshold = 0)
  /\ writer' = AfterSave
  /\ UNCHANGED <<open, senders, gone, excused, bounds>>

\* WriteCmd::Save: all entries are saved in one task, then the reply is sent and the
\* threshold is looked at.
RecvSave ==
  /\ Recv("save")
  /\ LET m == Head(queue) IN
     /\ BecomeMemory(SaveAll(m.ids))
     /\ Reply(m.client, "ok")
  /\ dirty' = TRUE
  /\ writer' = AfterSave
  /\ UNCHANGED <<open, senders, gone, excused, bounds>>

\* The k-th save of the command fails: those before it stay, dirty is cleared.
RecvSaveFails ==
  /\ Recv("save")
  /\ LET ids == Head(queue).ids IN
     \E k \in DOMAIN ids :
       \E m \in SaveFailures(SaveAll(SubSeq(ids, 1, k - 1)), ids[k]) : BecomeMemory(m)
  /\ Reply(Head(queue).client, "err")
  /\ dirty' = FALSE /\ excused' = TRUE
  /\ UNCHANGED <<open, senders, writer, gone, bounds>>

\* The pending count is read in one task and the flush made in another.
CheckThreshold ==
  /\ open /\ writer = "check"
  /\ writer' = IF Cardinality(log) >= FlushThreshold THEN "merge" ELSE "recv"
  /\ UNCHANGED <<queue, open, senders, dirty, store, pc, outcome, need, bounds>>

flush_wal == h5' = cache /\ log' = {} /\ excused' = FALSE /\ UNCHANGED <<cache, gone>>

\* The flush fails before or after the .h5 file is replaced; the log stays.
flush_wal_fails == h5' \in {h5, cache} /\ UNCHANGED <<cache, log, gone>>

MergeAtThreshold ==
  /\ open /\ writer = "merge"
  /\ flush_wal
  /\ dirty' = FALSE
  /\ writer' = "recv"
  /\ UNCHANGED <<queue, open, senders, pc, outcome, need, bounds>>

\* The error of the flush is dropped.
MergeAtThresholdFails ==
  /\ open /\ writer = "merge"
  /\ flush_wal_fails
  /\ dirty' = FALSE /\ excused' = TRUE
  /\ writer' = "recv"
  /\ UNCHANGED <<queue, open, senders, pc, outcome, need, bounds>>

\* Mutant: the flush is left to the interval.
RecvFlushMut ==
  /\ Recv("flush")
  /\ UNCHANGED <<store, dirty>>
  /\ Reply(Head(queue).client, "ok")
  /\ UNCHANGED <<open, senders, writer, bounds>>

\* WriteCmd::FlushNow
RecvFlush ==
  /\ Recv("flush")
  /\ IF dirty THEN flush_wal /\ dirty' = FALSE ELSE UNCHANGED <<store, dirty>>
  /\ Reply(Head(queue).client, "ok")
  /\ UNCHANGED <<open, senders, writer, bounds>>

RecvFlushFails ==
  /\ Recv("flush") /\ dirty
  /\ flush_wal_fails
  /\ Reply(Head(queue).client, "err")
  /\ UNCHANGED <<open, senders, writer, dirty, excused, bounds>>

\* WriteCmd::TickSession
RecvTick ==
  /\ Recv("tick")
  /\ flush_wal
  /\ dirty' = FALSE
  /\ Reply(Head(queue).client, "ok")
  /\ UNCHANGED <<open, senders, writer, bounds>>

RecvTickFails ==
  /\ Recv("tick")
  /\ flush_wal_fails
  /\ Reply(Head(queue).client, "err")
  /\ UNCHANGED <<open, senders, writer, dirty, excused, bounds>>

\* Mutant: the commands still queued are not answered.
StopMut ==
  /\ open' = FALSE /\ queue' = <<>>
  /\ pc' = [c \in Clients |-> IF pc[c] = "stopping" THEN "idle" ELSE pc[c]]
  /\ outcome' = [c \in Clients |-> IF pc[c] = "stopping" THEN "ok" ELSE outcome[c]]

\* The loop ends and the receiver is dropped with everything still queued: each
\* waiting client gets channel_gone, which shutdown ignores.
Stop ==
  /\ open' = FALSE /\ queue' = <<>>
  /\ pc' = [c \in Clients |-> IF pc[c] = "shutdown_flush" THEN "shutdown_next"
                              ELSE IF Waiting(c) THEN "idle" ELSE pc[c]]
  /\ outcome' = [c \in Clients |-> IF pc[c] = "stopping" THEN "ok"
                                   ELSE IF Waiting(c) THEN "err" ELSE outcome[c]]

RecvShutdown ==
  /\ open /\ writer = "recv" /\ queue # <<>> /\ Head(queue).op = "shutdown"
  /\ Stop
  /\ UNCHANGED <<senders, writer, dirty, store, need, bounds>>

RecvClosed ==
  /\ open /\ writer = "recv" /\ queue = <<>> /\ ~senders
  /\ Stop
  /\ UNCHANGED <<senders, writer, dirty, store, need, bounds>>

\* The interval ticks: flush when dirty.
IntervalFlush ==
  /\ open /\ writer = "recv" /\ UseInterval /\ dirty
  /\ flush_wal
  /\ dirty' = FALSE
  /\ UNCHANGED <<queue, open, senders, writer, pc, outcome, need, bounds>>

\* Only the JoinError is looked at, not the flush's own error.
IntervalFlushFails ==
  /\ open /\ writer = "recv" /\ UseInterval /\ dirty
  /\ flush_wal_fails
  /\ dirty' = FALSE /\ excused' = TRUE
  /\ UNCHANGED <<queue, open, senders, writer, pc, outcome, need, bounds>>

Client(c) == SendSave(c) \/ SendFlush(c) \/ SendTick(c) \/ SendShutdown(c)
             \/ DeleteDirect(c) \/ RecordDirect(c)

Receive == \/ RecvSave \/ RecvSaveFails \/ RecvFlush \/ RecvFlushFails
           \/ RecvTick \/ RecvTickFails \/ RecvShutdown \/ RecvClosed
Writer == Receive \/ CheckThreshold \/ MergeAtThreshold \/ MergeAtThresholdFails

Next == \/ Drop \/ (\E c \in Clients : Client(c))
        \/ Writer \/ IntervalFlush \/ IntervalFlushFails

\* The runtime keeps polling the background task.
Fairness == WF_vars(Writer)

Spec == Init /\ [][Next]_vars /\ Fairness

-------------------------------------------------------------------------------
AsyncTypeOK ==
  /\ queue \in Seq([op : {"save", "flush", "tick", "shutdown"}, client : Clients,
                    ids : UNION {[1..n -> Ids] : n \in 0..2}])
  /\ Len(queue) <= Capacity /\ \A i \in DOMAIN queue : Waiting(queue[i].client)
  /\ {open, senders, dirty, excused} \subseteq BOOLEAN
  /\ writer \in {"recv", "check", "merge"}
  /\ {cache, h5, log, gone} \subseteq SUBSET Ids
  /\ pc \in [Clients -> {"idle", "saving", "flushing", "shutdown_flush", "shutdown_next",
                         "stopping"}]
  /\ outcome \in [Clients -> {"none", "ok", "err"}]
  /\ need \in [Clients -> SUBSET Ids]

\* When flush, tick_session or the flush of shutdown returns Ok, everything that was
\* in the cache before the call is in the .h5 file or was deleted, however saves,
\* threshold and interval flushes and direct calls interleaved ("Request an immediate
\* WAL -> .h5 flush"), unless the writer had overlooked an error or a replayed log.
FlushCovers ==
  [][\A c \in Clients :
       (pc[c] \in {"flushing", "shutdown_flush"} /\ pc'[c] # pc[c] /\ outcome'[c] = "ok")
         => excused \/ need[c] \subseteq h5' \cup gone']_vars

\* The flag is set whenever the log holds an entry ("true when cache has unsaved
\* changes that haven't been flushed"), so no flush or interval skips it; only an
\* overlooked error or a log replayed by open() makes it miss one.
DirtyTracksLog == log # {} => dirty \/ excused

\* Every call of a client returns, with a reply or with channel_gone, also when
\* another client shuts the writer down first.
CallsReturn == \A c \in Clients : Waiting(c) ~> ~Waiting(c)
================================================================================
