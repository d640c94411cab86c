------------------------------- MODULE ChunkCache -------------------------------
(***************************************************************************)
(* The chunk cache of an open file (clawhdf5-format/src/chunk_cache.rs) and   *)
(* the chunked reads that go through it (chunked_read.rs).  One cache is     *)
(* shared by all datasets of the file and by all threads that read it; each *)
(* of its methods takes the mutex on its own, and a read makes many calls.   *)
(*                                                                         *)
(* A chunk is the pair of its dataset and its coordinate: its address in the *)
(* file, and the data read from there.  Coordinates of two datasets overlap. *)
(* An Option is a set with at most one element.  The slots are in the order  *)
(* of their last access, which is what the tick counter orders.             *)
(***************************************************************************)
EXTENDS Integers, Sequences, FiniteSets, SequencesExt

CONSTANTS Readers,        \* threads
          Datasets,
          Coords(_),      \* the coordinates of a dataset's chunks
          Size(_),        \* the bytes of one of its chunks
          MaxBytes, MaxSlots,
          MaxReads        \* bound on the reads started

\* with_capacity(_, 0) is left out: put_decompressed would look for a slot to evict
\* in an empty vector.
ASSUME CacheAssumption ==
  MaxBytes \in Nat /\ MaxSlots \in Nat \ {0} /\ MaxReads \in Nat

VARIABLES index, chunk_index, chunk_layout,   \* Option of the chunks they list
          index_addr,                         \* Option of a dataset
          slots, current_bytes,
          reader,                             \* the state of each thread's read
          reads

cachevars == <<index, chunk_index, chunk_layout, index_addr, slots, current_bytes>>
vars == <<cachevars, reader, reads>>

ChunksOf(d) == {[ds |-> d, coord |-> c] : c \in Coords(d)}
Correct(d) == {[at |-> c.coord, data |-> c] : c \in ChunksOf(d)}
AnyDataset == CHOOSE d \in Datasets : TRUE
Resting == [pc |-> "idle", kind |-> "cached", ds |-> AnyDataset, todo |-> {},
            miss |-> {}, parts |-> {}]

Init ==
  /\ index = {} /\ chunk_index = {} /\ chunk_layout = {} /\ index_addr = {}
  /\ slots = <<>> /\ current_bytes = 0
  /\ reader = [r \in Readers |-> Resting] /\ reads = 0

At(r, pc) == reader[r].pc = pc
Goto(r, pc) == reader' = [reader EXCEPT ![r].pc = pc]
Active == {r \in Readers : reader[r].pc \notin {"idle", "ok", "err"}}

-------------------------------------------------------------------------------
\* Mutant: the decompressed slots survive the switch.
EnsureDatasetMut(d) ==
  IF index_addr = {d} THEN UNCHANGED cachevars
  ELSE /\ index' = {} /\ chunk_index' = {} /\ chunk_layout' = {}
       /\ index_addr' = {d}
       /\ UNCHANGED <<slots, current_bytes>>

\* ensure_dataset
EnsureDataset(d) ==
  IF index_addr = {d} THEN UNCHANGED cachevars
  ELSE /\ index' = {} /\ chunk_index' = {} /\ chunk_layout' = {}
       /\ slots' = <<>> /\ current_bytes' = 0
       /\ index_addr' = {d}

\* read_chunked_data_cached and _sweep, and read_chunked_data_indexed, up to their
\* call of ensure_dataset.
Start(r, d, kind) ==
  /\ reader[r].pc \in {"idle", "ok", "err"}
  /\ reads < MaxReads /\ reads' = reads + 1
  /\ reader' = [reader EXCEPT ![r] = [Resting EXCEPT !.pc = "has_index", !.kind = kind,
                                                     !.ds = d]]
  /\ EnsureDataset(d)

\* has_index and has_chunk_index
HasIndex(r) ==
  /\ At(r, "has_index")
  /\ LET wanted == IF reader[r].kind = "cached" THEN index ELSE chunk_index
         next == IF reader[r].kind = "cached" THEN "chunks" ELSE "has_layout"
     IN Goto(r, IF wanted = {} THEN "populate" ELSE next)
  /\ UNCHANGED <<cachevars, reads>>

\* The chunks of the reader's dataset are collected from the file, and listed by
\* populate_index and populate_chunk_index unless a list is there.
Populate(r) ==
  /\ At(r, "populate")
  /\ LET found == {ChunksOf(reader[r].ds)} IN
     IF reader[r].kind = "cached"
     THEN /\ index' = IF index = {} THEN found ELSE index
          /\ Goto(r, "chunks")
          /\ UNCHANGED chunk_index
     ELSE /\ chunk_index' = IF chunk_index = {} THEN found ELSE chunk_index
          /\ Goto(r, "populate_legacy")
          /\ UNCHANGED index
  /\ UNCHANGED <<chunk_layout, index_addr, slots, current_bytes, reads>>

\* The second call of read_chunked_data_indexed, on the list of the other readers.
PopulateLegacy(r) ==
  /\ At(r, "populate_legacy")
  /\ index' = IF index = {} THEN {ChunksOf(reader[r].ds)} ELSE index
  /\ Goto(r, "has_layout")
  /\ UNCHANGED <<chunk_index, chunk_layout, index_addr, slots, current_bytes, reads>>

\* has_chunk_layout and populate_chunk_layout, which needs a chunk index
PopulateLayout(r) ==
  /\ At(r, "has_layout")
  /\ chunk_layout' = IF chunk_layout = {} THEN chunk_index ELSE chunk_layout
  /\ Goto(r, "chunks")
  /\ UNCHANGED <<index, chunk_index, index_addr, slots, current_bytes, reads>>

\* all_indexed_chunks().unwrap_or_default(), or the mappings of the layout, whose
\* absence is an error
ListChunks(r) ==
  /\ At(r, "chunks")
  /\ IF reader[r].kind = "cached"
     THEN reader' = [reader EXCEPT ![r].pc = "get", ![r].todo = UNION index]
     ELSE IF chunk_layout = {} THEN Goto(r, "err")
     ELSE reader' = [reader EXCEPT ![r].pc = "get", ![r].todo = UNION chunk_layout]
  /\ UNCHANGED <<cachevars, reads>>

\* The data of one chunk goes to its place in the output.
Placed(r, c, data) ==
  [reader EXCEPT ![r].pc = "get", ![r].todo = @ \ {c}, ![r].miss = {},
                 ![r].parts = @ \cup {[at |-> c.coord, data |-> data]}]

\* Mutant: the first slot is taken whatever its coordinate.
SlotMut(coord) == DOMAIN slots \cap {1}

Slot(coord) == {i \in DOMAIN slots : slots[i].coord = coord}
Touched(i) == Append(RemoveAt(slots, i), slots[i])

\* get_decompressed: a hit becomes the most recent slot.
Get(r) ==
  /\ At(r, "get")
  /\ \E c \in reader[r].todo :
       \/ \E i \in Slot(c.coord) :
            /\ reader' = Placed(r, c, slots[i])
            /\ slots' = Touched(i)
       \/ /\ Slot(c.coord) = {}
          /\ reader' = [reader EXCEPT ![r].pc = "put", ![r].miss = {c}]
          /\ UNCHANGED slots
  /\ UNCHANGED <<index, chunk_index, chunk_layout, index_addr, current_bytes, reads>>

Bytes(s) == FoldLeft(LAMBDA n, c : n + Size(c.ds), 0, s)

\* Mutant: eviction stops when the slots are enough, whatever their bytes.
RoomForMut(c) ==
  CHOOSE s \in {SubSeq(slots, k, Len(slots)) : k \in 1..(Len(slots) + 1)} :
    /\ Len(s) < MaxSlots
    /\ \A t \in {SubSeq(slots, k, Len(slots)) : k \in 1..(Len(slots) + 1)} :
         Len(t) < MaxSlots => Len(t) <= Len(s)

\* The eviction loop: the least recent slots go until there is room for chunk c, the
\* longest rest that leaves room stays.
RoomFor(c) ==
  LET fits(s) == Len(s) < MaxSlots /\ (Bytes(s) + Size(c.ds) <= MaxBytes \/ s = <<>>)
      rests == {SubSeq(slots, k, Len(slots)) : k \in 1..(Len(slots) + 1)}
  IN CHOOSE s \in rests : fits(s) /\ \A t \in rests : fits(t) => Len(t) <= Len(s)

\* Mutant: a chunk that another thread has put meanwhile is put again.
PutDecompressedMut(c) ==
  IF Size(c.ds) > MaxBytes THEN UNCHANGED <<slots, current_bytes>>
  ELSE /\ slots' = Append(RoomFor(c), c)
       /\ current_bytes' = current_bytes - Bytes(slots) + Bytes(RoomFor(c)) + Size(c.ds)

\* put_decompressed
PutDecompressed(c) ==
  IF Size(c.ds) > MaxBytes THEN UNCHANGED <<slots, current_bytes>>
  ELSE IF Slot(c.coord) # {}
  THEN slots' = Touched(CHOOSE i \in Slot(c.coord) : TRUE) /\ UNCHANGED current_bytes
  ELSE /\ slots' = Append(RoomFor(c), c)
       /\ current_bytes' = current_bytes - Bytes(slots) + Bytes(RoomFor(c)) + Size(c.ds)

\* The chunk is read from the file, outside the mutex, and put.
Put(r) ==
  /\ At(r, "put")
  /\ \E c \in reader[r].miss :
       /\ PutDecompressed(c)
       /\ reader' = Placed(r, c, c)
  /\ UNCHANGED <<index, chunk_index, chunk_layout, index_addr, reads>>

\* The chunk lies outside the file or cannot be decompressed.
ReadFails(r) ==
  /\ At(r, "put")
  /\ Goto(r, "err")
  /\ UNCHANGED <<cachevars, reads>>

\* The output is complete; read_chunked_data_indexed assembles it by the layout that
\* is cached now, and leaves it zeroed when there is none.
Finish(r) ==
  /\ At(r, "get") /\ reader[r].todo = {}
  /\ reader' = [reader EXCEPT ![r].pc = "ok",
       ![r].parts = IF reader[r].kind = "cached" THEN @
                    ELSE {p \in @ : \E c \in UNION chunk_layout : c.coord = p.at}]
  /\ UNCHANGED <<cachevars, reads>>

\* clear, between reads
Clear ==
  /\ Active = {}
  /\ index' = {} /\ chunk_index' = {} /\ chunk_layout' = {} /\ index_addr' = {}
  /\ slots' = <<>> /\ current_bytes' = 0
  /\ UNCHANGED <<reader, reads>>

Step(r) == \/ HasIndex(r) \/ Populate(r) \/ PopulateLegacy(r) \/ PopulateLayout(r)
           \/ ListChunks(r) \/ Get(r) \/ Put(r) \/ ReadFails(r) \/ Finish(r)

\* Reads of any datasets at a time
Next == Clear \/ \E r \in Readers : \/ Step(r)
                                    \/ \E d \in Datasets, k \in {"cached", "indexed"} :
                                         Start(r, d, k)

\* Threads that read at the same time read the same dataset.
StartShared(r, d, k) == (\A o \in Active : reader[o].ds = d) /\ Start(r, d, k)
NextShared == Clear \/ \E r \in Readers : \/ Step(r)
                                          \/ \E d \in Datasets, k \in {"cached", "indexed"} :
                                               StartShared(r, d, k)

Spec == Init /\ [][Next]_vars
SpecShared == Init /\ [][NextShared]_vars

-------------------------------------------------------------------------------

\* A read that returns Ok returns its own dataset, every chunk in its place: the
\* cache is bound to the dataset "so a different dataset's chunk index is never reused
\* for this read" (read_chunked_data_cached).
ReadCorrect ==
  \A r \in Readers : At(r, "ok") => reader[r].parts = Correct(reader[r].ds)

\* Whatever the cache holds belongs to the dataset it is bound to, however reads of
\* that dataset interleave and datasets follow each other (index_addr).
CacheBelongs ==
  /\ index \cup chunk_index \cup chunk_layout \subseteq {ChunksOf(d) : d \in index_addr}
  /\ {slots[i].ds : i \in DOMAIN slots} \subseteq index_addr

\* The budget: the byte count is that of the slots, no limit is exceeded, and no
\* coordinate has two slots, also when two threads miss on one chunk (put_decompressed).
Budget ==
  /\ current_bytes = Bytes(slots) /\ current_bytes <= MaxBytes /\ Len(slots) <= MaxSlots
  /\ \A i, j \in DOMAIN slots : slots[i].coord = slots[j].coord => i = j
================================================================================
