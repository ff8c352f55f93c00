----------------------------- MODULE ChunkCache -----------------------------
(* The caching object store (src/object_store/cache.rs): reads of byte       *)
(* ranges of one remote object, cut into chunks of min_fetch_size bytes, a   *)
(* cache entry per chunk that points to memory or to a file, tasks that move *)
(* entries from memory to disk, and evictions that remove the files.         *)
(*                                                                           *)
(* A byte is modelled by its position in the object, so that what a read     *)
(* returns shows which bytes it got.  The cache itself is the moka library:  *)
(* an insertion or removal of a key and the eviction listener it calls are   *)
(* serialized by a lock of that key; lookups and file operations are not.    *)
EXTENDS Integers, Sequences, SequencesExt

CONSTANTS
  Readers,          \* concurrent callers of get_range
  Length,           \* the length of the object
  min_fetch_size,
  Ranges,           \* the ranges that are asked for: pairs <<start, end>>
  MaxReads, MaxEvictions, MaxFaults

(* What the constants may be. *)
ParametersOK ==
  /\ Length \in Nat \ {0} /\ min_fetch_size \in Nat \ {0}
  /\ \A r \in Ranges : r[1] \in 0 .. Length - 1 /\ r[2] \in r[1] + 1 .. Length
  /\ MaxReads \in Nat /\ MaxEvictions \in Nat /\ MaxFaults \in Nat

Chunks == 0 .. (Length - 1) \div min_fetch_size

VARIABLES
  cache,     \* cache[c]: the entry of a chunk
  lock,      \* lock[c]: a listener is about to remove the file of the chunk
  file,      \* file[c]: the contents of its file, or NoFile
  tasks,     \* the write tasks
  cut,       \* history: the chunks whose file a failed write left short
  left,      \* history: the chunks whose file a failure left without an entry
  reader,    \* what each reader is doing
  reads, evictions, faults  \* how many more of them

vars == <<cache, lock, file, tasks, cut, left, reader, reads, evictions, faults>>

NoFile == <<-1>>
NoEntry == [kind |-> "none", data |-> <<>>]
Memory(data) == [kind |-> "memory", data |-> data]
File == [kind |-> "file", data |-> <<>>]

(* torn is history: the read met a file that was not complete.               *)
Done == [pc |-> "idle", range |-> <<0, 0>>, chunk |-> 0, batch |-> <<>>, rest |-> <<>>,
         data |-> <<>>, result |-> <<>>, torn |-> FALSE]

(* The bytes of the object from position a up to, not including, position b. *)
Upstream(a, b) ==
  LET end == IF b < Length THEN b ELSE Length
  IN  [i \in 1 .. end - a |-> a + i - 1]

(* The chunk a position is in, and the bytes of a chunk.                     *)
ChunkOf(position) == position \div min_fetch_size
EndChunk(range) == (range[2] - 1) \div min_fetch_size
ChunkData(c) == Upstream(c * min_fetch_size, (c + 1) * min_fetch_size)

(* --------------------------------- Reads --------------------------------- *)

In(r, pc) == reader[r].pc = pc
cacheVars == <<cache, lock, file, tasks, cut, left>>

(* get_range: the range is widened to whole chunks.                          *)
GetRange(r, range) ==
  /\ In(r, "idle") /\ reads > 0
  /\ reads' = reads - 1
  /\ reader' = [reader EXCEPT ![r] =
       [Done EXCEPT !.pc = "lookup", !.range = range, !.chunk = ChunkOf(range[1])]]
  /\ UNCHANGED <<cacheVars, evictions, faults>>

(* get_chunk_range, for the next chunk: one that is missing joins the batch, *)
(* which is fetched at the last chunk or when a chunk is found.              *)
Lookup(r) ==
  /\ In(r, "lookup")
  /\ LET q == reader[r]
         e == cache[q.chunk]
         last == q.chunk = EndChunk(q.range)
     IN  reader' = [reader EXCEPT ![r] =
           CASE e.kind = "none" ->
                  [q EXCEPT !.batch = Append(@, q.chunk),
                            !.pc = IF last THEN "fetch" ELSE "lookup",
                            !.chunk = IF last THEN @ ELSE @ + 1]
             [] e.kind = "memory" -> [q EXCEPT !.data = e.data, !.pc = "found"]
             [] e.kind = "file" -> [q EXCEPT !.pc = "read_file"]]
  /\ UNCHANGED <<cacheVars, reads, evictions, faults>>

ReadFile_Retry(r) ==
  /\ In(r, "read_file")
  /\ reader' = [reader EXCEPT ![r].pc = "found",
                  ![r].data = IF file[reader[r].chunk] = NoFile THEN <<>> ELSE file[reader[r].chunk]]
  /\ UNCHANGED <<cacheVars, reads, evictions, faults>>

(* A file is being written, or its write failed half way.                    *)
Incomplete(c) ==
  c \in cut \/ \E t \in DOMAIN tasks : tasks[t].chunk = c /\ tasks[t].pc = "write"

(* The file of the entry that was found, if it is still there.               *)
ReadFile(r) ==
  /\ In(r, "read_file")
  /\ LET q == reader[r]
         c == q.chunk
     IN  reader' = [reader EXCEPT ![r] =
           IF file[c] # NoFile
           THEN [q EXCEPT !.pc = "found", !.data = file[c],
                          !.torn = IF Incomplete(c) THEN TRUE ELSE q.torn]
           ELSE [q EXCEPT !.pc = "download"]]
  /\ UNCHANGED <<cacheVars, reads, evictions, faults>>

(* Otherwise the chunk is downloaded, and cached unless it has an entry.     *)
Download(r) ==
  /\ In(r, "download")
  /\ reader' = [reader EXCEPT ![r].pc = "insert", ![r].data = ChunkData(reader[r].chunk)]
  /\ UNCHANGED <<cacheVars, reads, evictions, faults>>

(* cache_chunk_data: an entry in memory for a chunk that has none, and a     *)
(* task that will write it to disk.                                          *)
CacheChunkData(c, data) ==
  /\ ~ lock[c]
  /\ IF cache[c].kind = "none"
     THEN /\ cache' = [cache EXCEPT ![c] = Memory(data)]
          /\ tasks' = Append(tasks, [pc |-> "check", chunk |-> c, data |-> data])
     ELSE UNCHANGED <<cache, tasks>>
  /\ UNCHANGED <<lock, file, cut, left>>

InsertDownloaded(r) ==
  /\ In(r, "insert")
  /\ CacheChunkData(reader[r].chunk, reader[r].data)
  /\ reader' = [reader EXCEPT ![r].pc = "found"]
  /\ UNCHANGED <<reads, evictions, faults>>

(* A chunk was found: the chunks before it that were not are fetched first.  *)
Found(r) ==
  /\ In(r, "found")
  /\ reader' = [reader EXCEPT ![r].pc = IF reader[r].batch # <<>> THEN "fetch" ELSE "append"]
  /\ UNCHANGED <<cacheVars, reads, evictions, faults>>

(* The batch is one request to the object store.                             *)
FetchBatch(r) ==
  /\ In(r, "fetch")
  /\ LET batch == reader[r].batch
         data == Upstream(batch[1] * min_fetch_size, (Last(batch) + 1) * min_fetch_size)
     IN  reader' = [reader EXCEPT ![r].pc = "cache_batch", ![r].rest = data,
                                  ![r].result = @ \o data]
  /\ UNCHANGED <<cacheVars, reads, evictions, faults>>

(* How much of the batch is the next chunk: less than a whole one at the end.*)
SplitLength(rest) == IF Len(rest) < min_fetch_size THEN Len(rest) ELSE min_fetch_size

(* Its chunks are cached one by one.  What is left when the rest is shorter  *)
(* than a chunk is not split off, which only matters past the end.           *)
CacheBatch(r) ==
  /\ In(r, "cache_batch")
  /\ LET rest == reader[r].rest
         n == SplitLength(rest)
     IN  /\ CacheChunkData(reader[r].batch[1], SubSeq(rest, 1, n))
         /\ reader' = [reader EXCEPT ![r].batch = Tail(@),
              ![r].rest = IF Len(rest) < min_fetch_size THEN rest ELSE SubSeq(rest, n + 1, Len(rest)),
              ![r].pc = IF Len(reader[r].batch) > 1 THEN "cache_batch" ELSE "append"]
  /\ UNCHANGED <<reads, evictions, faults>>

(* advance(offset) and truncate(length). *)
Trim(data, offset, length) ==
  SubSeq(data, offset + 1, IF offset + length < Len(data) THEN offset + length ELSE Len(data))

(* The data of the current chunk, if it was found, follows the batch; after  *)
(* the last chunk the bytes outside the range are trimmed away.              *)
AppendChunk(r) ==
  /\ In(r, "append")
  /\ LET q == reader[r]
         all == q.result \o q.data
         offset == q.range[1] - ChunkOf(q.range[1]) * min_fetch_size
         length == q.range[2] - q.range[1]
     IN  reader' = [reader EXCEPT ![r] =
           IF q.chunk < EndChunk(q.range)
           THEN [q EXCEPT !.pc = "lookup", !.chunk = @ + 1, !.data = <<>>, !.result = all]
           ELSE [q EXCEPT !.pc = "return", !.data = <<>>, !.rest = <<>>,
                   !.result = Trim(all, offset, length)]]
  /\ UNCHANGED <<cacheVars, reads, evictions, faults>>

Return(r) ==
  /\ In(r, "return")
  /\ reader' = [reader EXCEPT ![r] = Done]
  /\ UNCHANGED <<cacheVars, reads, evictions, faults>>

(* A request to the object store fails, and the read with it.                *)
FetchFails(r) ==
  /\ reader[r].pc \in {"fetch", "download"} /\ faults > 0
  /\ faults' = faults - 1
  /\ reader' = [reader EXCEPT ![r] = Done]
  /\ UNCHANGED <<cacheVars, reads, evictions>>

(* ------------------------------ Write tasks ------------------------------ *)

SetTask(t, pc) == tasks' = [tasks EXCEPT ![t].pc = pc]
EndTask(t) == tasks' = RemoveAt(tasks, t)
readVars == <<reader, reads>>

(* write_file: a file that exists is taken for the one to be written.        *)
CheckExists(t) ==
  /\ tasks[t].pc = "check"
  /\ SetTask(t, IF file[tasks[t].chunk] # NoFile THEN "upsert" ELSE "create")
  /\ UNCHANGED <<cache, lock, file, cut, left, readVars, evictions, faults>>

(* tokio::fs::write, which another task may do between the check and this:   *)
(* the file is created, or truncated.                                        *)
CreateFile(t) ==
  /\ tasks[t].pc = "create"
  /\ SetTask(t, "write")
  /\ file' = [file EXCEPT ![tasks[t].chunk] = <<>>]
  /\ UNCHANGED <<cache, lock, cut, left, readVars, evictions, faults>>

(* Then the data is written; no one will see it if the file was removed.     *)
WriteFile(t) ==
  /\ tasks[t].pc \in {"write", "unlinked"}
  /\ SetTask(t, "upsert")
  /\ file' = IF tasks[t].pc = "write" THEN [file EXCEPT ![tasks[t].chunk] = tasks[t].data] ELSE file
  /\ UNCHANGED <<cache, lock, cut, left, readVars, evictions, faults>>

(* The file cannot be created, or the write fails after some of the bytes    *)
(* and leaves them, or what another task wrote.                              *)
WriteFails(t) ==
  /\ tasks[t].pc \in {"create", "write", "unlinked"} /\ faults > 0
  /\ faults' = faults - 1
  /\ SetTask(t, "invalidate")
  /\ LET c == tasks[t].chunk
     IN  IF tasks[t].pc = "write"
         THEN /\ \E n \in 0 .. Len(tasks[t].data) - 1 :
                   file' = [file EXCEPT ![c] = IF Len(@) < n THEN SubSeq(tasks[t].data, 1, n) ELSE @]
              /\ cut' = cut \cup {c} /\ left' = left \cup {c}
         ELSE UNCHANGED <<file, cut, left>>
  /\ UNCHANGED <<cache, lock, readVars, evictions>>

(* The file pointer replaces the entry; replacing a file pointer calls the   *)
(* listener, which removes the file.                                         *)
UpsertFile(t) ==
  /\ tasks[t].pc = "upsert"
  /\ LET c == tasks[t].chunk
     IN  /\ ~ lock[c]
         /\ cache' = [cache EXCEPT ![c] = File]
         /\ lock' = [lock EXCEPT ![c] = cache[c].kind = "file"]
         /\ left' = left \ {c}
  /\ EndTask(t)
  /\ UNCHANGED <<file, cut, readVars, evictions, faults>>

Invalidate_Logged(t) ==
  /\ tasks[t].pc = "invalidate"
  /\ EndTask(t)
  /\ UNCHANGED <<cache, lock, file, cut, left, readVars, evictions, faults>>

(* After a failed write the entry is invalidated.                            *)
Invalidate(t) ==
  /\ tasks[t].pc = "invalidate"
  /\ LET c == tasks[t].chunk
     IN  /\ ~ lock[c]
         /\ cache' = [cache EXCEPT ![c] = NoEntry]
         /\ lock' = [lock EXCEPT ![c] = cache[c].kind = "file"]
  /\ EndTask(t)
  /\ UNCHANGED <<file, cut, left, readVars, evictions, faults>>

(* -------------------------------- Eviction ------------------------------- *)

(* An entry expires or makes room for another (moka).                        *)
Evict(c) ==
  /\ cache[c].kind # "none" /\ ~ lock[c] /\ evictions > 0
  /\ evictions' = evictions - 1
  /\ cache' = [cache EXCEPT ![c] = NoEntry]
  /\ lock' = [lock EXCEPT ![c] = cache[c].kind = "file"]
  /\ UNCHANGED <<file, tasks, cut, left, readVars, faults>>

on_evict_Keep(c) ==
  /\ lock[c]
  /\ lock' = [lock EXCEPT ![c] = FALSE]
  /\ UNCHANGED <<cache, file, tasks, cut, left, readVars, evictions, faults>>

(* on_evict: the file of an entry that pointed to one is removed.  A task    *)
(* that was writing it goes on with a file that has no name.                 *)
on_evict(c) ==
  /\ lock[c]
  /\ lock' = [lock EXCEPT ![c] = FALSE]
  /\ file' = [file EXCEPT ![c] = NoFile]
  /\ tasks' = [t \in DOMAIN tasks |->
                 IF tasks[t].chunk = c /\ tasks[t].pc = "write"
                 THEN [tasks[t] EXCEPT !.pc = "unlinked"] ELSE tasks[t]]
  /\ cut' = cut \ {c} /\ left' = left \ {c}
  /\ UNCHANGED <<cache, readVars, evictions, faults>>

(* The file cannot be removed, which is logged.                              *)
RemoveFails(c) ==
  /\ lock[c] /\ file[c] # NoFile /\ faults > 0
  /\ faults' = faults - 1
  /\ lock' = [lock EXCEPT ![c] = FALSE]
  /\ left' = left \cup {c}
  /\ UNCHANGED <<cache, file, tasks, cut, readVars, evictions>>

(* ------------------------------ Specification ---------------------------- *)

Init ==
  /\ cache = [c \in Chunks |-> NoEntry]
  /\ lock = [c \in Chunks |-> FALSE]
  /\ file = [c \in Chunks |-> NoFile]
  /\ tasks = <<>>
  /\ cut = {} /\ left = {}
  /\ reader = [r \in Readers |-> Done]
  /\ reads = MaxReads /\ evictions = MaxEvictions /\ faults = MaxFaults

Read(r) ==
  \/ \E range \in Ranges : GetRange(r, range)
  \/ Lookup(r) \/ ReadFile(r) \/ Download(r) \/ InsertDownloaded(r) \/ Found(r)
  \/ FetchBatch(r) \/ CacheBatch(r) \/ AppendChunk(r) \/ Return(r) \/ FetchFails(r)

Task(t) ==
  \/ CheckExists(t) \/ CreateFile(t) \/ WriteFile(t) \/ WriteFails(t)
  \/ UpsertFile(t) \/ Invalidate(t)

Next ==
  \/ \E r \in Readers : Read(r)
  \/ \E t \in DOMAIN tasks : Task(t)
  \/ \E c \in Chunks : Evict(c) \/ on_evict(c) \/ RemoveFails(c)

(* Spawned tasks and listeners run to their end, calls return.               *)
Fairness ==
  /\ \A r \in Readers : WF_vars(reader[r].pc # "idle" /\ Read(r))
  /\ WF_vars(\E t \in DOMAIN tasks : Task(t))
  /\ \A c \in Chunks : WF_vars(on_evict(c))

Spec == Init /\ [][Next]_vars /\ Fairness

(* ------------------------------- Properties ------------------------------ *)

(* What get_range returns is the range of the object that was asked for,     *)
(* whichever of its chunks came from memory, from a file, from a batch or    *)
(* from a second download, and whatever was evicted in the meantime: the     *)
(* only reads that can go wrong are those that read a file while a task      *)
(* writes it, or after a write of it failed half way (cache.rs:53-60).       *)
ReadsAreExact ==
  \A r \in Readers : (In(r, "return") /\ ~ reader[r].torn) =>
    reader[r].result = Upstream(reader[r].range[1], reader[r].range[2])

(* No file outlives its chunk's entry: once all tasks and listeners have run *)
(* the disk holds files of cached chunks only, so the capacity of the cache  *)
(* bounds what is on disk, but for what a failed write (cache.rs:571) or a   *)
(* failed removal (cache.rs:339) left and no later entry took over.          *)
NoOrphanFiles ==
  (tasks = <<>> /\ \A c \in Chunks : ~ lock[c])
    => \A c \in Chunks : file[c] # NoFile => cache[c].kind = "file" \/ c \in left

(* Every read comes to an end: no cycle of lookups, downloads and locks.     *)
ReadsEnd == \A r \in Readers : reader[r].pc # "idle" ~> reader[r].pc = "idle"

(* A chunk does not stay in memory: the task replaces it by a file pointer,  *)
(* or removes it when it cannot be written.                                  *)
MemoryIsTransient ==
  \A c \in Chunks : cache[c].kind = "memory" ~> cache[c].kind # "memory"

==============================================================================
