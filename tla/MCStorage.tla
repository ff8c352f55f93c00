----------------------------- MODULE MCStorage ------------------------------
(* The storage layers on small instances: a behaviour is one of ChunkCache   *)
(* (overlapping ranges, or failing writes), of HttpStore (one reader of      *)
(* several locations, or two of one file), of Stores, of PartitionFiles or   *)
(* of MemoryPool, as part says.  The parts share no state, so looking at     *)
(* them one at a time loses nothing; the others stay in one of their initial *)
(* states.                                                                   *)
EXTENDS ChunkCache, HttpStore, PartitionFiles, Stores, MemoryPool

CONSTANTS r1, r2, s1, s2

VARIABLE part

allVars == <<part, vars, httpVars, storesVars, filesVars, poolVars>>

(* An object of five bytes in chunks of two is read by one reader as a whole *)
(* and by another in its middle, while nothing fails, or in small ranges, of *)
(* its first two chunks, while a request, a write or a removal fails.        *)
SmallRanges == {<<0, 1>>, <<1, 3>>}
OverlappingRanges == {<<0, 5>>, <<3, 4>>} \cup SmallRanges

(* A path with and without a query (a signature), from servers that answer   *)
(* in every way but with another range than they were asked for, and with    *)
(* escapes in it.  One reader uses these in every way, or two scan the one   *)
(* without a query and share its chunks.                                     *)
Plain == [scheme |-> "http", path |-> "f", query |-> "", escapes |-> 0]
Signed == [Plain EXCEPT !.query = "signature"]
Escaped == [Signed EXCEPT !.escapes = 1]
HttpLocations == {Plain, Signed, Escaped}
Answers == {k \in [head : {"ok", "forbidden", "no_length", "no_ranges"},
                   ranges : {"yes", "ignored"}, total : {"size", "star", "absent"}] :
              k.total = "absent" => k.head = "forbidden"}
Signing == [head : {"ok", "forbidden"}, ranges : {"yes"}, total : {"size"}]
Usual == [head |-> "ok", ranges |-> "yes", total |-> "size"]

(* Locations with and without options of their own, and the internal store   *)
(* in S3 or GCS.                                                             *)
Loc(scheme, bucket, opts) == [url |-> [scheme |-> scheme, bucket |-> bucket], opts |-> opts]
StoreLocations ==
  {Loc("s3", "a", o) : o \in {<<>>, [key |-> "k1", secret |-> "s1"],
                              [key |-> "k2", secret |-> "s2", token |-> "t2"],
                              [skip_signature |-> "false"], [unknown |-> "x"]}}
    \cup {Loc("gs", "a", o) : o \in {<<>>, [credentials |-> "g1"], [bucket |-> "a"]}}
    \cup {Loc("file", "/d", <<>>), Loc("memory", "", <<>>), Loc("ftp", "a", <<>>)}
Internal == {[scheme |-> "s3", bucket |-> "internal", region |-> "r0", key |-> "ki", secret |-> "si",
              token |-> "none", endpoint |-> "none", allow_http |-> TRUE, skip_signature |-> TRUE],
             [scheme |-> "gs", bucket |-> "internal", prefix |-> "none", credentials |-> "gi"]}
NoEnvironment == <<>>

(* Batches of 0 to 5 rows, files of 3 rows, parts of 2, one row per read. *)
Shapes == {<<>>, <<0>>, <<3>>, <<2, 1>>, <<5>>, <<1, 4>>, <<3, 0, 3>>, <<4, 4>>}
SumSeq(s) == FoldSeq(LAMBDA m, n : m + n, 0, s)
Numbered(shape) == [i \in DOMAIN shape |->
                      [j \in 1 .. shape[i] |-> j + SumSeq(SubSeq(shape, 1, i - 1))]]
NumberedPlans == {Numbered(s) : s \in Shapes}

ASSUME StorageAssumption ==
  /\ ParametersOK /\ HttpParametersOK /\ FilesParametersOK /\ PoolParametersOK
  /\ StoresParametersOK /\ KeysAreSecret

MCInit ==
  /\ part \in {"chunked", "written", "http", "shared", "stores", "partitions", "pool"}
  /\ Init /\ HttpInit /\ FilesInit /\ StoresInit /\ PoolInit
  /\ part \notin {"http", "shared"} => server = Usual /\ content[Plain].size = 0
  /\ part = "shared" => server \in Signing
  /\ part # "partitions" => plan = <<>> /\ local

(* A step of ChunkCache without a failure, or of the small ranges.           *)
ChunkedPart ==
  /\ Next /\ faults' = faults
  /\ \A r \in Readers : reader'[r].range \in {<<0, 0>>, IF r = r1 THEN <<0, 5>> ELSE <<3, 4>>}
WrittenPart ==
  /\ Next
  /\ \A r \in Readers : reader'[r].range = (IF r = r1 THEN <<0, 1>> ELSE <<1, 3>>) \/ reader'[r] = Done

(* A step of HttpStore of one reader, who does not use both the plain and    *)
(* the escaped location, or of two that only scan the plain one.             *)
HttpPart ==
  \/ /\ Begin(1) \/ Operation(1) \/ SendFails(1)
     /\ request'[1].loc = Escaped => server = Usual /\ \A k \in DOMAIN cached : k.query # ""
     /\ request'[1].loc = Signed => server \in Signing
     /\ request'[1].loc = Plain => \A k \in DOMAIN cached : k.escapes = 0
  \/ \E u \in {Plain, Signed} : Replace(u)
  \/ \E k \in DOMAIN cached : EvictChunk(k)
SharedPart ==
  /\ HttpNext /\ \A u \in Urls : content'[u] = content[u] \/ FileAt(u) = FileAt(Plain)
  /\ \A r \in Reader : request'[r] = Idle \/ (request'[r].loc = Plain /\ request'[r].op = "scan")

MCNext ==
  /\ UNCHANGED part
  /\ \/ /\ (part = "chunked" /\ ChunkedPart) \/ (part = "written" /\ WrittenPart)
        /\ UNCHANGED <<httpVars, storesVars, filesVars, poolVars>>
     \/ /\ (part = "http" /\ HttpPart) \/ (part = "shared" /\ SharedPart)
        /\ UNCHANGED <<vars, storesVars, filesVars, poolVars>>
     \/ part = "stores" /\ StoresNext /\ UNCHANGED <<vars, httpVars, filesVars, poolVars>>
     \/ part = "partitions" /\ FilesNext /\ UNCHANGED <<vars, httpVars, storesVars, poolVars>>
     \/ part = "pool" /\ PoolNext /\ UNCHANGED <<vars, httpVars, storesVars, filesVars>>

(* The fairness of the modules: tasks that were spawned and futures that are *)
(* polled go on.                                                             *)
MCFairness ==
  /\ \A r \in Readers : WF_vars(part = "written" /\ reader[r].pc # "idle" /\ Read(r))
  /\ WF_vars(part = "written" /\ \E t \in DOMAIN tasks : Task(t))
  /\ \A c \in 0 .. 1 : WF_vars(part = "written" /\ on_evict(c))
  /\ WF_filesVars(part = "partitions" /\ Write)
  /\ WF_filesVars(part = "partitions" /\ \E i \in DOMAIN files : Upload(i))

MCSpec == MCInit /\ [][MCNext]_allVars /\ MCFairness

(* The cache comes to rest, whatever writes and removals fail: every read of *)
(* cached ranges ends, in no cycle of lookups, downloads and locks; and no   *)
(* chunk stays in memory, since the task replaces it by a file pointer or    *)
(* removes it when it cannot be written.                                     *)
CacheSettles ==
  /\ \A r \in Readers : (part = "written" /\ reader[r].pc # "idle") ~> reader[r].pc = "idle"
  /\ \A c \in 0 .. 1 : (part = "written" /\ cache[c].kind = "memory") ~> cache[c].kind # "memory"

(* plan_to_object_store ends, whatever uploads fail: a failed task gives its *)
(* permit back.                                                              *)
CallEnds == <>(part = "partitions" => pc \in {"ok", "error"})
=============================================================================
