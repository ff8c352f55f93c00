-------------------------- MODULE ChunkCacheProofs --------------------------
(* Theorems about the caching object store, for objects and chunks of any    *)
(* size, any set of ranges and any number of readers, evictions and failed   *)
(* requests, writes and removals: reads that met no incomplete file are      *)
(* exact, and files do not outlive their entries but where a failure left    *)
(* them.                                                                     *)
EXTENDS ChunkCache, SequenceTheorems, TLAPS

(* Where chunk c begins. *)
Start(c) == c * min_fetch_size

(* ---------------------------- Chunks and bytes --------------------------- *)

\* Chunks follow one another without gaps.
LEMMA StartStep ==
    ASSUME ParametersOK, NEW c \in Nat
    PROVE  /\ Start(c) \in Nat /\ Start(c + 1) \in Nat
           /\ Start(c + 1) = Start(c) + min_fetch_size
  BY DEF Start, ParametersOK

\* A later chunk begins no earlier than an earlier one ends.
LEMMA StartOrder ==
    ASSUME ParametersOK, NEW c \in Nat, NEW d \in Nat, c < d
    PROVE  Start(c + 1) <= Start(d)
  <1>1. PICK k \in Nat : d = c + 1 + k
    <2>1. d - (c + 1) \in Nat /\ d = c + 1 + (d - (c + 1))
      OBVIOUS
    <2>2. QED
      BY <2>1
  <1>2. Start(d) = Start(c + 1) + k * min_fetch_size
    BY <1>1 DEF Start, ParametersOK
  <1>3. k * min_fetch_size \in Nat
    BY DEF ParametersOK
  <1>4. QED
    BY <1>2, <1>3, StartStep

\* A position lies in the chunk that ChunkOf says.
LEMMA ChunkBounds ==
    ASSUME ParametersOK, NEW p \in Nat
    PROVE  /\ ChunkOf(p) \in Nat
           /\ Start(ChunkOf(p)) <= p
           /\ p < Start(ChunkOf(p) + 1)
  BY DEF ChunkOf, Start, ParametersOK

\* What is in a range of the object.
LEMMA UpstreamIs ==
    ASSUME ParametersOK, NEW a \in Nat, NEW b \in Nat, a <= b, a <= Length
    PROVE  /\ Upstream(a, b) \in Seq(Nat)
           /\ Len(Upstream(a, b)) = (IF b < Length THEN b ELSE Length) - a
           /\ \A i \in 1 .. Len(Upstream(a, b)) : Upstream(a, b)[i] = a + i - 1
  <1> DEFINE n == (IF b < Length THEN b ELSE Length) - a
  <1>1. n \in Nat /\ Upstream(a, b) = [i \in 1 .. n |-> a + i - 1]
    BY DEF Upstream, ParametersOK
  <1>2. \A i \in 1 .. n : a + i - 1 \in Nat
    OBVIOUS
  <1> HIDE DEF n
  <1>3. QED
    BY <1>1, <1>2 DEF n

\* Adjacent ranges, put together.
LEMMA UpstreamJoin ==
    ASSUME ParametersOK, NEW a \in Nat, NEW b \in Nat, NEW c \in Nat,
           a <= b, b <= c, b <= Length
    PROVE  Upstream(a, b) \o Upstream(b, c) = Upstream(a, c)
  <1>1. PICK x, y, z : x = Upstream(a, b) /\ y = Upstream(b, c) /\ z = Upstream(a, c)
    OBVIOUS
  <1>2. Length \in Nat /\ a <= Length /\ a <= c
    BY DEF ParametersOK
  <1>3. /\ x \in Seq(Nat) /\ Len(x) = b - a /\ \A i \in 1 .. Len(x) : x[i] = a + i - 1
    <2>1. /\ x \in Seq(Nat) /\ Len(x) = (IF b < Length THEN b ELSE Length) - a
          /\ \A i \in 1 .. Len(x) : x[i] = a + i - 1
      BY <1>1, <1>2, UpstreamIs
    <2>2. QED
      BY <1>2, <2>1
  <1>4. /\ y \in Seq(Nat) /\ Len(y) = (IF c < Length THEN c ELSE Length) - b
        /\ \A i \in 1 .. Len(y) : y[i] = b + i - 1
    BY <1>1, <1>2, UpstreamIs
  <1>5. /\ z \in Seq(Nat) /\ Len(z) = (IF c < Length THEN c ELSE Length) - a
        /\ \A i \in 1 .. Len(z) : z[i] = a + i - 1
    BY <1>1, <1>2, UpstreamIs
  <1>6. /\ x \o y \in Seq(Nat) /\ Len(x \o y) = Len(x) + Len(y)
        /\ \A i \in 1 .. Len(x) + Len(y) : (x \o y)[i] = IF i <= Len(x) THEN x[i] ELSE y[i - Len(x)]
    BY <1>3, <1>4, ConcatProperties
  <1>7. Len(x \o y) = Len(z)
    BY <1>2, <1>3, <1>4, <1>5, <1>6
  <1>8. ASSUME NEW i \in 1 .. Len(x \o y)
        PROVE  (x \o y)[i] = z[i]
    <2>1. CASE i <= Len(x)
      BY <1>2, <1>3, <1>5, <1>6, <1>7, <2>1
    <2>2. CASE ~ (i <= Len(x))
      <3>1. i \in Nat /\ i - Len(x) \in 1 .. Len(y) /\ (x \o y)[i] = y[i - Len(x)]
        BY <1>2, <1>3, <1>4, <1>6, <2>2
      <3>2. y[i - Len(x)] = b + (i - Len(x)) - 1
        BY <1>4, <3>1
      <3>3. z[i] = a + i - 1
        BY <1>5, <1>7
      <3>4. QED
        BY <1>3, <3>1, <3>2, <3>3
    <2>3. QED
      BY <2>1, <2>2
  <1>9. x \o y = z
    BY <1>5, <1>6, <1>7, <1>8, SeqEqual
  <1>10. QED
    BY <1>1, <1>9

(* Elements f to j of the range from a to b are the range from c to d.       *)
IsPart(a, b, c, d, f, j) == SubSeq(Upstream(a, b), f, j) = Upstream(c, d)

\* A part of a range.
LEMMA UpstreamPart ==
    ASSUME ParametersOK, NEW a \in Nat, NEW b \in Nat, a <= b, a <= Length,
           NEW c \in Nat, NEW d \in Nat, a <= c, c <= d,
           NEW f, f = c - a + 1, NEW j, j = d - a, j <= Len(Upstream(a, b))
    PROVE  IsPart(a, b, c, d, f, j)
  <1> SUFFICES ASSUME NEW x, x = Upstream(a, b), NEW z, z = Upstream(c, d), j <= Len(x),
                      NEW y, y = SubSeq(x, f, j)
               PROVE  y = z
    BY DEF IsPart
  <1>1. /\ x \in Seq(Nat) /\ Len(x) = (IF b < Length THEN b ELSE Length) - a
        /\ \A k \in 1 .. Len(x) : x[k] = a + k - 1
    BY UpstreamIs
  <1>2. /\ j \in Nat /\ f \in Nat /\ 1 <= f /\ j <= Len(x) /\ Len(x) \in Nat
        /\ d <= Length /\ c <= Length
    BY <1>1 DEF ParametersOK
  <1>3. /\ z \in Seq(Nat) /\ Len(z) = d - c /\ \A k \in 1 .. Len(z) : z[k] = c + k - 1
    <2>1. c <= Length /\ c <= d
      BY <1>2
    <2>2. /\ z \in Seq(Nat) /\ Len(z) = (IF d < Length THEN d ELSE Length) - c
          /\ \A k \in 1 .. Len(z) : z[k] = c + k - 1
      BY <2>1, UpstreamIs
    <2>3. QED
      BY <1>2, <2>2 DEF ParametersOK
  <1>4. ASSUME NEW k \in f .. j
        PROVE  x[k] \in Nat
    <2>1. k \in 1 .. Len(x)
      BY <1>2
    <2>2. QED
      BY <1>1, <2>1, ElementOfSeq
  <1>5. /\ y \in Seq(Nat) /\ Len(y) = IF f <= j THEN j - f + 1 ELSE 0
        /\ \A k \in 1 .. j - f + 1 : y[k] = x[f + k - 1]
    BY <1>2, <1>4, SubSeqProperties
  <1>6. Len(y) = d - c /\ j - f + 1 = d - c
    BY <1>2, <1>5
  <1>7. ASSUME NEW k \in 1 .. Len(y)
        PROVE  y[k] = z[k]
    <2>1. k \in 1 .. Len(z) /\ f + k - 1 \in 1 .. Len(x) /\ k \in 1 .. j - f + 1
      BY <1>2, <1>3, <1>6
    <2>2. y[k] = x[f + k - 1] /\ x[f + k - 1] = a + (f + k - 1) - 1 /\ z[k] = c + k - 1
      BY <1>1, <1>3, <1>5, <2>1
    <2>3. k \in Nat /\ a + (f + k - 1) - 1 = c + k - 1
      BY <2>1
    <2>4. QED
      BY <2>2, <2>3
  <1>8. QED
    BY <1>3, <1>5, <1>6, <1>7, SeqEqual

\* A chunk begins within the object and has bytes.
LEMMA ChunkIs ==
    ASSUME ParametersOK, NEW c \in Chunks
    PROVE  /\ c \in Nat /\ Start(c) \in Nat /\ Start(c) < Length
           /\ Start(c + 1) \in Nat /\ Start(c + 1) = Start(c) + min_fetch_size
           /\ ChunkData(c) = Upstream(Start(c), Start(c + 1))
           /\ ChunkData(c) \in Seq(Nat) /\ Len(ChunkData(c)) > 0
  <1>1. PICK d \in Nat : d = ChunkOf(Length - 1)
    BY ChunkBounds DEF ParametersOK
  <1>2. Start(d) <= Length - 1 /\ c \in 0 .. d
    BY <1>1, ChunkBounds DEF Chunks, ChunkOf, ParametersOK
  <1>3. Start(c) \in Nat /\ Start(c + 1) \in Nat /\ Start(c + 1) = Start(c) + min_fetch_size
    BY <1>2, StartStep
  <1>4. Start(c) < Length
    <2>1. CASE c = d
      BY <1>2, <2>1, StartStep DEF ParametersOK
    <2>2. CASE c < d
      BY <1>2, <1>3, <2>2, StartOrder, StartStep DEF ParametersOK
    <2>3. QED
      BY <1>2, <2>1, <2>2
  <1>5. ChunkData(c) = Upstream(Start(c), Start(c + 1))
    BY DEF ChunkData, Start
  <1>6. ChunkData(c) \in Seq(Nat) /\ Len(ChunkData(c)) > 0
    <2>1. Start(c) <= Start(c + 1) /\ Start(c) <= Length /\ Start(c) < Start(c + 1)
      BY <1>3, <1>4 DEF ParametersOK
    <2>2. /\ Upstream(Start(c), Start(c + 1)) \in Seq(Nat)
          /\ Len(Upstream(Start(c), Start(c + 1)))
               = (IF Start(c + 1) < Length THEN Start(c + 1) ELSE Length) - Start(c)
      BY <1>3, <2>1, UpstreamIs
    <2>3. QED
      BY <1>3, <1>4, <1>5, <2>1, <2>2 DEF ParametersOK
  <1>7. QED
    BY <1>2, <1>3, <1>4, <1>5, <1>6

\* The chunks of a range are chunks of the object and cover the range.
LEMMA RangeIs ==
    ASSUME ParametersOK, NEW g \in Ranges
    PROVE  /\ g[1] \in Nat /\ g[2] \in Nat /\ g[1] < g[2] /\ g[2] <= Length
           /\ ChunkOf(g[1]) \in Nat /\ EndChunk(g) \in Chunks
           /\ ChunkOf(g[1]) <= EndChunk(g)
           /\ Start(ChunkOf(g[1])) <= g[1] /\ g[2] <= Start(EndChunk(g) + 1)
           /\ \A c \in ChunkOf(g[1]) .. EndChunk(g) : c \in Chunks
  <1>1. g[1] \in Nat /\ g[2] \in Nat /\ g[1] < g[2] /\ g[2] <= Length /\ Length \in Nat
    BY DEF ParametersOK
  <1>2. PICK a \in Nat, b \in Nat, l \in Nat : a = ChunkOf(g[1]) /\ b = ChunkOf(g[2] - 1) /\ l = ChunkOf(Length - 1)
    <2>1. g[2] - 1 \in Nat /\ Length - 1 \in Nat
      BY <1>1
    <2>2. QED
      BY <1>1, <2>1, ChunkBounds
  <1>3. /\ Start(a) <= g[1] /\ g[1] < Start(a + 1)
        /\ Start(b) <= g[2] - 1 /\ g[2] - 1 < Start(b + 1)
        /\ Start(l) <= Length - 1 /\ Length - 1 < Start(l + 1)
    BY <1>1, <1>2, ChunkBounds
  <1>4. /\ Start(a) \in Nat /\ Start(b) \in Nat /\ Start(l) \in Nat
        /\ Start(a + 1) \in Nat /\ Start(b + 1) \in Nat /\ Start(l + 1) \in Nat
    BY StartStep
  <1>5. a <= b
    BY <1>1, <1>3, <1>4, StartOrder
  <1>6. b <= l
    BY <1>1, <1>3, <1>4, StartOrder
  <1>7. b = EndChunk(g) /\ Chunks = 0 .. l
    BY <1>2 DEF EndChunk, Chunks, ChunkOf
  <1>8. g[2] <= Start(b + 1) /\ b \in 0 .. l /\ \A c \in a .. b : c \in 0 .. l
    BY <1>1, <1>3, <1>4, <1>5, <1>6
  <1>9. QED
    BY <1>1, <1>2, <1>3, <1>5, <1>7, <1>8

(* ------------------------------- Invariant ------------------------------- *)

(* What is in memory or about to be written is the chunk itself.             *)
Entries == [kind : {"none", "memory", "file"}, data : Seq(Nat)]
TaskSteps == {"check", "create", "write", "unlinked", "upsert", "invalidate"}
Writing == {x \in [pc : TaskSteps, chunk : Chunks, data : Seq(Nat)] :
              x.data = ChunkData(x.chunk)}

CacheOK ==
  /\ cache \in [Chunks -> Entries]
  /\ \A c \in Chunks : cache[c].kind = "memory" => cache[c].data = ChunkData(c)
  /\ lock \in [Chunks -> BOOLEAN]
  /\ file \in [Chunks -> {NoFile} \cup Seq(Nat)]
  /\ tasks \in Seq(Writing)

(* So is a file, unless it is being written or its write failed.             *)
FileOK(c) == file[c] \in {NoFile, ChunkData(c)} \/ Incomplete(c)
FilesOK == \A c \in Chunks : FileOK(c)

Readings == [pc : {"idle", "lookup", "read_file", "download", "insert", "found", "fetch",
                   "cache_batch", "append", "return"},
             range : Ranges \cup {<<0, 0>>}, chunk : Nat, batch : Seq(Nat), rest : Seq(Nat),
             data : Seq(Nat), result : Seq(Nat), torn : BOOLEAN]

First(q) == ChunkOf(q.range[1])

(* The batch is the chunks before chunk e. *)
BatchIs(q, e) ==
  /\ Len(q.batch) <= e - First(q)
  /\ \A i \in 1 .. Len(q.batch) : q.batch[i] = e - Len(q.batch) + i - 1

(* The result has everything before chunk e, if no file was incomplete.      *)
ResultIs(q, e) == q.torn \/ q.result = Upstream(Start(First(q)), Start(e))

(* A batch ends before the chunk that was found, or with the last chunk.     *)
EndsAt(q, e) ==
  \/ e = q.chunk /\ (q.torn \/ q.data = ChunkData(q.chunk))
  \/ e = q.chunk + 1 /\ q.data = <<>> /\ q.chunk = EndChunk(q.range)

(* What a read has at each of its steps. *)
ReaderOK(q) ==
  /\ q \in Readings
  /\ q.pc # "idle" => q.range \in Ranges /\ q.chunk \in First(q) .. EndChunk(q.range)
  /\ q.pc \in {"lookup", "read_file", "download"} => q.data = <<>>
  /\ q.pc = "insert" => q.data = ChunkData(q.chunk)
  /\ q.pc = "found" => q.torn \/ q.data = ChunkData(q.chunk)
  /\ q.pc \in {"lookup", "read_file", "download", "insert", "found"} =>
       BatchIs(q, q.chunk) /\ ResultIs(q, q.chunk - Len(q.batch))
  /\ q.pc = "fetch" =>
       /\ Len(q.batch) > 0
       /\ \E e \in Nat : EndsAt(q, e) /\ BatchIs(q, e) /\ ResultIs(q, e - Len(q.batch))
  /\ q.pc = "cache_batch" =>
       /\ Len(q.batch) > 0
       /\ \E e \in Nat : /\ EndsAt(q, e) /\ BatchIs(q, e) /\ ResultIs(q, e)
                         /\ q.rest = Upstream(Start(e - Len(q.batch)), Start(e))
  /\ q.pc = "append" =>
       q.batch = <<>> /\ \E e \in Nat : EndsAt(q, e) /\ ResultIs(q, e)
  /\ q.pc = "return" => q.torn \/ q.result = Upstream(q.range[1], q.range[2])

ReadersOK == DOMAIN reader = Readers /\ \A r \in Readers : ReaderOK(reader[r])

(* A file belongs to an entry, is about to be removed, has a task that will  *)
(* make an entry for it, or was left by a failure.                           *)
Tended(c) == \E t \in DOMAIN tasks : tasks[t].chunk = c /\ tasks[t].pc \in {"write", "upsert"}
Tracked(c) == file[c] # NoFile =>
                cache[c].kind = "file" \/ lock[c] \/ c \in left \/ Tended(c)
FilesTracked == \A c \in Chunks : Tracked(c)

DiskOK == CacheOK /\ FilesOK /\ FilesTracked
Inv == DiskOK /\ ReadersOK

(* ---------------------------------- Reads -------------------------------- *)

\* Where a read is, it is at a chunk of the object.
LEMMA ReadingIs ==
    ASSUME ParametersOK, NEW q, ReaderOK(q), q.pc # "idle"
    PROVE  /\ q \in Readings /\ q.range \in Ranges
           /\ First(q) \in Nat /\ q.chunk \in Nat /\ EndChunk(q.range) \in Nat
           /\ First(q) <= q.chunk /\ q.chunk <= EndChunk(q.range)
           /\ q.chunk \in Chunks
           /\ \A c \in First(q) .. EndChunk(q.range) : c \in Chunks
  <1>1. q \in Readings /\ q.range \in Ranges /\ q.chunk \in First(q) .. EndChunk(q.range)
    BY DEF ReaderOK
  <1>2. /\ First(q) \in Nat /\ EndChunk(q.range) \in Chunks
        /\ \A c \in First(q) .. EndChunk(q.range) : c \in Chunks
    BY <1>1, RangeIs DEF First
  <1>3. EndChunk(q.range) \in Nat
    BY <1>2, ChunkIs
  <1>4. QED
    BY <1>1, <1>2, <1>3

\* A read begins with an empty batch and an empty result.
LEMMA BeginOK ==
    ASSUME ParametersOK, NEW g \in Ranges,
           NEW x, x = [Done EXCEPT !.pc = "lookup", !.range = g, !.chunk = ChunkOf(g[1])]
    PROVE  ReaderOK(x)
  <1>1. /\ x.pc = "lookup" /\ x.range = g /\ x.chunk = ChunkOf(g[1]) /\ x.batch = <<>>
        /\ x.rest = <<>> /\ x.data = <<>> /\ x.result = <<>> /\ x.torn = FALSE
    BY DEF Done
  <1>2. ChunkOf(g[1]) \in Nat /\ ChunkOf(g[1]) <= EndChunk(g) /\ EndChunk(g) \in Chunks
    BY RangeIs
  <1>3. EndChunk(g) \in Nat /\ ChunkOf(g[1]) \in Chunks
    BY <1>2, ChunkIs, RangeIs
  <1>4. x \in Readings
    <2>1. <<>> \in Seq(Nat)
      BY EmptySeq
    <2>2. QED
      BY <1>2, <2>1 DEF Done, Readings
  <1>5. Len(x.batch) = 0
    BY <1>1
  <1>6. BatchIs(x, x.chunk)
    BY <1>1, <1>2, <1>5 DEF BatchIs, First
  <1>7. ResultIs(x, x.chunk - Len(x.batch))
    <2>1. PICK s \in Nat : s = Start(x.chunk) /\ s <= Length
      BY <1>1, <1>2, <1>3, ChunkIs DEF ParametersOK
    <2>2. Upstream(s, s) = <<>>
      <3>1. Upstream(s, s) \in Seq(Nat) /\ Len(Upstream(s, s)) = (IF s < Length THEN s ELSE Length) - s
        BY <2>1, UpstreamIs
      <3>2. Len(Upstream(s, s)) = 0
        BY <2>1, <3>1 DEF ParametersOK
      <3>3. QED
        BY <3>1, <3>2, EmptySeq
    <2>3. x.chunk - Len(x.batch) = x.chunk /\ First(x) = x.chunk
      BY <1>1, <1>2, <1>5 DEF First
    <2>4. QED
      BY <1>1, <2>1, <2>2, <2>3 DEF ResultIs
  <1>8. QED
    BY <1>1, <1>2, <1>3, <1>4, <1>6, <1>7 DEF ReaderOK, First

\* A chunk that is missing joins the batch.
LEMMA MissOK ==
    ASSUME ParametersOK, NEW q, ReaderOK(q), q.pc = "lookup", NEW c, NEW pc,
           \/ q.chunk = EndChunk(q.range) /\ c = q.chunk /\ pc = "fetch"
           \/ q.chunk # EndChunk(q.range) /\ c = q.chunk + 1 /\ pc = "lookup",
           NEW x, x = [q EXCEPT !.batch = Append(@, q.chunk), !.pc = pc, !.chunk = c]
    PROVE  ReaderOK(x)
  <1>1. /\ q \in Readings /\ q.range \in Ranges /\ First(q) \in Nat /\ q.chunk \in Nat
        /\ EndChunk(q.range) \in Nat /\ First(q) <= q.chunk /\ q.chunk <= EndChunk(q.range)
    BY ReadingIs
  <1>2. q.data = <<>> /\ BatchIs(q, q.chunk) /\ ResultIs(q, q.chunk - Len(q.batch))
    BY DEF ReaderOK
  <1>3. /\ q.batch \in Seq(Nat) /\ Len(q.batch) \in Nat
        /\ Append(q.batch, q.chunk) \in Seq(Nat)
        /\ Len(Append(q.batch, q.chunk)) = Len(q.batch) + 1
        /\ \A i \in 1 .. Len(q.batch) : Append(q.batch, q.chunk)[i] = q.batch[i]
        /\ Append(q.batch, q.chunk)[Len(q.batch) + 1] = q.chunk
    BY <1>1, AppendProperties, LenProperties DEF Readings
  <1>4. /\ x.batch = Append(q.batch, q.chunk) /\ x.range = q.range /\ x.rest = q.rest
        /\ x.data = <<>> /\ x.result = q.result /\ x.torn = q.torn
        /\ x.pc = pc /\ x.chunk = c
    BY <1>1, <1>2 DEF Readings
  <1>5. x \in Readings
    <2>1. c \in Nat /\ pc \in {"fetch", "lookup"}
      BY <1>1
    <2>2. PICK b : b = Append(q.batch, q.chunk) /\ b \in Seq(Nat)
      BY <1>3
    <2>3. x = [q EXCEPT !.batch = b, !.pc = pc, !.chunk = c]
      BY <2>2
    <2>4. QED
      BY <1>1, <2>1, <2>2, <2>3 DEF Readings
  <1>6. PICK e \in Nat : e = q.chunk + 1
    BY <1>1
  <1>7. First(x) = First(q)
    BY <1>4 DEF First
  <1>8. BatchIs(x, e)
    <2>1. Len(x.batch) <= e - First(x)
      BY <1>1, <1>2, <1>3, <1>4, <1>6, <1>7 DEF BatchIs
    <2>2. ASSUME NEW i \in 1 .. Len(x.batch)
          PROVE  x.batch[i] = e - Len(x.batch) + i - 1
      <3>1. CASE i \in 1 .. Len(q.batch)
        BY <1>1, <1>2, <1>3, <1>4, <1>6, <3>1 DEF BatchIs
      <3>2. CASE i = Len(q.batch) + 1
        <4>1. x.batch[i] = q.chunk /\ Len(x.batch) = i
          BY <1>3, <1>4, <3>2
        <4>2. i \in Nat /\ e \in Nat /\ e = q.chunk + 1 /\ q.chunk \in Nat
          BY <1>1, <1>3, <1>6, <3>2
        <4>3. e - i + i - 1 = q.chunk
          BY <4>2
        <4>4. QED
          BY <4>1, <4>3
      <3>3. QED
        BY <1>3, <1>4, <3>1, <3>2
    <2>3. QED
      BY <2>1, <2>2 DEF BatchIs
  <1>9. ResultIs(x, e - Len(x.batch))
    <2>1. e - Len(x.batch) = q.chunk - Len(q.batch)
      BY <1>1, <1>3, <1>4, <1>6
    <2>2. QED
      BY <1>2, <1>4, <1>7, <2>1 DEF ResultIs
  <1>10. CASE q.chunk = EndChunk(q.range)
    <2>1. x.pc = "fetch" /\ x.chunk = q.chunk /\ EndsAt(x, e) /\ Len(x.batch) > 0
      BY <1>1, <1>3, <1>4, <1>6, <1>10 DEF EndsAt
    <2>2. QED
      BY <1>1, <1>4, <1>5, <1>7, <1>8, <1>9, <2>1 DEF ReaderOK
  <1>11. CASE q.chunk # EndChunk(q.range)
    <2>1. x.pc = "lookup" /\ x.chunk = e /\ x.chunk \in First(x) .. EndChunk(x.range)
      BY <1>1, <1>4, <1>6, <1>7, <1>11
    <2>2. QED
      BY <1>1, <1>4, <1>5, <1>8, <1>9, <2>1 DEF ReaderOK
  <1>12. QED
    BY <1>10, <1>11

\* Steps that change where a read is and the data of its chunk only.
LEMMA FoundOK ==
    ASSUME ParametersOK, NEW q, ReaderOK(q), q.pc \in {"lookup", "read_file", "download"},
           NEW x, \/ x = [q EXCEPT !.pc = "read_file"] /\ q.pc = "lookup"
                  \/ x = [q EXCEPT !.pc = "download"] /\ q.pc = "read_file"
                  \/ x = [q EXCEPT !.pc = "insert", !.data = ChunkData(q.chunk)]
                  \/ x = [q EXCEPT !.pc = "found", !.data = ChunkData(q.chunk)]
    PROVE  ReaderOK(x)
  <1>1. q \in Readings /\ q.range \in Ranges /\ q.chunk \in Chunks
    BY ReadingIs
  <1>2. PICK d \in Seq(Nat) : d = ChunkData(q.chunk)
    BY <1>1, ChunkIs
  <1>3. PICK p \in {"read_file", "download", "insert", "found"}, y \in {q.data, d} :
          /\ x = [q EXCEPT !.pc = p, !.data = y]
          /\ p \in {"read_file", "download"} => y = q.data
          /\ p \in {"insert", "found"} => y = d
    <2>1. CASE x = [q EXCEPT !.pc = "read_file"]
      <3>1. x = [q EXCEPT !.pc = "read_file", !.data = q.data]
        BY <1>1, <2>1 DEF Readings
      <3>2. QED
        BY <3>1
    <2>2. CASE x = [q EXCEPT !.pc = "download"]
      <3>1. x = [q EXCEPT !.pc = "download", !.data = q.data]
        BY <1>1, <2>2 DEF Readings
      <3>2. QED
        BY <3>1
    <2>3. CASE x = [q EXCEPT !.pc = "insert", !.data = ChunkData(q.chunk)]
      BY <1>2, <2>3
    <2>4. CASE x = [q EXCEPT !.pc = "found", !.data = ChunkData(q.chunk)]
      BY <1>2, <2>4
    <2>5. QED
      BY <2>1, <2>2, <2>3, <2>4
  <1>4. /\ x.pc = p /\ x.data = y /\ x.range = q.range /\ x.chunk = q.chunk /\ x.batch = q.batch
        /\ x.rest = q.rest /\ x.result = q.result /\ x.torn = q.torn /\ x \in Readings
    BY <1>1, <1>2, <1>3 DEF Readings
  <1>5. q.data = <<>> /\ BatchIs(q, q.chunk) /\ ResultIs(q, q.chunk - Len(q.batch))
        /\ q.chunk \in First(q) .. EndChunk(q.range)
    BY DEF ReaderOK
  <1>6. /\ First(x) = First(q) /\ BatchIs(x, x.chunk) /\ ResultIs(x, x.chunk - Len(x.batch))
        /\ x.chunk \in First(x) .. EndChunk(x.range) /\ x.range \in Ranges
    BY <1>1, <1>4, <1>5 DEF First, BatchIs, ResultIs
  <1>7. QED
    BY <1>2, <1>3, <1>4, <1>5, <1>6 DEF ReaderOK

\* A file was read that was not complete.
LEMMA TornOK ==
    ASSUME ParametersOK, NEW q, ReaderOK(q), q.pc = "read_file", NEW y \in Seq(Nat),
           NEW x, x = [q EXCEPT !.pc = "found", !.data = y, !.torn = TRUE]
    PROVE  ReaderOK(x)
  <1>1. q \in Readings /\ q.range \in Ranges
    BY ReadingIs
  <1>2. /\ x.pc = "found" /\ x.torn = TRUE /\ x.range = q.range /\ x.chunk = q.chunk
        /\ x.batch = q.batch /\ x \in Readings
    BY <1>1 DEF Readings
  <1>3. BatchIs(q, q.chunk) /\ q.chunk \in First(q) .. EndChunk(q.range)
    BY DEF ReaderOK
  <1>4. /\ BatchIs(x, x.chunk) /\ ResultIs(x, x.chunk - Len(x.batch))
        /\ x.chunk \in First(x) .. EndChunk(x.range) /\ x.range \in Ranges
    BY <1>1, <1>2, <1>3 DEF First, BatchIs, ResultIs
  <1>5. QED
    BY <1>2, <1>4 DEF ReaderOK

\* A chunk was downloaded and cached.
LEMMA InsertedOK ==
    ASSUME ParametersOK, NEW q, ReaderOK(q), q.pc = "insert", NEW x, x = [q EXCEPT !.pc = "found"]
    PROVE  ReaderOK(x)
  <1>1. q \in Readings /\ q.range \in Ranges
    BY ReadingIs
  <1>2. /\ x.pc = "found" /\ x.data = q.data /\ x.range = q.range /\ x.chunk = q.chunk
        /\ x.batch = q.batch /\ x.result = q.result /\ x.torn = q.torn /\ x \in Readings
    BY <1>1 DEF Readings
  <1>3. QED
    BY <1>1, <1>2 DEF ReaderOK, BatchIs, ResultIs, First

\* A chunk was found: the batch before it is fetched first, if there is one.
LEMMA FoundStepOK ==
    ASSUME ParametersOK, NEW q, ReaderOK(q), q.pc = "found", NEW pc,
           \/ q.batch # <<>> /\ pc = "fetch"
           \/ q.batch = <<>> /\ pc = "append",
           NEW x, x = [q EXCEPT !.pc = pc]
    PROVE  ReaderOK(x)
  <1>1. q \in Readings /\ q.range \in Ranges /\ q.chunk \in Nat
    BY ReadingIs
  <1>2. /\ x.pc = pc /\ x.data = q.data /\ x.range = q.range /\ x.chunk = q.chunk
        /\ x.batch = q.batch /\ x.result = q.result /\ x.torn = q.torn
    BY <1>1 DEF Readings
  <1>3. x \in Readings
    BY <1>1 DEF Readings
  <1>4. /\ q.torn \/ q.data = ChunkData(q.chunk)
        /\ BatchIs(q, q.chunk) /\ ResultIs(q, q.chunk - Len(q.batch))
        /\ q.chunk \in First(q) .. EndChunk(q.range)
    BY DEF ReaderOK
  <1>5. /\ First(x) = First(q) /\ BatchIs(x, x.chunk) /\ ResultIs(x, x.chunk - Len(x.batch))
        /\ x.chunk \in First(x) .. EndChunk(x.range) /\ x.range \in Ranges /\ EndsAt(x, x.chunk)
    BY <1>1, <1>2, <1>4 DEF First, BatchIs, ResultIs, EndsAt
  <1>6. CASE q.batch # <<>> /\ pc = "fetch"
    <2>1. Len(x.batch) > 0
      BY <1>1, <1>2, <1>6, EmptySeq DEF Readings
    <2>2. QED
      BY <1>1, <1>2, <1>3, <1>5, <1>6, <2>1 DEF ReaderOK
  <1>7. CASE q.batch = <<>> /\ pc = "append"
    <2>1. ResultIs(x, x.chunk)
      BY <1>1, <1>2, <1>5, <1>7
    <2>2. QED
      BY <1>1, <1>2, <1>3, <1>5, <1>7, <2>1 DEF ReaderOK
  <1>8. QED
    BY <1>6, <1>7

\* Where a batch ends, and that its chunks are chunks of the object.
LEMMA BatchFacts ==
    ASSUME ParametersOK, NEW q, ReaderOK(q), q.pc # "idle", NEW e \in Nat, EndsAt(q, e)
    PROVE  /\ First(q) \in Nat /\ First(q) <= e /\ e <= EndChunk(q.range) + 1
           /\ EndChunk(q.range) \in Nat
           /\ Start(First(q)) \in Nat /\ Start(First(q)) <= Length /\ Start(e) \in Nat
           /\ Start(First(q)) <= Start(e)
           /\ \A c \in First(q) .. e : /\ Start(c) \in Nat /\ Start(First(q)) <= Start(c)
                                       /\ Start(c) <= Start(e)
                                       /\ c < e => c \in Chunks /\ Start(c) <= Length
  <1>1. /\ First(q) \in Nat /\ q.chunk \in Nat /\ EndChunk(q.range) \in Nat
        /\ First(q) <= q.chunk /\ q.chunk <= EndChunk(q.range)
        /\ \A c \in First(q) .. EndChunk(q.range) : c \in Chunks
    BY ReadingIs
  <1>2. First(q) <= e /\ e <= EndChunk(q.range) + 1
    BY <1>1 DEF EndsAt
  <1>3. ASSUME NEW c \in Nat, NEW d \in Nat, c <= d
        PROVE  Start(c) \in Nat /\ Start(d) \in Nat /\ Start(c) <= Start(d)
    <2>1. Start(c) \in Nat /\ Start(d) \in Nat /\ Start(c + 1) = Start(c) + min_fetch_size
      BY StartStep
    <2>2. CASE c = d
      BY <2>1, <2>2
    <2>3. CASE c < d
      BY <2>1, <2>3, StartOrder DEF ParametersOK
    <2>4. QED
      BY <1>3, <2>1, <2>2, <2>3
  <1>4. ASSUME NEW c \in First(q) .. e
        PROVE  /\ Start(c) \in Nat /\ Start(First(q)) <= Start(c) /\ Start(c) <= Start(e)
               /\ c < e => c \in Chunks /\ Start(c) <= Length
    <2>1. c \in Nat /\ First(q) <= c /\ c <= e
      BY <1>1, <1>4
    <2>2. c < e => c \in First(q) .. EndChunk(q.range)
      BY <1>1, <1>2, <2>1
    <2>3. c < e => c \in Chunks /\ Start(c) <= Length
      <3>1. SUFFICES ASSUME c < e PROVE c \in Chunks /\ Start(c) <= Length
        OBVIOUS
      <3>2. c \in Chunks
        BY <1>1, <2>2, <3>1
      <3>3. QED
        BY <3>2, ChunkIs DEF ParametersOK
    <2>4. QED
      BY <1>1, <1>3, <2>1, <2>3
  <1>5. Start(First(q)) <= Length
    <2>1. First(q) \in First(q) .. EndChunk(q.range)
      BY <1>1
    <2>2. QED
      BY <1>1, <2>1, ChunkIs DEF ParametersOK
  <1>6. QED
    BY <1>1, <1>2, <1>3, <1>4, <1>5

\* The batch is fetched as a whole and follows the result so far.
LEMMA FetchOK ==
    ASSUME ParametersOK, NEW q, ReaderOK(q), q.pc = "fetch", NEW data,
           data = Upstream(q.batch[1] * min_fetch_size, (Last(q.batch) + 1) * min_fetch_size),
           NEW x, x = [q EXCEPT !.pc = "cache_batch", !.rest = data, !.result = @ \o data]
    PROVE  ReaderOK(x)
  <1>1. q \in Readings /\ q.range \in Ranges /\ q.chunk \in First(q) .. EndChunk(q.range)
    BY DEF ReaderOK
  <1>2. Len(q.batch) > 0 /\ q.batch \in Seq(Nat) /\ Len(q.batch) \in Nat
    BY <1>1, LenProperties DEF ReaderOK, Readings
  <1>3. PICK e \in Nat : EndsAt(q, e) /\ BatchIs(q, e) /\ ResultIs(q, e - Len(q.batch))
    BY DEF ReaderOK
  <1>4. PICK n \in Nat : n = Len(q.batch) /\ n > 0
    BY <1>2
  <1>5. First(q) \in Nat /\ n <= e - First(q) /\ q.batch[1] = e - n /\ Last(q.batch) = e - 1
    <2>1. 1 \in 1 .. n /\ n \in 1 .. n
      BY <1>4
    <2>2. q.batch[1] = e - n + 1 - 1 /\ q.batch[n] = e - n + n - 1
      BY <1>3, <1>4, <2>1 DEF BatchIs
    <2>3. First(q) \in Nat /\ n <= e - First(q)
      BY <1>3, <1>4, BatchFacts DEF BatchIs
    <2>4. e - n + 1 - 1 = e - n /\ e - n + n - 1 = e - 1
      OBVIOUS
    <2>5. Last(q.batch) = q.batch[n]
      BY <1>4 DEF Last
    <2>6. QED
      BY <2>2, <2>3, <2>4, <2>5
  <1>6. PICK k \in Nat : k = e - n /\ k \in First(q) .. e /\ k < e
    BY <1>4, <1>5
  <1>7. /\ Start(k) \in Nat /\ Start(e) \in Nat /\ Start(First(q)) \in Nat
        /\ Start(First(q)) <= Start(k) /\ Start(k) <= Start(e) /\ Start(k) <= Length
    BY <1>3, <1>6, BatchFacts
  <1>8. data = Upstream(Start(k), Start(e)) /\ data \in Seq(Nat)
    <2>1. (e - 1) + 1 = e
      OBVIOUS
    <2>2. data = Upstream(Start(k), Start(e))
      BY <1>5, <1>6, <2>1 DEF Start
    <2>3. QED
      BY <1>7, <2>2, UpstreamIs
  <1>9. q.torn \/ q.result \o data = Upstream(Start(First(q)), Start(e))
    <2> SUFFICES ASSUME ~ q.torn
                 PROVE  q.result \o data = Upstream(Start(First(q)), Start(e))
      OBVIOUS
    <2>1. q.result = Upstream(Start(First(q)), Start(k))
      BY <1>3, <1>4, <1>6 DEF ResultIs
    <2>2. Upstream(Start(First(q)), Start(k)) \o Upstream(Start(k), Start(e))
            = Upstream(Start(First(q)), Start(e))
      BY <1>7, UpstreamJoin
    <2>3. QED
      BY <1>8, <2>1, <2>2
  <1>10. PICK y \in Seq(Nat) : y = q.result \o data
    BY <1>1, <1>8, ConcatProperties DEF Readings
  <1>11. x = [q EXCEPT !.pc = "cache_batch", !.rest = data, !.result = y]
    BY <1>10
  <1>12. /\ x.pc = "cache_batch" /\ x.rest = data /\ x.result = y /\ x.range = q.range
         /\ x.chunk = q.chunk /\ x.batch = q.batch /\ x.data = q.data /\ x.torn = q.torn
         /\ x \in Readings
    BY <1>1, <1>8, <1>10, <1>11 DEF Readings
  <1>13. /\ First(x) = First(q) /\ EndsAt(x, e) /\ BatchIs(x, e) /\ ResultIs(x, e)
         /\ x.rest = Upstream(Start(e - Len(x.batch)), Start(e))
    BY <1>3, <1>4, <1>6, <1>8, <1>9, <1>10, <1>12 DEF First, EndsAt, BatchIs, ResultIs
  <1>14. QED
    BY <1>1, <1>2, <1>12, <1>13 DEF ReaderOK

\* The first chunk of the rest of a batch, and what is left after it.
LEMMA SplitOK ==
    ASSUME ParametersOK, NEW k \in Chunks, NEW e \in Nat, k < e,
           NEW rest, rest = Upstream(Start(k), Start(e))
    PROVE  /\ rest \in Seq(Nat)
           /\ SubSeq(rest, 1, SplitLength(rest)) = ChunkData(k)
           /\ Len(rest) < min_fetch_size => k + 1 \notin Chunks
           /\ ~ (Len(rest) < min_fetch_size) =>
                SubSeq(rest, SplitLength(rest) + 1, Len(rest)) = Upstream(Start(k + 1), Start(e))
  <1>1. PICK a \in Nat, b \in Nat, l \in Nat, m \in Nat :
          /\ a = Start(k) /\ b = Start(e) /\ l = Length /\ m = min_fetch_size
          /\ m > 0 /\ a < l /\ Start(k + 1) = a + m /\ a + m <= b
    <2>1. Start(k) \in Nat /\ k \in Nat /\ Start(k) < Length /\ Start(k + 1) = Start(k) + min_fetch_size
      BY ChunkIs
    <2>2. Start(k + 1) <= Start(e) /\ Start(e) \in Nat
      BY <2>1, StartOrder, StartStep
    <2>3. QED
      BY <2>1, <2>2 DEF ParametersOK
  <1>2. /\ rest = Upstream(a, b) /\ rest \in Seq(Nat)
        /\ Len(rest) = (IF b < l THEN b ELSE l) - a
    <2>1. a <= b /\ a <= Length
      BY <1>1
    <2>2. /\ Upstream(a, b) \in Seq(Nat)
          /\ Len(Upstream(a, b)) = (IF b < Length THEN b ELSE Length) - a
      BY <2>1, UpstreamIs
    <2>3. QED
      BY <1>1, <2>2
  <1>3. ChunkData(k) = Upstream(a, a + m)
    BY <1>1, ChunkIs
  <1>4. CASE Len(rest) < m
    <2>1. Len(rest) = l - a /\ l < a + m
      BY <1>1, <1>2, <1>4
    <2>2. SplitLength(rest) = Len(rest)
      BY <1>1, <1>4 DEF SplitLength
    <2>3. Upstream(a, b) = Upstream(a, a + m)
      BY <1>1, <2>1 DEF Upstream
    <2>4. SubSeq(rest, 1, Len(rest)) = rest
      BY <1>2, SubSeqFull
    <2>5. k + 1 \notin Chunks
      <3>1. SUFFICES ASSUME k + 1 \in Chunks PROVE FALSE
        OBVIOUS
      <3>2. Start(k + 1) < Length
        BY <3>1, ChunkIs
      <3>3. QED
        BY <1>1, <2>1, <3>2
    <2>6. QED
      BY <1>1, <1>2, <1>3, <1>4, <2>2, <2>3, <2>4, <2>5
  <1>5. CASE ~ (Len(rest) < m)
    <2>1. PICK n \in Nat : n = Len(rest) /\ m <= n /\ a + n = (IF b < l THEN b ELSE l)
      BY <1>1, <1>2, <1>5
    <2>2. SplitLength(rest) = m
      BY <1>1, <1>5 DEF SplitLength
    <2>3. SubSeq(rest, 1, m) = Upstream(a, a + m)
      <3>1. a + m \in Nat /\ 1 = a - a + 1 /\ m = a + m - a /\ a <= a + m /\ a <= b /\ a <= l
        BY <1>1
      <3>2. m <= Len(rest)
        BY <1>2, <2>1
      <3>3. PICK d \in Nat : d = a + m /\ a <= d /\ m = d - a
        BY <3>1
      <3>4. a <= Length /\ a <= a /\ m <= Len(Upstream(a, b))
        BY <1>1, <1>2, <3>2
      <3>5. IsPart(a, b, a, d, 1, m)
        BY <3>1, <3>3, <3>4, UpstreamPart
      <3>6. QED
        BY <1>2, <3>3, <3>5 DEF IsPart
    <2>4. SubSeq(rest, m + 1, n) = Upstream(a + m, a + n)
      <3>1. /\ a + m \in Nat /\ a + n \in Nat /\ m + 1 = a + m - a + 1 /\ n = a + n - a
            /\ a <= a + m /\ a + m <= a + n /\ a <= b /\ a <= l
        <4>1. a \in Nat /\ m \in Nat /\ n \in Nat /\ m <= n
          BY <1>1, <2>1
        <4>2. a <= b /\ a <= l
          BY <1>1
        <4>3. QED
          BY <4>1, <4>2
      <3>2. n <= Len(rest)
        BY <1>2, <2>1
      <3>3. PICK c \in Nat, d \in Nat, f \in Nat :
              /\ c = a + m /\ d = a + n /\ f = m + 1
              /\ a <= c /\ c <= d /\ f = c - a + 1 /\ n = d - a
        BY <3>1
      <3>4. a <= Length /\ n <= Len(Upstream(a, b))
        BY <1>1, <1>2, <3>2
      <3>5. IsPart(a, b, c, d, f, n)
        BY <3>1, <3>3, <3>4, UpstreamPart
      <3>6. QED
        BY <1>2, <3>3, <3>5 DEF IsPart
    <2>5. Upstream(a + m, a + n) = Upstream(a + m, b)
      BY <1>1, <2>1 DEF Upstream
    <2>6. QED
      BY <1>1, <1>2, <1>3, <1>5, <2>1, <2>2, <2>3, <2>4, <2>5
  <1>6. QED
    BY <1>1, <1>4, <1>5

\* The first chunk of the batch is split off and cached.
LEMMA CacheBatchOK ==
    ASSUME ParametersOK, NEW q, ReaderOK(q), q.pc = "cache_batch",
           NEW rest, rest = IF Len(q.rest) < min_fetch_size THEN q.rest
                            ELSE SubSeq(q.rest, SplitLength(q.rest) + 1, Len(q.rest)),
           NEW pc, pc = IF Len(q.batch) > 1 THEN "cache_batch" ELSE "append",
           NEW x, x = [q EXCEPT !.batch = Tail(@), !.rest = rest, !.pc = pc]
    PROVE  /\ ReaderOK(x)
           /\ q.batch[1] \in Chunks
           /\ SubSeq(q.rest, 1, SplitLength(q.rest)) = ChunkData(q.batch[1])
  <1>1. q \in Readings /\ q.range \in Ranges /\ q.chunk \in First(q) .. EndChunk(q.range)
    BY DEF ReaderOK
  <1>2. PICK n \in Nat : n = Len(q.batch) /\ n > 0 /\ q.batch \in Seq(Nat)
    BY <1>1, LenProperties DEF ReaderOK, Readings
  <1>3. PICK e \in Nat : /\ EndsAt(q, e) /\ BatchIs(q, e) /\ ResultIs(q, e)
                         /\ q.rest = Upstream(Start(e - n), Start(e))
    BY <1>2 DEF ReaderOK
  <1>4. First(q) \in Nat /\ n <= e - First(q) /\ q.batch[1] = e - n
    <2>1. 1 \in 1 .. n
      BY <1>2
    <2>2. q.batch[1] = e - n + 1 - 1 /\ n <= e - First(q)
      BY <1>2, <1>3, <2>1 DEF BatchIs
    <2>3. First(q) \in Nat
      BY <1>3, BatchFacts
    <2>4. e - n + 1 - 1 = e - n
      OBVIOUS
    <2>5. QED
      BY <2>2, <2>3, <2>4
  <1>5. PICK k \in Nat : k = e - n /\ k \in First(q) .. e /\ k < e
    BY <1>2, <1>4
  <1>6. k \in Chunks
    BY <1>3, <1>5, BatchFacts
  <1>7. /\ q.rest \in Seq(Nat)
        /\ SubSeq(q.rest, 1, SplitLength(q.rest)) = ChunkData(k)
        /\ Len(q.rest) < min_fetch_size => k + 1 \notin Chunks
        /\ ~ (Len(q.rest) < min_fetch_size) => rest = Upstream(Start(k + 1), Start(e))
    BY <1>3, <1>5, <1>6, SplitOK
  <1>8. PICK b \in Seq(Nat) : b = Tail(q.batch) /\ Len(b) = n - 1 /\ \A i \in 1 .. Len(b) : b[i] = q.batch[i + 1]
    <2>1. q.batch # <<>>
      BY <1>2, EmptySeq
    <2>2. /\ Tail(q.batch) \in Seq(Nat) /\ Len(Tail(q.batch)) = Len(q.batch) - 1
          /\ \A i \in 1 .. Len(Tail(q.batch)) : Tail(q.batch)[i] = q.batch[i + 1]
      BY <1>2, <2>1, HeadTailProperties
    <2>3. QED
      BY <1>2, <2>2
  <1>9. k + 1 \in First(q) .. e /\ Start(k + 1) \in Nat /\ Start(k + 1) <= Start(e) /\ Start(e) \in Nat
    <2>1. k + 1 \in First(q) .. e
      BY <1>4, <1>5
    <2>2. QED
      BY <1>3, <2>1, BatchFacts
  <1>10. rest \in Seq(Nat)
    <2>1. CASE Len(q.rest) < min_fetch_size
      BY <1>7, <2>1
    <2>2. CASE ~ (Len(q.rest) < min_fetch_size)
      <3>1. q.rest = Upstream(Start(k), Start(e)) /\ SplitLength(q.rest) = min_fetch_size
        BY <1>3, <1>5, <2>2 DEF SplitLength
      <3>2. PICK m \in Nat, l \in Nat : m = min_fetch_size /\ l = Len(q.rest)
        BY <1>7, LenProperties DEF ParametersOK
      <3>3. ASSUME NEW i \in m + 1 .. l PROVE q.rest[i] \in Nat
        <4>1. i \in 1 .. Len(q.rest)
          BY <3>2
        <4>2. QED
          BY <1>7, <4>1, ElementOfSeq
      <3>4. SubSeq(q.rest, m + 1, l) \in Seq(Nat)
        BY <3>2, <3>3, SubSeqProperties
      <3>5. QED
        BY <2>2, <3>1, <3>2, <3>4
    <2>3. QED
      BY <2>1, <2>2
  <1>11. pc \in {"cache_batch", "append"} /\ x = [q EXCEPT !.batch = b, !.rest = rest, !.pc = pc]
    BY <1>8
  <1>12. /\ x.pc = pc /\ x.rest = rest /\ x.result = q.result /\ x.range = q.range
         /\ x.chunk = q.chunk /\ x.batch = b /\ x.data = q.data /\ x.torn = q.torn
         /\ x \in Readings
    BY <1>1, <1>8, <1>10, <1>11 DEF Readings
  <1>13. First(x) = First(q) /\ EndsAt(x, e) /\ ResultIs(x, e) /\ BatchIs(x, e)
    <2>1. First(x) = First(q) /\ EndsAt(x, e) /\ ResultIs(x, e)
      BY <1>3, <1>12 DEF First, EndsAt, ResultIs
    <2>2. Len(x.batch) = n - 1 /\ Len(x.batch) <= e - First(x)
      BY <1>4, <1>8, <1>12, <2>1
    <2>3. ASSUME NEW i \in 1 .. Len(x.batch)
          PROVE  x.batch[i] = e - Len(x.batch) + i - 1
      <3>1. i \in Nat /\ i + 1 \in 1 .. n /\ x.batch[i] = q.batch[i + 1]
        BY <1>2, <1>8, <1>12, <2>2
      <3>2. q.batch[i + 1] = e - n + (i + 1) - 1
        BY <1>2, <1>3, <3>1 DEF BatchIs
      <3>3. e - n + (i + 1) - 1 = e - (n - 1) + i - 1
        BY <3>1
      <3>4. QED
        BY <2>2, <3>1, <3>2, <3>3
    <2>4. QED
      BY <2>1, <2>2, <2>3 DEF BatchIs
  <1>14. ReaderOK(x)
    <2>1. CASE n > 1
      <3>1. x.pc = "cache_batch" /\ Len(x.batch) > 0
        BY <1>2, <1>8, <1>12, <2>1
      <3>2. k + 1 < e
        BY <1>5, <2>1
      <3>3. k + 1 \in Chunks
        BY <1>3, <1>9, <3>2, BatchFacts
      <3>4. x.rest = Upstream(Start(k + 1), Start(e))
        BY <1>7, <1>12, <3>3
      <3>5. e - Len(x.batch) = k + 1
        BY <1>5, <1>8, <1>12
      <3>6. QED
        BY <1>1, <1>12, <1>13, <3>1, <3>4, <3>5 DEF ReaderOK
    <2>2. CASE n = 1
      <3>1. x.pc = "append" /\ x.batch = <<>>
        <4>1. x.pc = "append"
          BY <1>2, <1>12, <2>2
        <4>2. b \in Seq(Nat) /\ Len(b) = 0
          BY <1>8, <2>2
        <4>3. b = <<>>
          BY <4>2, EmptySeq
        <4>4. QED
          BY <1>12, <4>1, <4>3
      <3>2. QED
        BY <1>1, <1>12, <1>13, <3>1 DEF ReaderOK
    <2>3. n > 1 \/ n = 1
      <3>1. n \in Nat /\ n > 0
        BY <1>2
      <3>2. QED
        BY <3>1
    <2>4. QED
      BY <2>1, <2>2, <2>3
  <1>15. QED
    BY <1>4, <1>5, <1>6, <1>7, <1>14

\* Cut from the chunks it lies in, a range has the bytes that were asked for.
LEMMA TrimIs ==
    ASSUME ParametersOK, NEW g \in Ranges, NEW all,
           all = Upstream(Start(ChunkOf(g[1])), Start(EndChunk(g) + 1))
    PROVE  /\ Trim(all, g[1] - ChunkOf(g[1]) * min_fetch_size, g[2] - g[1]) = Upstream(g[1], g[2])
           /\ Upstream(g[1], g[2]) \in Seq(Nat)
  <1>1. PICK c \in Nat, d \in Nat, l \in Nat :
          c = g[1] /\ d = g[2] /\ l = Length /\ c < d /\ d <= l
    BY RangeIs DEF ParametersOK
  <1>2. PICK a \in Nat, b \in Nat :
          /\ a = Start(ChunkOf(g[1])) /\ b = Start(EndChunk(g) + 1) /\ a <= c /\ d <= b
    <2>1. ChunkOf(g[1]) \in Nat /\ EndChunk(g) \in Nat
      BY RangeIs, ChunkIs
    <2>2. Start(ChunkOf(g[1])) \in Nat /\ Start(EndChunk(g) + 1) \in Nat
      BY <2>1, StartStep
    <2>3. QED
      BY <1>1, <2>2, RangeIs
  <1>3. a <= b /\ a <= l /\ a <= c /\ c <= d /\ c <= l
    BY <1>1, <1>2
  <1>4. /\ Upstream(a, b) \in Seq(Nat) /\ Len(Upstream(a, b)) = (IF b < l THEN b ELSE l) - a
    BY <1>1, <1>3, UpstreamIs
  <1>5. PICK f, j \in Nat : f = c - a + 1 /\ j = d - a
    BY <1>1, <1>2
  <1>6. PICK n \in Nat : n = Len(all) /\ j <= n
    <2>1. (IF b < l THEN b ELSE l) - a \in Nat /\ j <= (IF b < l THEN b ELSE l) - a
      BY <1>1, <1>2, <1>3, <1>5
    <2>2. QED
      BY <1>2, <1>4, <2>1
  <1>7. j <= Len(Upstream(a, b))
    BY <1>2, <1>6
  <1>8. IsPart(a, b, c, d, f, j)
    BY <1>1, <1>3, <1>5, <1>7, UpstreamPart
  <1>9. PICK o \in Nat, w \in Nat :
          /\ o = g[1] - ChunkOf(g[1]) * min_fetch_size /\ w = g[2] - g[1] /\ o + 1 = f /\ o + w = j
    <2>1. ChunkOf(g[1]) * min_fetch_size = a
      BY <1>2 DEF Start
    <2>2. QED
      BY <1>1, <1>2, <1>5, <2>1
  <1>10. (IF o + w < Len(all) THEN o + w ELSE Len(all)) = j
    BY <1>6, <1>9
  <1>11. Trim(all, o, w) = SubSeq(all, f, j)
    BY <1>9, <1>10 DEF Trim
  <1>12. Trim(all, o, w) = Upstream(c, d)
    BY <1>2, <1>8, <1>11 DEF IsPart
  <1>13. Upstream(c, d) \in Seq(Nat)
    BY <1>1, <1>3, UpstreamIs
  <1>14. QED
    BY <1>1, <1>9, <1>12, <1>13

\* Whatever it has, what is cut from it is a sequence.
LEMMA TrimType ==
    ASSUME NEW all \in Seq(Nat), NEW o \in Nat, NEW w \in Nat
    PROVE  Trim(all, o, w) \in Seq(Nat)
  <1>1. PICK j \in Nat : j = (IF o + w < Len(all) THEN o + w ELSE Len(all)) /\ j <= Len(all)
    BY LenProperties
  <1>2. ASSUME NEW i \in o + 1 .. j PROVE all[i] \in Nat
    <2>1. i \in 1 .. Len(all)
      BY <1>1, LenProperties
    <2>2. QED
      BY <2>1, ElementOfSeq
  <1>3. SubSeq(all, o + 1, j) \in Seq(Nat)
    BY <1>2, SubSeqProperties
  <1>4. QED
    BY <1>1, <1>3 DEF Trim

\* The chunk that was found follows the result; after the last one the bytes
\* outside the range are trimmed away.
LEMMA AppendOK ==
    ASSUME ParametersOK, NEW q, ReaderOK(q), q.pc = "append", NEW all, all = q.result \o q.data,
           NEW x,
           x = IF q.chunk < EndChunk(q.range)
               THEN [q EXCEPT !.pc = "lookup", !.chunk = @ + 1, !.data = <<>>, !.result = all]
               ELSE [q EXCEPT !.pc = "return", !.data = <<>>, !.rest = <<>>,
                       !.result = Trim(all, q.range[1] - ChunkOf(q.range[1]) * min_fetch_size,
                                       q.range[2] - q.range[1])]
    PROVE  ReaderOK(x)
  <1>1. /\ q \in Readings /\ q.range \in Ranges /\ First(q) \in Nat /\ q.chunk \in Chunks
        /\ q.chunk \in Nat /\ EndChunk(q.range) \in Nat
        /\ First(q) <= q.chunk /\ q.chunk <= EndChunk(q.range)
    BY ReadingIs
  <1>2. PICK e \in Nat : EndsAt(q, e) /\ ResultIs(q, e)
    BY DEF ReaderOK
  <1>3. q.batch = <<>>
    BY DEF ReaderOK
  <1>4. q.torn \/ all = Upstream(Start(First(q)), Start(q.chunk + 1))
    <2> SUFFICES ASSUME ~ q.torn PROVE all = Upstream(Start(First(q)), Start(q.chunk + 1))
      OBVIOUS
    <2>1. /\ Start(First(q)) \in Nat /\ Start(First(q)) <= Start(e) /\ Start(e) \in Nat
          /\ Start(First(q)) <= Length
      BY <1>2, BatchFacts
    <2>2. q.result = Upstream(Start(First(q)), Start(e))
      BY <1>2 DEF ResultIs
    <2>3. CASE e = q.chunk /\ q.data = ChunkData(q.chunk)
      <3>1. /\ ChunkData(e) = Upstream(Start(e), Start(e + 1)) /\ Start(e) < Length
            /\ Start(e + 1) \in Nat /\ Start(e + 1) = Start(e) + min_fetch_size
        BY <1>1, <2>3, ChunkIs
      <3>2. Start(e) <= Start(e + 1) /\ Start(e) <= Length
        BY <2>1, <3>1 DEF ParametersOK
      <3>3. all = Upstream(Start(First(q)), Start(e + 1))
        <4>1. Upstream(Start(First(q)), Start(e)) \o Upstream(Start(e), Start(e + 1))
                = Upstream(Start(First(q)), Start(e + 1))
          BY <2>1, <3>1, <3>2, UpstreamJoin
        <4>2. QED
          BY <2>2, <2>3, <3>1, <4>1
      <3>4. QED
        BY <2>3, <3>3
    <2>4. CASE e = q.chunk + 1 /\ q.data = <<>>
      <3>1. q.result \in Seq(Nat)
        BY <1>1 DEF Readings
      <3>2. all = q.result
        BY <2>4, <3>1, ConcatEmptySeq
      <3>3. QED
        BY <2>2, <2>4, <3>1, <3>2
    <2>5. QED
      BY <1>2, <2>3, <2>4 DEF EndsAt
  <1>9. all \in Seq(Nat)
    BY <1>1, ConcatProperties DEF Readings
  <1>5. <<>> \in Seq(Nat) /\ Len(<<>>) = 0
    BY EmptySeq
  <1>6. CASE q.chunk < EndChunk(q.range)
    <2>1. PICK d \in Nat : d = q.chunk + 1 /\ d \in First(q) .. EndChunk(q.range) /\ 0 <= d - First(q) /\ d - 0 = d
      BY <1>1, <1>6
    <2>2. x = [q EXCEPT !.pc = "lookup", !.chunk = d, !.data = <<>>, !.result = all]
      BY <1>6, <2>1
    <2>3. /\ x.pc = "lookup" /\ x.chunk = d /\ x.data = <<>> /\ x.result = all
          /\ x.range = q.range /\ x.batch = <<>> /\ x.torn = q.torn /\ x \in Readings
      BY <1>1, <1>3, <1>5, <1>9, <2>1, <2>2 DEF Readings
    <2>4. First(x) = First(q)
      BY <2>3 DEF First
    <2>5. BatchIs(x, d)
      BY <1>5, <2>1, <2>3, <2>4 DEF BatchIs
    <2>6. ResultIs(x, d - Len(x.batch))
      BY <1>4, <1>5, <2>1, <2>3, <2>4 DEF ResultIs
    <2>7. QED
      BY <1>1, <2>1, <2>3, <2>4, <2>5, <2>6 DEF ReaderOK
  <1>7. CASE ~ (q.chunk < EndChunk(q.range))
    <2>1. q.chunk = EndChunk(q.range)
      BY <1>1, <1>7
    <2>2. PICK y \in Seq(Nat) :
            /\ y = Trim(all, q.range[1] - ChunkOf(q.range[1]) * min_fetch_size, q.range[2] - q.range[1])
            /\ q.torn \/ y = Upstream(q.range[1], q.range[2])
      <3>1. PICK o \in Nat, w \in Nat :
              o = q.range[1] - ChunkOf(q.range[1]) * min_fetch_size /\ w = q.range[2] - q.range[1]
        <4>1. /\ q.range[1] \in Nat /\ q.range[2] \in Nat /\ q.range[1] < q.range[2]
              /\ ChunkOf(q.range[1]) \in Nat /\ Start(ChunkOf(q.range[1])) <= q.range[1]
          BY <1>1, RangeIs
        <4>2. Start(ChunkOf(q.range[1])) \in Nat
          BY <4>1, StartStep
        <4>3. QED
          BY <4>1, <4>2 DEF Start
      <3>2. Trim(all, o, w) \in Seq(Nat)
        BY <1>9, TrimType
      <3>3. q.torn \/ Trim(all, o, w) = Upstream(q.range[1], q.range[2])
        BY <1>1, <1>4, <2>1, <3>1, TrimIs DEF First
      <3>4. QED
        BY <3>1, <3>2, <3>3
    <2>3. x = [q EXCEPT !.pc = "return", !.data = <<>>, !.rest = <<>>, !.result = y]
      BY <1>7, <2>2
    <2>4. /\ x.pc = "return" /\ x.chunk = q.chunk /\ x.result = y /\ x.range = q.range
          /\ x.torn = q.torn /\ x \in Readings
      BY <1>1, <1>5, <2>2, <2>3 DEF Readings
    <2>5. x.chunk \in First(x) .. EndChunk(x.range)
      BY <1>1, <2>4 DEF First
    <2>6. QED
      BY <1>1, <2>2, <2>4, <2>5 DEF ReaderOK
  <1>8. QED
    BY <1>6, <1>7

\* A read that has ended, or has failed, may begin again.
LEMMA DoneOK == ReaderOK(Done)
  <1>1. <<>> \in Seq(Nat)
    BY EmptySeq
  <1>2. Done \in Readings /\ Done.pc = "idle"
    BY <1>1 DEF Done, Readings
  <1>3. QED
    BY <1>2 DEF ReaderOK

(* ------------------------- The cache and its files ----------------------- *)

\* A task that has ended leaves the other tasks as they are.
LEMMA RemoveOK ==
    ASSUME NEW S, NEW s \in Seq(S), NEW t \in 1 .. Len(s), NEW y, y = RemoveAt(s, t)
    PROVE  /\ y \in Seq(S)
           /\ \A u \in 1 .. Len(s) : u # t => \E v \in 1 .. Len(y) : y[v] = s[u]
  <1>1. PICK n \in Nat : n = Len(s) /\ t \in 1 .. n
    BY LenProperties
  <1>2. PICK a, b : a = SubSeq(s, 1, t - 1) /\ b = SubSeq(s, t + 1, n)
    OBVIOUS
  <1>3. y = a \o b
    BY <1>1, <1>2 DEF RemoveAt
  <1>4. t - 1 \in Nat /\ t + 1 \in Nat /\ 1 <= t + 1
    BY <1>1
  <1>5. \A i \in 1 .. n : s[i] \in S
    BY <1>1, ElementOfSeq
  <1>6. /\ a \in Seq(S) /\ Len(a) = (IF 1 <= t - 1 THEN t - 1 - 1 + 1 ELSE 0)
        /\ \A i \in 1 .. t - 1 - 1 + 1 : a[i] = s[1 + i - 1]
    <2>1. \A i \in 1 .. t - 1 : s[i] \in S
      BY <1>1, <1>5
    <2>2. QED
      BY <1>2, <1>4, <2>1, SubSeqProperties
  <1>7. /\ b \in Seq(S) /\ Len(b) = (IF t + 1 <= n THEN n - (t + 1) + 1 ELSE 0)
        /\ \A i \in 1 .. n - (t + 1) + 1 : b[i] = s[t + 1 + i - 1]
    <2>1. \A i \in t + 1 .. n : s[i] \in S
      BY <1>1, <1>5
    <2>2. QED
      BY <1>1, <1>2, <1>4, <2>1, SubSeqProperties
  <1>8. Len(a) = t - 1 /\ Len(b) = n - t
    BY <1>1, <1>6, <1>7
  <1>9. /\ y \in Seq(S) /\ Len(y) = Len(a) + Len(b)
        /\ \A i \in 1 .. Len(a) + Len(b) : y[i] = IF i <= Len(a) THEN a[i] ELSE b[i - Len(a)]
    <2>1. /\ a \o b \in Seq(S) /\ Len(a \o b) = Len(a) + Len(b)
          /\ \A i \in 1 .. Len(a) + Len(b) :
               (a \o b)[i] = IF i <= Len(a) THEN a[i] ELSE b[i - Len(a)]
      <3>1. a \in Seq(S) /\ b \in Seq(S)
        BY <1>6, <1>7
      <3>2. QED
        BY <3>1, ConcatProperties
    <2>2. QED
      BY <1>3, <2>1
  <1>10. ASSUME NEW u \in 1 .. n, u < t
         PROVE  \E v \in 1 .. Len(y) : y[v] = s[u]
    <2>1. u \in 1 .. t - 1 - 1 + 1 /\ u \in 1 .. Len(a) + Len(b) /\ u <= Len(a) /\ 1 + u - 1 = u
      BY <1>1, <1>8, <1>10
    <2>2. y[u] = s[u]
      BY <1>6, <1>9, <2>1
    <2>3. QED
      BY <1>9, <2>1, <2>2
  <1>11. ASSUME NEW u \in 1 .. n, u > t
         PROVE  \E v \in 1 .. Len(y) : y[v] = s[u]
    <2>1. PICK v \in Nat, i \in Nat : v = u - 1 /\ i = u - t
      BY <1>1, <1>11
    <2>2. /\ v \in 1 .. Len(a) + Len(b) /\ ~ (v <= Len(a)) /\ v - Len(a) = i
          /\ i \in 1 .. n - (t + 1) + 1 /\ t + 1 + i - 1 = u
      BY <1>1, <1>8, <1>11, <2>1
    <2>3. y[v] = b[i] /\ b[i] = s[u]
      BY <1>7, <1>9, <2>2
    <2>4. QED
      BY <1>9, <2>2, <2>3
  <1>12. ASSUME NEW u \in 1 .. n, u # t
         PROVE  \E v \in 1 .. Len(y) : y[v] = s[u]
    <2>1. u < t \/ u > t
      BY <1>1, <1>12
    <2>2. QED
      BY <1>10, <1>11, <2>1
  <1>13. QED
    BY <1>1, <1>9, <1>12

\* The file of a chunk is as good and as well kept as it was, when its tasks go
\* on and nothing else about it changes.
LEMMA OtherOK ==
    ASSUME NEW d \in Chunks, FileOK(d), Tracked(d),
           file'[d] = file[d], cache'[d] = cache[d], lock'[d] = lock[d],
           d \in cut => d \in cut', d \in left => d \in left',
           \A t \in DOMAIN tasks : tasks[t].chunk = d => \E u \in DOMAIN tasks' : tasks'[u] = tasks[t]
    PROVE  FileOK(d)' /\ Tracked(d)'
  <1>1. FileOK(d)'
    BY DEF FileOK, Incomplete
  <1>2. Tended(d) => Tended(d)'
    BY DEF Tended
  <1>3. Tracked(d)'
    BY <1>2 DEF Tracked
  <1>4. QED
    BY <1>1, <1>3

\* A chunk is put into the cache unless it has an entry, with a task.
LEMMA CacheChunkOK ==
    ASSUME ParametersOK, DiskOK, NEW c \in Chunks, NEW data, data = ChunkData(c),
           CacheChunkData(c, data)
    PROVE  DiskOK'
  <1>1. lock' = lock /\ file' = file /\ cut' = cut /\ left' = left
    BY DEF CacheChunkData
  <1>2. CASE cache[c].kind # "none"
    <2>1. cache' = cache /\ tasks' = tasks
      BY <1>2 DEF CacheChunkData
    <2>2. QED
      BY <1>1, <2>1 DEF DiskOK, CacheOK, FilesOK, FileOK, Incomplete, FilesTracked, Tracked, Tended
  <1>3. CASE cache[c].kind = "none"
    <2>1. data \in Seq(Nat)
      BY ChunkIs
    <2>2. PICK w \in Writing : w = [pc |-> "check", chunk |-> c, data |-> data]
      <3>1. [pc |-> "check", chunk |-> c, data |-> data] \in Writing
        BY <2>1 DEF Writing, TaskSteps
      <3>2. QED
        BY <3>1
    <2>3. /\ cache' = [cache EXCEPT ![c] = Memory(data)]
          /\ tasks' = Append(tasks, w)
      BY <1>3, <2>2 DEF CacheChunkData
    <2>4. cache \in [Chunks -> Entries] /\ tasks \in Seq(Writing) /\ Len(tasks) \in Nat
      BY LenProperties DEF DiskOK, CacheOK
    <2>5. PICK m \in Entries : m = Memory(data) /\ m.kind = "memory" /\ m.data = ChunkData(c)
      <3>1. Memory(data) \in Entries /\ Memory(data).kind = "memory" /\ Memory(data).data = data
        BY <2>1 DEF Memory, Entries
      <3>2. QED
        BY <3>1
    <2>6. /\ cache' \in [Chunks -> Entries] /\ cache'[c] = m
          /\ \A d \in Chunks : d # c => cache'[d] = cache[d]
      BY <2>3, <2>4, <2>5
    <2>7. /\ tasks' \in Seq(Writing) /\ Len(tasks') = Len(tasks) + 1
          /\ \A t \in 1 .. Len(tasks) : tasks'[t] = tasks[t]
      BY <2>2, <2>3, <2>4, AppendProperties
    <2>8. CacheOK'
      BY <1>1, <2>5, <2>6, <2>7 DEF DiskOK, CacheOK
    <2>9. ASSUME NEW t \in DOMAIN tasks
          PROVE  \E u \in DOMAIN tasks' : tasks'[u] = tasks[t]
      <3>1. t \in 1 .. Len(tasks)
        BY <2>4, LenProperties
      <3>2. t \in DOMAIN tasks'
        BY <2>4, <2>7, <3>1, LenProperties
      <3>3. QED
        BY <2>7, <3>1, <3>2
    <2>10. ASSUME NEW d \in Chunks
           PROVE  FileOK(d)' /\ Tracked(d)'
      <3>1. FileOK(d) /\ Tracked(d)
        BY DEF DiskOK, FilesOK, FilesTracked
      <3>2. CASE d # c
        BY <1>1, <2>6, <2>9, <3>1, <3>2, OtherOK
      <3>3. CASE d = c
        <4>1. FileOK(d)'
          BY <1>1, <2>9, <3>1 DEF FileOK, Incomplete
        <4>2. Tended(d) => Tended(d)'
          BY <2>9 DEF Tended
        <4>3. Tracked(d)'
          BY <1>1, <1>3, <3>1, <3>3, <4>2 DEF Tracked
        <4>4. QED
          BY <4>1, <4>3
      <3>4. QED
        BY <3>2, <3>3
    <2>11. QED
      BY <2>8, <2>10 DEF DiskOK, FilesOK, FilesTracked
  <1>4. QED
    BY <1>2, <1>3

\* What a task is.
LEMMA TaskIs ==
    ASSUME CacheOK, NEW t \in DOMAIN tasks
    PROVE  /\ tasks \in Seq(Writing) /\ t \in 1 .. Len(tasks) /\ tasks[t] \in Writing
           /\ tasks[t].pc \in TaskSteps /\ tasks[t].chunk \in Chunks
           /\ tasks[t].data = ChunkData(tasks[t].chunk)
  <1>1. tasks \in Seq(Writing)
    BY DEF CacheOK
  <1>2. t \in 1 .. Len(tasks)
    BY <1>1, LenProperties
  <1>3. tasks[t] \in Writing
    BY <1>1, <1>2, ElementOfSeq
  <1>4. QED
    BY <1>1, <1>2, <1>3 DEF Writing

\* A task goes on, and the others stay where they are.
LEMMA SetTaskIs ==
    ASSUME CacheOK, NEW t \in DOMAIN tasks, NEW p \in TaskSteps, SetTask(t, p)
    PROVE  /\ tasks' \in Seq(Writing) /\ DOMAIN tasks' = DOMAIN tasks
           /\ tasks'[t].pc = p /\ tasks'[t].chunk = tasks[t].chunk
           /\ \A u \in DOMAIN tasks : u # t => tasks'[u] = tasks[u]
  <1>1. /\ tasks \in Seq(Writing) /\ t \in 1 .. Len(tasks) /\ tasks[t] \in Writing
    BY TaskIs
  <1>2. PICK w \in Writing :
          w = [tasks[t] EXCEPT !.pc = p] /\ w.chunk = tasks[t].chunk /\ w.pc = p
    <2>1. PICK o, w : o = tasks[t] /\ w = [o EXCEPT !.pc = p]
      OBVIOUS
    <2>2. w \in Writing /\ w.chunk = o.chunk /\ w.pc = p
      BY <1>1, <2>1 DEF Writing
    <2>3. QED
      BY <2>1, <2>2
  <1>3. tasks' = [tasks EXCEPT ![t] = w]
    BY <1>2 DEF SetTask
  <1>4. tasks' \in Seq(Writing) /\ Len(tasks') = Len(tasks)
    BY <1>1, <1>2, <1>3, ExceptSeq
  <1>5. QED
    BY <1>1, <1>2, <1>3, <1>4

\* Such a step is right if it is for the file of the task's own chunk.
LEMMA TaskStepOK ==
    ASSUME DiskOK, NEW t \in DOMAIN tasks, NEW p \in TaskSteps, SetTask(t, p),
           NEW c \in Chunks, c = tasks[t].chunk, cache' = cache, lock' = lock,
           file' \in [Chunks -> {NoFile} \cup Seq(Nat)],
           \A d \in Chunks : d # c => /\ file'[d] = file[d]
                                      /\ d \in cut => d \in cut'
                                      /\ d \in left => d \in left',
           FileOK(c)', Tracked(c)'
    PROVE  DiskOK'
  <1>1. /\ tasks' \in Seq(Writing) /\ DOMAIN tasks' = DOMAIN tasks
        /\ \A u \in DOMAIN tasks : u # t => tasks'[u] = tasks[u]
    BY SetTaskIs DEF DiskOK
  <1>2. CacheOK'
    BY <1>1 DEF DiskOK, CacheOK
  <1>3. ASSUME NEW d \in Chunks, d # c
        PROVE  FileOK(d)' /\ Tracked(d)'
    <2>1. FileOK(d) /\ Tracked(d)
      BY DEF DiskOK, FilesOK, FilesTracked
    <2>2. \A u \in DOMAIN tasks : tasks[u].chunk = d => \E v \in DOMAIN tasks' : tasks'[v] = tasks[u]
      BY <1>1, <1>3
    <2>3. QED
      BY <1>3, <2>1, <2>2, OtherOK
  <1>4. QED
    BY <1>2, <1>3 DEF DiskOK, FilesOK, FilesTracked

\* A task goes on to write the file of its chunk, unless there is one.
LEMMA CheckExistsOK ==
    ASSUME DiskOK, NEW t \in DOMAIN tasks, CheckExists(t)
    PROVE  DiskOK'
  <1>1. PICK c \in Chunks : c = tasks[t].chunk
    BY TaskIs DEF DiskOK
  <1>2. /\ cache' = cache /\ lock' = lock /\ file' = file /\ cut' = cut /\ left' = left
        /\ tasks[t].pc = "check"
    BY DEF CheckExists
  <1>3. PICK p \in TaskSteps : /\ SetTask(t, p) /\ p \in {"upsert", "create"}
                               /\ file[c] # NoFile => p = "upsert"
    BY <1>1 DEF CheckExists, TaskSteps
  <1>4. /\ DOMAIN tasks' = DOMAIN tasks /\ tasks'[t].pc = p /\ tasks'[t].chunk = c
        /\ \A u \in DOMAIN tasks : u # t => tasks'[u] = tasks[u]
    BY <1>1, <1>3, SetTaskIs DEF DiskOK
  <1>5. FileOK(c)'
    <2>1. FileOK(c)
      BY DEF DiskOK, FilesOK
    <2>2. QED
      BY <1>2, <1>4, <2>1 DEF FileOK, Incomplete
  <1>6. Tracked(c)'
    BY <1>2, <1>3, <1>4 DEF Tracked, Tended
  <1>7. file' \in [Chunks -> {NoFile} \cup Seq(Nat)]
    BY <1>2 DEF DiskOK, CacheOK
  <1>8. QED
    BY <1>1, <1>2, <1>3, <1>5, <1>6, <1>7, TaskStepOK

\* It creates the file, or truncates the one that another task created.
LEMMA CreateFileOK ==
    ASSUME DiskOK, NEW t \in DOMAIN tasks, CreateFile(t)
    PROVE  DiskOK'
  <1>1. PICK c \in Chunks : c = tasks[t].chunk
    BY TaskIs DEF DiskOK
  <1>2. /\ cache' = cache /\ lock' = lock /\ file' = [file EXCEPT ![c] = <<>>]
        /\ cut' = cut /\ left' = left /\ SetTask(t, "write")
    BY <1>1 DEF CreateFile
  <1>3. DOMAIN tasks' = DOMAIN tasks /\ tasks'[t].pc = "write" /\ tasks'[t].chunk = c
    BY <1>1, <1>2, SetTaskIs DEF DiskOK, TaskSteps
  <1>4. FileOK(c)' /\ Tracked(c)'
    BY <1>3 DEF FileOK, Incomplete, Tracked, Tended
  <1>5. /\ file' \in [Chunks -> {NoFile} \cup Seq(Nat)]
        /\ \A d \in Chunks : d # c => file'[d] = file[d]
    <2>1. <<>> \in Seq(Nat)
      BY EmptySeq
    <2>2. QED
      BY <1>2, <2>1 DEF DiskOK, CacheOK
  <1>6. "write" \in TaskSteps
    BY DEF TaskSteps
  <1>7. QED
    BY <1>1, <1>2, <1>4, <1>5, <1>6, TaskStepOK

\* It writes the chunk, into the file or into one that has no name any more.
LEMMA WriteFileOK ==
    ASSUME ParametersOK, DiskOK, NEW t \in DOMAIN tasks, WriteFile(t)
    PROVE  DiskOK'
  <1>1. PICK c \in Chunks : c = tasks[t].chunk /\ tasks[t].data = ChunkData(c)
    BY TaskIs DEF DiskOK
  <1>2. /\ cache' = cache /\ lock' = lock /\ cut' = cut /\ left' = left /\ SetTask(t, "upsert")
        /\ \/ tasks[t].pc = "write" /\ file' = [file EXCEPT ![c] = ChunkData(c)]
           \/ tasks[t].pc = "unlinked" /\ file' = file
    BY <1>1 DEF WriteFile
  <1>3. /\ DOMAIN tasks' = DOMAIN tasks /\ tasks'[t].pc = "upsert" /\ tasks'[t].chunk = c
        /\ \A u \in DOMAIN tasks : u # t => tasks'[u] = tasks[u]
    BY <1>1, <1>2, SetTaskIs DEF DiskOK, TaskSteps
  <1>4. file \in [Chunks -> {NoFile} \cup Seq(Nat)] /\ ChunkData(c) \in Seq(Nat) /\ FileOK(c)
    BY ChunkIs DEF DiskOK, CacheOK, FilesOK
  <1>5. /\ file' \in [Chunks -> {NoFile} \cup Seq(Nat)]
        /\ \A d \in Chunks : d # c => file'[d] = file[d]
    BY <1>2, <1>4
  <1>6. FileOK(c)'
    <2>1. CASE tasks[t].pc = "write"
      BY <1>2, <1>4, <2>1 DEF FileOK
    <2>2. CASE tasks[t].pc = "unlinked"
      BY <1>2, <1>3, <1>4, <2>2 DEF FileOK, Incomplete
    <2>3. QED
      BY <1>2, <2>1, <2>2
  <1>7. Tracked(c)'
    BY <1>3 DEF Tracked, Tended
  <1>8. "upsert" \in TaskSteps
    BY DEF TaskSteps
  <1>9. QED
    BY <1>1, <1>2, <1>5, <1>6, <1>7, <1>8, TaskStepOK

\* The write fails, and what it leaves is accounted for.
LEMMA WriteFailsOK ==
    ASSUME ParametersOK, DiskOK, NEW t \in DOMAIN tasks, WriteFails(t)
    PROVE  DiskOK'
  <1>1. PICK c \in Chunks : c = tasks[t].chunk /\ tasks[t].data = ChunkData(c)
    BY TaskIs DEF DiskOK
  <1>2. cache' = cache /\ lock' = lock /\ SetTask(t, "invalidate")
    BY DEF WriteFails
  <1>3. /\ DOMAIN tasks' = DOMAIN tasks
        /\ \A u \in DOMAIN tasks : u # t => tasks'[u] = tasks[u]
    BY <1>2, SetTaskIs DEF DiskOK, TaskSteps
  <1>4. "invalidate" \in TaskSteps
    BY DEF TaskSteps
  <1>5. file \in [Chunks -> {NoFile} \cup Seq(Nat)] /\ ChunkData(c) \in Seq(Nat)
    BY ChunkIs DEF DiskOK, CacheOK
  <1>6. CASE tasks[t].pc = "write"
    <2>1. PICK n \in 0 .. Len(ChunkData(c)) - 1 :
            file' = [file EXCEPT ![c] = IF Len(@) < n THEN SubSeq(ChunkData(c), 1, n) ELSE @]
      BY <1>1, <1>6 DEF WriteFails
    <2>2. cut' = cut \cup {c} /\ left' = left \cup {c}
      BY <1>1, <1>6 DEF WriteFails
    <2>3. SubSeq(ChunkData(c), 1, n) \in Seq(Nat)
      <3>1. n \in Nat /\ \A i \in 1 .. n : i \in 1 .. Len(ChunkData(c))
        BY <1>5, LenProperties
      <3>2. \A i \in 1 .. n : ChunkData(c)[i] \in Nat
        BY <1>5, <3>1, ElementOfSeq
      <3>3. QED
        BY <3>1, <3>2, SubSeqProperties
    <2>4. PICK y \in {NoFile} \cup Seq(Nat) : file' = [file EXCEPT ![c] = y]
      <3>1. (IF Len(file[c]) < n THEN SubSeq(ChunkData(c), 1, n) ELSE file[c]) \in {NoFile} \cup Seq(Nat)
        BY <1>5, <2>3
      <3>2. QED
        BY <2>1, <3>1
    <2>5. /\ file' \in [Chunks -> {NoFile} \cup Seq(Nat)]
          /\ \A d \in Chunks : d # c => file'[d] = file[d]
      BY <1>5, <2>4
    <2>6. FileOK(c)' /\ Tracked(c)'
      BY <2>2 DEF FileOK, Incomplete, Tracked
    <2>7. QED
      BY <1>1, <1>2, <1>4, <2>2, <2>5, <2>6, TaskStepOK
  <1>7. CASE tasks[t].pc # "write"
    <2>1. file' = file /\ cut' = cut /\ left' = left /\ tasks[t].pc \in {"create", "unlinked"}
      BY <1>7 DEF WriteFails
    <2>2. FileOK(c) /\ Tracked(c)
      BY DEF DiskOK, FilesOK, FilesTracked
    <2>3. FileOK(c)'
      BY <1>3, <2>1, <2>2 DEF FileOK, Incomplete
    <2>4. Tended(c) => Tended(c)'
      BY <1>3, <2>1 DEF Tended
    <2>5. Tracked(c)'
      BY <1>2, <2>1, <2>2, <2>4 DEF Tracked
    <2>6. QED
      BY <1>1, <1>2, <1>4, <1>5, <2>1, <2>3, <2>5, TaskStepOK
  <1>8. QED
    BY <1>6, <1>7

\* The entry of a chunk is replaced by v, with the listener if it was a file
\* pointer; the tasks that write its file, or that will make an entry when v is
\* none, go on.
LEMMA ReplaceOK ==
    ASSUME DiskOK, NEW c \in Chunks, NEW v \in {NoEntry, File}, ~ lock[c],
           cache' = [cache EXCEPT ![c] = v],
           lock' = [lock EXCEPT ![c] = cache[c].kind = "file"],
           file' = file, cut' = cut, left' = left \/ (v = File /\ left' = left \ {c}),
           tasks' \in Seq(Writing),
           \A t \in DOMAIN tasks :
             (tasks[t].chunk # c \/ tasks[t].pc = "write" \/ (v = NoEntry /\ tasks[t].pc = "upsert"))
               => \E u \in DOMAIN tasks' : tasks'[u] = tasks[t]
    PROVE  DiskOK'
  <1>1. cache \in [Chunks -> Entries] /\ lock \in [Chunks -> BOOLEAN]
    BY DEF DiskOK, CacheOK
  <1>2. v \in Entries /\ v.kind # "memory" /\ (v = File => v.kind = "file")
    <2>1. <<>> \in Seq(Nat)
      BY EmptySeq
    <2>2. NoEntry \in Entries /\ NoEntry.kind = "none" /\ NoEntry # File
      BY <2>1 DEF Entries, NoEntry, File
    <2>3. File \in Entries /\ File.kind = "file"
      BY <2>1 DEF Entries, File
    <2>4. QED
      BY <2>2, <2>3
  <1>3. /\ cache' \in [Chunks -> Entries] /\ cache'[c] = v
        /\ \A d \in Chunks : d # c => cache'[d] = cache[d]
    BY <1>1, <1>2
  <1>4. /\ lock' \in [Chunks -> BOOLEAN] /\ (lock'[c] <=> cache[c].kind = "file")
        /\ \A d \in Chunks : d # c => lock'[d] = lock[d]
    <2>1. (cache[c].kind = "file") \in BOOLEAN
      OBVIOUS
    <2>2. QED
      BY <1>1, <2>1
  <1>5. CacheOK'
    BY <1>2, <1>3, <1>4 DEF DiskOK, CacheOK
  <1>6. ASSUME NEW d \in Chunks
        PROVE  FileOK(d)' /\ Tracked(d)'
    <2>1. FileOK(d) /\ Tracked(d)
      BY DEF DiskOK, FilesOK, FilesTracked
    <2>2. CASE d # c
      BY <1>3, <1>4, <2>1, <2>2, OtherOK
    <2>3. CASE d = c
      <3>1. FileOK(d)'
        BY <2>1 DEF FileOK, Incomplete
      <3>2. CASE v = File
        BY <1>2, <1>3, <2>3, <3>1, <3>2 DEF Tracked
      <3>3. CASE v = NoEntry /\ left' = left
        <4>1. Tended(c) => Tended(c)'
          BY <3>3 DEF Tended
        <4>2. Tracked(d)'
          BY <1>4, <2>1, <2>3, <3>3, <4>1 DEF Tracked
        <4>3. QED
          BY <3>1, <4>2
      <3>4. QED
        BY <3>1, <3>2, <3>3
    <2>4. QED
      BY <2>2, <2>3
  <1>7. QED
    BY <1>5, <1>6 DEF DiskOK, FilesOK, FilesTracked

\* The task ends with the file pointer in the place of the entry, or without
\* an entry.
LEMMA EndOK ==
    ASSUME DiskOK, NEW t \in DOMAIN tasks, UpsertFile(t) \/ Invalidate(t)
    PROVE  DiskOK'
  <1>1. tasks \in Seq(Writing) /\ t \in 1 .. Len(tasks) /\ DOMAIN tasks = 1 .. Len(tasks)
    BY TaskIs, LenProperties DEF DiskOK
  <1>2. PICK c \in Chunks : c = tasks[t].chunk
    BY TaskIs DEF DiskOK
  <1>3. PICK v \in {NoEntry, File} :
          /\ cache' = [cache EXCEPT ![c] = v]
          /\ \/ v = File /\ tasks[t].pc = "upsert" /\ left' = left \ {c}
             \/ v = NoEntry /\ tasks[t].pc = "invalidate" /\ left' = left
    BY <1>2 DEF UpsertFile, Invalidate
  <1>4. /\ ~ lock[c] /\ file' = file /\ cut' = cut
        /\ lock' = [lock EXCEPT ![c] = cache[c].kind = "file"]
        /\ tasks' = RemoveAt(tasks, t)
    BY <1>2 DEF UpsertFile, Invalidate, EndTask
  <1>5. /\ tasks' \in Seq(Writing)
        /\ \A u \in 1 .. Len(tasks) : u # t => \E w \in 1 .. Len(tasks') : tasks'[w] = tasks[u]
    BY <1>1, <1>4, RemoveOK
  <1>6. DOMAIN tasks' = 1 .. Len(tasks')
    BY <1>5, LenProperties
  <1>7. NoEntry # File
    BY DEF File, NoEntry
  <1>8. ASSUME NEW u \in DOMAIN tasks,
               tasks[u].chunk # c \/ tasks[u].pc = "write" \/ (v = NoEntry /\ tasks[u].pc = "upsert")
        PROVE  \E w \in DOMAIN tasks' : tasks'[w] = tasks[u]
    <2>1. u # t
      BY <1>2, <1>3, <1>7, <1>8
    <2>2. QED
      BY <1>1, <1>5, <1>6, <2>1
  <1>9. left' = left \/ (v = File /\ left' = left \ {c})
    BY <1>3
  <1>10. QED
    BY <1>3, <1>4, <1>5, <1>8, <1>9, ReplaceOK

\* Every step of a task.
LEMMA TaskOK ==
    ASSUME ParametersOK, DiskOK, NEW t \in DOMAIN tasks, Task(t)
    PROVE  DiskOK' /\ reader' = reader
  <1>1. reader' = reader
    BY DEF Task, CheckExists, CreateFile, WriteFile, WriteFails, UpsertFile, Invalidate, readVars
  <1>2. QED
    BY <1>1, CheckExistsOK, CreateFileOK, WriteFileOK, WriteFailsOK, EndOK DEF Task

\* The listener removes the file; who was writing it goes on without its name.
LEMMA ListenerOK ==
    ASSUME DiskOK, NEW c \in Chunks, on_evict(c)
    PROVE  DiskOK'
  <1>1. /\ lock' = [lock EXCEPT ![c] = FALSE] /\ file' = [file EXCEPT ![c] = NoFile]
        /\ cache' = cache /\ cut' = cut \ {c} /\ left' = left \ {c}
        /\ tasks' = [t \in DOMAIN tasks |->
                      IF tasks[t].chunk = c /\ tasks[t].pc = "write"
                      THEN [tasks[t] EXCEPT !.pc = "unlinked"] ELSE tasks[t]]
    BY DEF on_evict
  <1>2. lock \in [Chunks -> BOOLEAN] /\ file \in [Chunks -> {NoFile} \cup Seq(Nat)]
    BY DEF DiskOK, CacheOK
  <1>3. /\ lock' \in [Chunks -> BOOLEAN] /\ file' \in [Chunks -> {NoFile} \cup Seq(Nat)]
        /\ file'[c] = NoFile
        /\ \A d \in Chunks : d # c => file'[d] = file[d] /\ lock'[d] = lock[d]
    BY <1>1, <1>2
  <1>4. tasks \in Seq(Writing) /\ DOMAIN tasks = 1 .. Len(tasks) /\ Len(tasks) \in Nat
    BY LenProperties DEF DiskOK, CacheOK
  <1>5. ASSUME NEW t \in DOMAIN tasks
        PROVE  tasks'[t] \in Writing /\ (tasks[t].chunk # c => tasks'[t] = tasks[t])
    <2>1. PICK w \in Writing : w = tasks[t]
      BY <1>4, ElementOfSeq
    <2>2. [w EXCEPT !.pc = "unlinked"] \in Writing
      BY DEF Writing, TaskSteps
    <2>3. tasks'[t] = IF w.chunk = c /\ w.pc = "write" THEN [w EXCEPT !.pc = "unlinked"] ELSE w
      BY <1>1, <2>1
    <2>4. QED
      BY <2>1, <2>2, <2>3
  <1>6. DOMAIN tasks' = DOMAIN tasks /\ tasks' \in Seq(Writing)
    <2>1. DOMAIN tasks' = DOMAIN tasks
      BY <1>1
    <2>2. tasks' \in [1 .. Len(tasks) -> Writing]
      BY <1>1, <1>4, <1>5
    <2>3. QED
      BY <1>4, <2>1, <2>2, IsASeq
  <1>7. CacheOK'
    BY <1>1, <1>3, <1>6 DEF DiskOK, CacheOK
  <1>8. ASSUME NEW d \in Chunks
        PROVE  FileOK(d)' /\ Tracked(d)'
    <2>1. CASE d = c
      BY <1>3, <2>1 DEF FileOK, Tracked
    <2>2. CASE d # c
      <3>1. FileOK(d) /\ Tracked(d)
        BY DEF DiskOK, FilesOK, FilesTracked
      <3>2. \A t \in DOMAIN tasks : tasks[t].chunk = d => \E u \in DOMAIN tasks' : tasks'[u] = tasks[t]
        BY <1>5, <1>6, <2>2
      <3>3. cache'[d] = cache[d] /\ (d \in cut => d \in cut') /\ (d \in left => d \in left')
        BY <1>1, <2>2
      <3>4. QED
        BY <1>3, <2>2, <3>1, <3>2, <3>3, OtherOK
    <2>3. QED
      BY <2>1, <2>2
  <1>9. QED
    BY <1>7, <1>8 DEF DiskOK, FilesOK, FilesTracked

\* An entry is evicted; the listener may fail to remove the file.
LEMMA EvictOK ==
    ASSUME DiskOK, NEW c \in Chunks, Evict(c) \/ on_evict(c) \/ RemoveFails(c)
    PROVE  DiskOK' /\ reader' = reader
  <1>1. reader' = reader
    BY DEF Evict, on_evict, RemoveFails, readVars
  <1>2. CASE Evict(c)
    <2>1. /\ ~ lock[c] /\ cache' = [cache EXCEPT ![c] = NoEntry] /\ file' = file
          /\ lock' = [lock EXCEPT ![c] = cache[c].kind = "file"]
          /\ tasks' = tasks /\ cut' = cut /\ left' = left
      BY <1>2 DEF Evict
    <2>2. tasks' \in Seq(Writing)
      BY <2>1 DEF DiskOK, CacheOK
    <2>3. \A t \in DOMAIN tasks : \E u \in DOMAIN tasks' : tasks'[u] = tasks[t]
      BY <2>1
    <2>4. DiskOK'
      BY <2>1, <2>2, <2>3, ReplaceOK
    <2>5. QED
      BY <1>1, <2>4
  <1>3. CASE RemoveFails(c)
    <2>1. /\ lock' = [lock EXCEPT ![c] = FALSE] /\ left' = left \cup {c}
          /\ cache' = cache /\ file' = file /\ tasks' = tasks /\ cut' = cut
      BY <1>3 DEF RemoveFails
    <2>2. lock' \in [Chunks -> BOOLEAN] /\ \A d \in Chunks : d # c => lock'[d] = lock[d]
      BY <2>1 DEF DiskOK, CacheOK
    <2>3. CacheOK'
      BY <2>1, <2>2 DEF DiskOK, CacheOK
    <2>4. FilesOK'
      BY <2>1 DEF DiskOK, FilesOK, FileOK, Incomplete
    <2>5. ASSUME NEW d \in Chunks
          PROVE  Tracked(d)'
      <3>1. FileOK(d) /\ Tracked(d)
        BY DEF DiskOK, FilesOK, FilesTracked
      <3>2. CASE d = c
        BY <2>1, <3>2 DEF Tracked
      <3>3. CASE d # c
        BY <2>1, <2>2, <3>1, <3>3, OtherOK
      <3>4. QED
        BY <3>2, <3>3
    <2>6. QED
      BY <1>1, <2>3, <2>4, <2>5 DEF DiskOK, FilesTracked
  <1>4. QED
    BY <1>1, <1>2, <1>3, ListenerOK

(* -------------------------------- Theorems ------------------------------- *)

\* A step of one reader leaves the others alone.
LEMMA ReadersStep ==
    ASSUME ReadersOK, NEW r \in Readers, NEW x, ReaderOK(x), reader' = [reader EXCEPT ![r] = x]
    PROVE  ReadersOK'
  BY DEF ReadersOK

\* The steps of a reader that leave the cache alone.
LEMMA QuietReadOK ==
    ASSUME ParametersOK, Inv, NEW r \in Readers,
           \/ \E range \in Ranges : GetRange(r, range)
           \/ Lookup(r) \/ ReadFile(r) \/ Download(r) \/ Found(r)
           \/ FetchBatch(r) \/ AppendChunk(r) \/ Return(r) \/ FetchFails(r)
    PROVE  ReadersOK' /\ UNCHANGED cacheVars
  <1>1. UNCHANGED cacheVars
    BY DEF GetRange, Lookup, ReadFile, Download, Found, FetchBatch, AppendChunk, Return, FetchFails
  <1>2. PICK q : q = reader[r] /\ ReaderOK(q)
    BY DEF Inv, ReadersOK
  <1>3. \E x : ReaderOK(x) /\ reader' = [reader EXCEPT ![r] = x]
    <2>1. CASE \E range \in Ranges : GetRange(r, range)
      BY <2>1, BeginOK DEF GetRange
    <2>2. CASE Lookup(r)
      <3>1. q.pc = "lookup" /\ q.chunk \in Chunks
        BY <1>2, <2>2, ReadingIs DEF Lookup, In
      <3>2. PICK k : k = cache[q.chunk] /\ k \in Entries /\ (k.kind = "memory" => k.data = ChunkData(q.chunk))
        BY <3>1 DEF Inv, DiskOK, CacheOK
      <3>3. k.kind \in {"none", "memory", "file"}
        BY <3>2 DEF Entries
      <3>4. CASE k.kind = "none"
        <4>1. PICK c, pc : /\ c = (IF q.chunk = EndChunk(q.range) THEN q.chunk ELSE q.chunk + 1)
                           /\ pc = IF q.chunk = EndChunk(q.range) THEN "fetch" ELSE "lookup"
          OBVIOUS
        <4>2. PICK x : x = [q EXCEPT !.batch = Append(@, q.chunk), !.pc = pc, !.chunk = c]
          OBVIOUS
        <4>3. reader' = [reader EXCEPT ![r] = x]
          BY <1>2, <2>2, <3>2, <3>4, <4>1, <4>2 DEF Lookup
        <4>4. ReaderOK(x)
          BY <1>2, <3>1, <4>1, <4>2, MissOK
        <4>5. QED
          BY <4>3, <4>4
      <3>5. CASE k.kind = "memory"
        <4>1. PICK x : x = [q EXCEPT !.pc = "found", !.data = ChunkData(q.chunk)]
          OBVIOUS
        <4>2. reader' = [reader EXCEPT ![r] = x]
          BY <1>2, <2>2, <3>2, <3>5, <4>1 DEF Lookup
        <4>3. ReaderOK(x)
          BY <1>2, <3>1, <4>1, FoundOK
        <4>4. QED
          BY <4>2, <4>3
      <3>6. CASE k.kind = "file"
        <4>1. PICK x : x = [q EXCEPT !.pc = "read_file"]
          OBVIOUS
        <4>2. reader' = [reader EXCEPT ![r] = x]
          BY <1>2, <2>2, <3>2, <3>6, <4>1 DEF Lookup
        <4>3. ReaderOK(x)
          BY <1>2, <3>1, <4>1, FoundOK
        <4>4. QED
          BY <4>2, <4>3
      <3>7. QED
        BY <3>3, <3>4, <3>5, <3>6
    <2>3. CASE ReadFile(r)
      <3>1. q.pc = "read_file" /\ q.chunk \in Chunks
        BY <1>2, <2>3, ReadingIs DEF ReadFile, In
      <3>2. file[q.chunk] \in {NoFile} \cup Seq(Nat) /\ FileOK(q.chunk) /\ q \in Readings
        BY <1>2, <3>1, ReadingIs DEF Inv, DiskOK, CacheOK, FilesOK
      <3>3. CASE file[q.chunk] = NoFile
        <4>1. reader' = [reader EXCEPT ![r] = [q EXCEPT !.pc = "download"]]
          BY <1>2, <2>3, <3>3 DEF ReadFile
        <4>2. QED
          BY <1>2, <3>1, <4>1, FoundOK
      <3>4. CASE file[q.chunk] # NoFile
        <4>1. CASE Incomplete(q.chunk)
          <5>1. PICK x : x = [q EXCEPT !.pc = "found", !.data = file[q.chunk], !.torn = TRUE]
            OBVIOUS
          <5>2. reader' = [reader EXCEPT ![r] = x]
            BY <1>2, <2>3, <3>4, <4>1, <5>1 DEF ReadFile
          <5>3. file[q.chunk] \in Seq(Nat)
            BY <3>2, <3>4
          <5>4. ReaderOK(x)
            BY <1>2, <3>1, <5>1, <5>3, TornOK
          <5>5. QED
            BY <5>2, <5>4
        <4>2. CASE ~ Incomplete(q.chunk)
          <5>1. file[q.chunk] = ChunkData(q.chunk)
            BY <3>2, <3>4, <4>2 DEF FileOK
          <5>2. PICK d, x : /\ d = file[q.chunk]
                            /\ x = [q EXCEPT !.pc = "found", !.data = d, !.torn = q.torn]
            OBVIOUS
          <5>3. reader' = [reader EXCEPT ![r] = x]
            BY <1>2, <2>3, <3>4, <4>2, <5>2 DEF ReadFile
          <5>4. x = [q EXCEPT !.pc = "found", !.data = ChunkData(q.chunk)]
            <6>1. x = [q EXCEPT !.pc = "found", !.data = d]
              BY <3>2, <5>2 DEF Readings
            <6>2. QED
              BY <5>1, <5>2, <6>1
          <5>5. ReaderOK(x)
            BY <1>2, <3>1, <5>4, FoundOK
          <5>6. QED
            BY <5>3, <5>5
        <4>3. QED
          BY <4>1, <4>2
      <3>5. QED
        BY <3>3, <3>4
    <2>4. CASE Download(r)
      <3>1. q.pc = "download"
        BY <1>2, <2>4 DEF Download, In
      <3>2. reader' = [reader EXCEPT ![r] = [q EXCEPT !.pc = "insert", !.data = ChunkData(q.chunk)]]
        BY <1>2, <2>4 DEF Download
      <3>3. QED
        BY <1>2, <3>1, <3>2, FoundOK
    <2>5. CASE Found(r)
      <3>1. q.pc = "found"
        BY <1>2, <2>5 DEF Found, In
      <3>2. PICK pc : pc = IF q.batch # <<>> THEN "fetch" ELSE "append"
        OBVIOUS
      <3>3. reader' = [reader EXCEPT ![r] = [q EXCEPT !.pc = pc]]
        BY <1>2, <2>5, <3>2 DEF Found
      <3>4. QED
        BY <1>2, <3>1, <3>2, <3>3, FoundStepOK
    <2>6. CASE FetchBatch(r)
      <3>1. q.pc = "fetch"
        BY <1>2, <2>6 DEF FetchBatch, In
      <3>2. PICK data : data = Upstream(q.batch[1] * min_fetch_size, (Last(q.batch) + 1) * min_fetch_size)
        OBVIOUS
      <3>3. PICK x : x = [q EXCEPT !.pc = "cache_batch", !.rest = data, !.result = @ \o data]
        OBVIOUS
      <3>4. reader' = [reader EXCEPT ![r] = x]
        BY <1>2, <2>6, <3>2, <3>3 DEF FetchBatch
      <3>5. ReaderOK(x)
        BY <1>2, <3>1, <3>2, <3>3, FetchOK
      <3>6. QED
        BY <3>4, <3>5
    <2>7. CASE AppendChunk(r)
      <3>1. q.pc = "append"
        BY <1>2, <2>7 DEF AppendChunk, In
      <3>2. PICK all : all = q.result \o q.data
        OBVIOUS
      <3>3. PICK x :
              x = IF q.chunk < EndChunk(q.range)
                  THEN [q EXCEPT !.pc = "lookup", !.chunk = @ + 1, !.data = <<>>, !.result = all]
                  ELSE [q EXCEPT !.pc = "return", !.data = <<>>, !.rest = <<>>,
                          !.result = Trim(all, q.range[1] - ChunkOf(q.range[1]) * min_fetch_size,
                                          q.range[2] - q.range[1])]
        OBVIOUS
      <3>4. reader' = [reader EXCEPT ![r] = x]
        BY <1>2, <2>7, <3>2, <3>3 DEF AppendChunk
      <3>5. ReaderOK(x)
        BY <1>2, <3>1, <3>2, <3>3, AppendOK
      <3>6. QED
        BY <3>4, <3>5
    <2>8. CASE Return(r) \/ FetchFails(r)
      BY <2>8, DoneOK DEF Return, FetchFails
    <2>9. QED
      BY <2>1, <2>2, <2>3, <2>4, <2>5, <2>6, <2>7, <2>8
  <1>4. ReadersOK'
    BY <1>3, ReadersStep DEF Inv
  <1>5. QED
    BY <1>1, <1>4

\* Every step of a reader.
LEMMA ReadOK ==
    ASSUME ParametersOK, Inv, NEW r \in Readers, Read(r)
    PROVE  Inv'
  <1>1. PICK q : q = reader[r] /\ ReaderOK(q)
    BY DEF Inv, ReadersOK
  <1>2. CASE InsertDownloaded(r)
    <2>1. q.pc = "insert" /\ q.chunk \in Chunks
      BY <1>1, <1>2, ReadingIs DEF InsertDownloaded, In
    <2>2. q.data = ChunkData(q.chunk)
      BY <1>1, <2>1 DEF ReaderOK
    <2>3. CacheChunkData(q.chunk, q.data)
      BY <1>1, <1>2 DEF InsertDownloaded
    <2>4. DiskOK'
      BY <2>1, <2>2, <2>3, CacheChunkOK DEF Inv
    <2>5. reader' = [reader EXCEPT ![r] = [q EXCEPT !.pc = "found"]]
      BY <1>1, <1>2 DEF InsertDownloaded
    <2>6. ReadersOK'
      BY <1>1, <2>1, <2>5, InsertedOK, ReadersStep DEF Inv
    <2>7. QED
      BY <2>4, <2>6 DEF Inv
  <1>3. CASE CacheBatch(r)
    <2>1. q.pc = "cache_batch"
      BY <1>1, <1>3 DEF CacheBatch, In
    <2>2. PICK rest, pc :
            /\ rest = (IF Len(q.rest) < min_fetch_size THEN q.rest
                       ELSE SubSeq(q.rest, SplitLength(q.rest) + 1, Len(q.rest)))
            /\ pc = IF Len(q.batch) > 1 THEN "cache_batch" ELSE "append"
      OBVIOUS
    <2>3. PICK x : x = [q EXCEPT !.batch = Tail(@), !.rest = rest, !.pc = pc]
      OBVIOUS
    <2>4. /\ ReaderOK(x) /\ q.batch[1] \in Chunks
          /\ SubSeq(q.rest, 1, SplitLength(q.rest)) = ChunkData(q.batch[1])
      BY <1>1, <2>1, <2>2, <2>3, CacheBatchOK
    <2>5. CacheChunkData(q.batch[1], SubSeq(q.rest, 1, SplitLength(q.rest)))
      BY <1>1, <1>3 DEF CacheBatch
    <2>6. DiskOK'
      BY <2>4, <2>5, CacheChunkOK DEF Inv
    <2>7. reader' = [reader EXCEPT ![r] = x]
      BY <1>1, <1>3, <2>2, <2>3 DEF CacheBatch
    <2>8. ReadersOK'
      BY <2>4, <2>7, ReadersStep DEF Inv
    <2>9. QED
      BY <2>6, <2>8 DEF Inv
  <1>4. CASE \/ \E range \in Ranges : GetRange(r, range)
             \/ Lookup(r) \/ ReadFile(r) \/ Download(r) \/ Found(r)
             \/ FetchBatch(r) \/ AppendChunk(r) \/ Return(r) \/ FetchFails(r)
    <2>1. ReadersOK' /\ UNCHANGED cacheVars
      BY <1>4, QuietReadOK
    <2>2. DiskOK'
      BY <2>1 DEF Inv, DiskOK, CacheOK, FilesOK, FileOK, Incomplete, FilesTracked, Tracked, Tended, cacheVars
    <2>3. QED
      BY <2>1, <2>2 DEF Inv
  <1>5. QED
    BY <1>2, <1>3, <1>4 DEF Read

\* The invariant holds at the start.
LEMMA InvInit ==
    ASSUME ParametersOK, Init
    PROVE  Inv
  <1>1. CacheOK
    <2>1. <<>> \in Seq(Nat) /\ <<>> \in Seq(Writing)
      BY EmptySeq
    <2>2. NoEntry \in Entries /\ NoEntry.kind = "none"
      BY <2>1 DEF Entries, NoEntry
    <2>3. /\ cache = [c \in Chunks |-> NoEntry] /\ lock = [c \in Chunks |-> FALSE]
          /\ file = [c \in Chunks |-> NoFile] /\ tasks = <<>>
      BY DEF Init
    <2>4. QED
      BY <2>1, <2>2, <2>3 DEF CacheOK
  <1>2. ReadersOK
    BY DoneOK DEF Init, ReadersOK
  <1>3. FilesOK /\ FilesTracked
    BY DEF Init, FilesOK, FileOK, FilesTracked, Tracked
  <1>4. QED
    BY <1>1, <1>2, <1>3 DEF Inv, DiskOK

\* Every step keeps the invariant.
LEMMA InvNext ==
    ASSUME ParametersOK, Inv, [Next]_vars
    PROVE  Inv'
  <1>1. CASE \E r \in Readers : Read(r)
    BY <1>1, ReadOK
  <1>2. ASSUME NEW t \in DOMAIN tasks, Task(t)
        PROVE  Inv'
    <2>1. DiskOK' /\ reader' = reader
      BY <1>2, TaskOK DEF Inv
    <2>2. QED
      BY <2>1 DEF Inv, ReadersOK
  <1>3. ASSUME NEW c \in Chunks, Evict(c) \/ on_evict(c) \/ RemoveFails(c)
        PROVE  Inv'
    <2>1. DiskOK' /\ reader' = reader
      BY <1>3, EvictOK DEF Inv
    <2>2. QED
      BY <2>1 DEF Inv, ReadersOK
  <1>4. CASE UNCHANGED vars
    BY <1>4 DEF vars, Inv, DiskOK, CacheOK, ReadersOK, FilesOK, FileOK, Incomplete, FilesTracked, Tracked, Tended
  <1>5. QED
    BY <1>1, <1>2, <1>3, <1>4 DEF Next

\* The invariant of the caching object store: what is cached in memory is the
\* chunk itself, and so is a file that no task is writing and no write of which
\* failed; a read that met only such files has at every step the bytes of the
\* chunks it has passed; and a file has an entry, a listener or a task, or was
\* left by a failed write or removal.
THEOREM CacheInvariance ==
    ASSUME ParametersOK
    PROVE  Spec => []Inv
  <1>1. Init => Inv
    BY InvInit
  <1>2. Inv /\ [Next]_vars => Inv'
    BY InvNext
  <1>3. QED
    BY <1>1, <1>2, PTL DEF Spec

\* get_range returns exactly the bytes that were asked for, whichever of its
\* chunks were in memory, in a file, fetched in a batch or downloaded again,
\* and whatever other readers, tasks and evictions do in between, unless it
\* read a file that was being written or that a failed write had left
\* (cache.rs:49-63, 446-538, 655-683).
THEOREM ReadsExact ==
    ASSUME ParametersOK
    PROVE  Spec => []ReadsAreExact
  <1>1. Inv => ReadsAreExact
    BY DEF Inv, ReadersOK, ReaderOK, ReadsAreExact, In
  <1>2. QED
    BY <1>1, CacheInvariance, PTL

\* No file outlives its chunk's entry: with no task and no listener under way,
\* every file on disk is the file of an entry, or one that a failed write or a
\* failed removal left there (cache.rs:314-344, 540-580).
THEOREM NoFileOrphaned ==
    ASSUME ParametersOK
    PROVE  Spec => []NoOrphanFiles
  <1>1. Inv => NoOrphanFiles
    BY DEF Inv, DiskOK, FilesTracked, Tracked, Tended, NoOrphanFiles
  <1>2. QED
    BY <1>1, CacheInvariance, PTL

=============================================================================
