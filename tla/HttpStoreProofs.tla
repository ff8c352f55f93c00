-------------------------- MODULE HttpStoreProofs ---------------------------
(***************************************************************************)
(* What readers of external tables over HTTP get, for every set of          *)
(* LOCATIONs, sizes of files and of chunks, number of readers and of        *)
(* replacements of the files.                                               *)
(***************************************************************************)
EXTENDS HttpStore, TLAPS, SequenceTheorems

\* The file that is asked for when a LOCATION is read.
Home(l) == FileAt(Url(l))

\* LOCATIONs that only differ in their scheme are the same file: as when both
\* schemes serve the same files, or when no two LOCATIONs differ only so.  The key
\* of a cached chunk leaves the scheme out.
OneFilePerKey ==
    \A l, m \in Location : l.path = m.path /\ l.query = m.query /\ l.escapes = m.escapes
                            => Home(l) = Home(m)

Files == {FileAt(u) : u \in Urls}
Byte == [file : Files, v : Nat, pos : Nat]
Version == [file : Files, v : Nat, size : Nat]
Pcs == {"idle", "head", "head_via_get", "get", "read", "ok", "error", "panic"}
ReaderType == [pc : Pcs, loc : Location, op : Op \cup {"none"}, lo : Nat, hi : Nat, head : Version,
               data : Seq(Byte), from : Nat, size : Nat]

\* Bytes of the file that is asked for by l.
OfFile(data, l) == data \in Seq(Byte) /\ \A i \in DOMAIN data : data[i].file = Home(l)

HttpType ==
    /\ server \in Servers /\ changes \in Nat
    /\ content \in [Urls -> Version] /\ request \in [Reader -> ReaderType]
    /\ \A u \in Urls : content[u].file = FileAt(u)

CacheOfFiles == \A l \in Location, k \in Nat :
                    CacheKey(l, k) \in DOMAIN cached => OfFile(cached[CacheKey(l, k)], l)
ReadersOfFiles == \A r \in Reader : /\ OfFile(request[r].data, request[r].loc)
                                    /\ request[r].pc = "get" => request[r].lo <= request[r].hi

FilesInv == HttpType /\ CacheOfFiles /\ ReadersOfFiles

----------------------------------------------------------------------------
\* Chunk k of a version of a file.
ChunkOf(c, k) == Bytes(c, k * ChunkSize, Min({(k + 1) * ChunkSize, c.size}))

\* One file behind several URLs is replaced behind all of them, by a version that
\* nobody has seen.
OneVersion ==
    /\ \A u, w \in Urls : FileAt(u) = FileAt(w) => content[u] = content[w]
    /\ \A u \in Urls : content[u].v <= changes

\* A cached chunk is of one of the n versions that were served, and of the one that
\* is served now it is the whole chunk.
CachedChunk(l, k, d, files, n) ==
    /\ d # <<>> /\ d[1].v <= n
    /\ d[1].v = files[Url(l)].v => d = ChunkOf(files[Url(l)], k)

CacheExact == \A l \in Location, k \in Nat :
                 CacheKey(l, k) \in DOMAIN cached =>
                    CachedChunk(l, k, cached[CacheKey(l, k)], content, changes)

\* The version HEAD has told a reader is the one served now or an older one, and
\* the cached chunks of that version are whole chunks of it.
VersionKnown(m, files, n) ==
    /\ m.head.file = Home(m.loc) /\ m.head.v <= n /\ m.size = m.head.size
    /\ m.head.v = files[Url(m.loc)].v => m.head = files[Url(m.loc)]
ChunksKnown(m, chunks) ==
    \A k \in Nat :
       CacheKey(m.loc, k) \in DOMAIN chunks /\ chunks[CacheKey(m.loc, k)][1].v = m.head.v
       => chunks[CacheKey(m.loc, k)] = ChunkOf(m.head, k)

\* So far: the chunks before lo, or a byte of another version that stays.
ReadSoFar(m) ==
    /\ m.lo * ChunkSize <= m.size /\ (m.size > 0 => m.lo * ChunkSize < m.size)
    /\ \/ m.data = Bytes(m.head, 0, m.lo * ChunkSize)
       \/ \E i \in DOMAIN m.data : i <= m.size /\ m.data[i].v # m.head.v

\* The whole version, or a byte of another one.
ReadDone(m) == m.op \in {"scan", "get"} =>
                  \/ m.data = Bytes(m.head, 0, m.head.size)
                  \/ \E i \in DOMAIN m.data : m.data[i].v # m.head.v

ReaderExact(m, chunks, files, n) ==
    /\ m.pc \in {"head", "head_via_get"} => m.lo = 0 /\ m.data = <<>>
    /\ m.pc = "read" => VersionKnown(m, files, n) /\ ChunksKnown(m, chunks) /\ ReadSoFar(m)
    /\ m.pc = "ok" => ReadDone(m)

ReadersExact == \A r \in Reader : ReaderExact(request[r], cached, content, changes)

ExactInv == OneVersion /\ CacheExact /\ ReadersExact

----------------------------------------------------------------------------
(* URLs, keys and bytes                                                     *)

\* What is asked for: the LOCATION with a layer of its escapes taken away.
LEMMA UrlIs ==
    ASSUME HttpParametersOK, NEW l \in Location
    PROVE  /\ Url(l) = [scheme |-> l.scheme, path |-> l.path, query |-> l.query,
                       escapes |-> IF l.escapes > 0 THEN l.escapes - 1 ELSE 0]
           /\ l.escapes = 0 => Url(l) = l
  <1>1. PICK n \in Nat : n = l.escapes
    BY DEF HttpParametersOK
  <1>2. PICK p : p = [scheme |-> l.scheme, path |-> l.path, query |-> l.query, escapes |-> n]
    OBVIOUS
  <1>3. try_prepare_http_url(l) = [scheme |-> l.scheme, path |-> l.path, query |-> l.query, escapes |-> n + 1]
    BY <1>1 DEF try_prepare_http_url
  <1>4. from_url_path(try_prepare_http_url(l)) = p
    BY <1>2, <1>3 DEF from_url_path, Decode
  <1>5. Url(l) = [scheme |-> l.scheme, path |-> l.path, query |-> l.query,
                  escapes |-> IF n > 0 THEN n - 1 ELSE 0]
    BY <1>2, <1>4 DEF Url, get_uri, Decode
  <1>6. l = p
    BY <1>1, <1>2 DEF HttpParametersOK
  <1>7. QED
    BY <1>1, <1>2, <1>5, <1>6

LEMMA UrlOfLocation ==
    ASSUME HttpParametersOK, NEW l \in Location
    PROVE  Url(l) \in Urls /\ FileAt(Url(l)) = Home(l) /\ Home(l) \in Files
  <1>1. PICK e : Url(l) = [scheme |-> l.scheme, path |-> l.path, query |-> l.query, escapes |-> e]
    BY UrlIs
  <1>2. e \in Escapes /\ l.query \in Queries /\ l.scheme \in {"http", "https"}
    <2>1. Url(l).escapes = e
      BY <1>1
    <2>2. QED
      BY <2>1 DEF Escapes, Queries, HttpParametersOK
  <1>3. Url(l) \in Urls
    BY <1>1, <1>2 DEF Urls
  <1>4. QED
    BY <1>3 DEF Files, Home

\* Two LOCATIONs share a key only if they are the same file.
LEMMA SameKey ==
    ASSUME HttpParametersOK, OneFilePerKey, NEW l \in Location, NEW m \in Location, NEW k, NEW n,
           CacheKey(l, k) = CacheKey(m, n)
    PROVE  k = n /\ Home(l) = Home(m)
  <1>1. ASSUME NEW o \in Location, NEW j
        PROVE  /\ CacheKey(o, j).path = o.path /\ CacheKey(o, j).query = o.query
               /\ CacheKey(o, j).escapes = o.escapes /\ CacheKey(o, j).chunk = j
    <2>1. PICK e \in Nat : e = o.escapes
      BY DEF HttpParametersOK
    <2>2. e + 1 > 0 /\ e + 1 - 1 = e
      OBVIOUS
    <2>3. QED
      BY <2>1, <2>2 DEF CacheKey, try_prepare_http_url, from_url_path, Decode
  <1>2. l.path = m.path /\ l.query = m.query /\ l.escapes = m.escapes /\ k = n
    BY <1>1
  <1>3. QED
    BY <1>2 DEF OneFilePerKey

LEMMA MinPair ==
    ASSUME NEW a \in Nat, NEW b \in Nat
    PROVE  Min({a, b}) = IF a <= b THEN a ELSE b
  <1>1. \A x \in {a, b} : (\A y \in {a, b} : x <= y) => x = IF a <= b THEN a ELSE b
    OBVIOUS
  <1>2. \E x \in {a, b} : \A y \in {a, b} : x <= y
    OBVIOUS
  <1>3. QED
    BY <1>1, <1>2 DEF Min

LEMMA BytesFacts ==
    ASSUME NEW c \in Version, NEW a \in Nat, NEW b \in Nat, a <= b
    PROVE  /\ Bytes(c, a, b) \in Seq(Byte) /\ Len(Bytes(c, a, b)) = b - a
           /\ \A i \in 1..(b - a) : Bytes(c, a, b)[i] = [file |-> c.file, v |-> c.v, pos |-> a + i - 1]
           /\ \A i \in DOMAIN Bytes(c, a, b) : Bytes(c, a, b)[i].file = c.file /\ Bytes(c, a, b)[i].v = c.v
  <1>1. b - a \in Nat
    OBVIOUS
  <1>2. ASSUME NEW i \in 1..(b - a)
        PROVE  /\ Bytes(c, a, b)[i] = [file |-> c.file, v |-> c.v, pos |-> a + i - 1]
               /\ Bytes(c, a, b)[i] \in Byte
    <2>1. a + i - 1 \in Nat
      OBVIOUS
    <2>2. Bytes(c, a, b)[i] = [file |-> c.file, v |-> c.v, pos |-> a + i - 1]
      BY DEF Bytes
    <2>3. QED
      BY <2>1, <2>2 DEF Byte, Version
  <1>3. Bytes(c, a, b) \in [1..(b - a) -> Byte]
    BY <1>2 DEF Bytes
  <1>4. PICK n, d : n = b - a /\ d = Bytes(c, a, b) /\ n \in Nat /\ d \in [1..n -> Byte]
    BY <1>1, <1>3
  <1>5. d \in Seq(Byte) /\ Len(d) = n /\ DOMAIN d = 1..n
    BY <1>4
  <1>6. QED
    BY <1>2, <1>4, <1>5

\* Adjacent bytes of one version.
LEMMA BytesJoin ==
    ASSUME NEW c \in Version, NEW a \in Nat, NEW b \in Nat, a <= b
    PROVE  Bytes(c, 0, a) \o Bytes(c, a, b) = Bytes(c, 0, b)
  <1>1. PICK p, q, w : p = Bytes(c, 0, a) /\ q = Bytes(c, a, b) /\ w = Bytes(c, 0, b)
    OBVIOUS
  <1>2. /\ p \in Seq(Byte) /\ Len(p) = a
        /\ \A i \in 1..a : p[i] = [file |-> c.file, v |-> c.v, pos |-> i - 1]
    <2>1. 0 \in Nat /\ 0 <= a
      OBVIOUS
    <2>2. /\ Bytes(c, 0, a) \in Seq(Byte) /\ Len(Bytes(c, 0, a)) = a - 0
          /\ \A i \in 1..(a - 0) :
                Bytes(c, 0, a)[i] = [file |-> c.file, v |-> c.v, pos |-> 0 + i - 1]
      BY <2>1, BytesFacts
    <2>3. a - 0 = a /\ \A i \in 1..a : 0 + i - 1 = i - 1
      OBVIOUS
    <2>4. QED
      BY <1>1, <2>2, <2>3
  <1>3. /\ q \in Seq(Byte) /\ Len(q) = b - a
        /\ \A i \in 1..(b - a) : q[i] = [file |-> c.file, v |-> c.v, pos |-> a + i - 1]
    BY <1>1, BytesFacts
  <1>4. /\ w \in Seq(Byte) /\ Len(w) = b
        /\ \A i \in 1..b : w[i] = [file |-> c.file, v |-> c.v, pos |-> i - 1]
    <2>1. 0 \in Nat /\ 0 <= b
      OBVIOUS
    <2>2. /\ Bytes(c, 0, b) \in Seq(Byte) /\ Len(Bytes(c, 0, b)) = b - 0
          /\ \A i \in 1..(b - 0) :
                Bytes(c, 0, b)[i] = [file |-> c.file, v |-> c.v, pos |-> 0 + i - 1]
      BY <2>1, BytesFacts
    <2>3. b - 0 = b /\ \A i \in 1..b : 0 + i - 1 = i - 1
      OBVIOUS
    <2>4. QED
      BY <1>1, <2>2, <2>3
  <1>5. PICK s : s = p \o q
    OBVIOUS
  <1>6. /\ s \in Seq(Byte) /\ Len(s) = b
        /\ \A i \in 1..b : s[i] = IF i <= a THEN p[i] ELSE q[i - a]
    <2>1. p \in Seq(Byte) /\ q \in Seq(Byte)
      BY <1>2, <1>3
    <2>2. /\ s \in Seq(Byte) /\ Len(s) = Len(p) + Len(q)
          /\ \A i \in 1..(Len(p) + Len(q)) : s[i] = IF i <= Len(p) THEN p[i] ELSE q[i - Len(p)]
      BY <1>5, <2>1
    <2>3. Len(p) = a /\ Len(p) + Len(q) = b
      BY <1>2, <1>3
    <2>4. QED
      BY <2>2, <2>3
  <1>7. ASSUME NEW i \in 1..b
        PROVE  s[i] = w[i]
    <2>1. CASE i <= a
      <3>1. i \in 1..a
        BY <2>1
      <3>2. s[i] = p[i] /\ p[i] = [file |-> c.file, v |-> c.v, pos |-> i - 1]
        BY <1>2, <1>6, <2>1, <3>1
      <3>3. QED
        BY <1>4, <3>2
    <2>2. CASE ~(i <= a)
      <3>1. i - a \in 1..(b - a) /\ a + (i - a) - 1 = i - 1
        BY <2>2
      <3>2. q[i - a] = [file |-> c.file, v |-> c.v, pos |-> i - 1]
        BY <1>3, <3>1
      <3>3. QED
        BY <1>4, <1>6, <2>2, <3>2
    <2>3. QED
      BY <2>1, <2>2
  <1>8. s = w
    BY <1>4, <1>6, <1>7, SeqEqual
  <1>9. QED
    BY <1>1, <1>5, <1>8

\* Bytes of a file and more bytes of it, cut or not.
LEMMA OfFileJoin ==
    ASSUME NEW l, NEW p, NEW q, OfFile(p, l), OfFile(q, l)
    PROVE  /\ OfFile(p \o q, l) /\ Len(p \o q) = Len(p) + Len(q)
           /\ \A i \in 1..Len(p) : (p \o q)[i] = p[i]
           /\ \A i \in 1..Len(q) : (p \o q)[Len(p) + i] = q[i]
           /\ \A e \in 0..Len(p \o q) :
                 /\ OfFile(SubSeq(p \o q, 1, e), l)
                 /\ Len(SubSeq(p \o q, 1, e)) = e
                 /\ \A i \in 1..e : SubSeq(p \o q, 1, e)[i] = (p \o q)[i]
  <1>1. p \in Seq(Byte) /\ q \in Seq(Byte)
    BY DEF OfFile
  <1>2. PICK s : s = p \o q
    OBVIOUS
  <1>3. /\ s \in Seq(Byte) /\ Len(s) = Len(p) + Len(q)
        /\ \A i \in 1..(Len(p) + Len(q)) : s[i] = IF i <= Len(p) THEN p[i] ELSE q[i - Len(p)]
    BY <1>1, <1>2
  <1>4. Len(p) \in Nat /\ Len(q) \in Nat /\ DOMAIN p = 1..Len(p) /\ DOMAIN q = 1..Len(q)
    BY <1>1
  <1>5. \A i \in 1..Len(p) : s[i] = p[i]
    BY <1>3, <1>4
  <1>6. \A i \in 1..Len(q) : s[Len(p) + i] = q[i]
    <2>1. TAKE i \in 1..Len(q)
    <2>2. Len(p) + i \in 1..(Len(p) + Len(q)) /\ ~(Len(p) + i <= Len(p)) /\ Len(p) + i - Len(p) = i
      BY <1>4
    <2>3. QED
      BY <1>3, <2>2
  <1>7. \A i \in 1..Len(s) : s[i].file = Home(l)
    <2>1. TAKE i \in 1..Len(s)
    <2>2. CASE i <= Len(p)
      <3>1. i \in DOMAIN p
        BY <1>3, <1>4, <2>2
      <3>2. QED
        BY <1>4, <1>5, <3>1 DEF OfFile
    <2>3. CASE ~(i <= Len(p))
      <3>1. i - Len(p) \in DOMAIN q /\ i \in 1..(Len(p) + Len(q))
        BY <1>3, <1>4, <2>3
      <3>2. s[i] = q[i - Len(p)]
        BY <1>3, <2>3, <3>1
      <3>3. QED
        BY <3>1, <3>2 DEF OfFile
    <2>4. QED
      BY <2>2, <2>3
  <1>8. DOMAIN s = 1..Len(s) /\ Len(s) \in Nat
    BY <1>3
  <1>9. OfFile(s, l)
    BY <1>3, <1>7, <1>8 DEF OfFile
  <1>10. ASSUME NEW e \in 0..Len(s)
         PROVE  /\ OfFile(SubSeq(s, 1, e), l) /\ Len(SubSeq(s, 1, e)) = e
                /\ \A i \in 1..e : SubSeq(s, 1, e)[i] = s[i]
    <2>1. PICK t : t = SubSeq(s, 1, e)
      OBVIOUS
    <2>2. t \in Seq(Byte) /\ Len(t) = e /\ DOMAIN t = 1..e /\ \A i \in 1..e : t[i] = s[i]
      BY <1>3, <1>8, <2>1
    <2>3. \A i \in DOMAIN t : t[i].file = Home(l)
      BY <1>7, <1>8, <2>2
    <2>4. QED
      BY <2>1, <2>2, <2>3 DEF OfFile
  <1>11. QED
    BY <1>2, <1>3, <1>5, <1>6, <1>9, <1>10

----------------------------------------------------------------------------
(* Bytes are of the file asked for                                          *)

LEMMA ReaderFacts ==
    ASSUME HttpParametersOK, HttpType, NEW r \in Reader
    PROVE  /\ request[r] \in ReaderType /\ request[r].loc \in Location
           /\ request[r].lo \in Nat /\ request[r].hi \in Nat /\ request[r].size \in Nat
           /\ request[r].head \in Version /\ request[r].data \in Seq(Byte)
           /\ ServedFile(r) \in Version /\ ServedFile(r).file = Home(request[r].loc)
           /\ ServedFile(r).size \in Nat /\ server \in ServerKind
  <1>1. request[r] \in ReaderType
    BY DEF HttpType
  <1>2. /\ request[r].loc \in Location /\ request[r].lo \in Nat /\ request[r].hi \in Nat
        /\ request[r].size \in Nat /\ request[r].head \in Version /\ request[r].data \in Seq(Byte)
    BY <1>1 DEF ReaderType
  <1>3. Url(request[r].loc) \in Urls /\ FileAt(Url(request[r].loc)) = Home(request[r].loc)
    BY <1>2, UrlOfLocation
  <1>4. ServedFile(r) \in Version /\ ServedFile(r).file = Home(request[r].loc)
    BY <1>3 DEF HttpType, ServedFile
  <1>5. ServedFile(r).size \in Nat
    BY <1>4 DEF Version
  <1>6. server \in ServerKind
    BY DEF HttpType, HttpParametersOK
  <1>7. QED
    BY <1>1, <1>2, <1>4, <1>5, <1>6

\* An answer that is taken has the bytes it says, and unless the server moves
\* ranges, those asked for.
LEMMA RangedFacts ==
    ASSUME NEW c \in Version, NEW lo \in Nat, NEW hi \in Nat, lo <= hi,
           Ranged(c, lo, hi).status = 206
    PROVE  /\ Ranged(c, lo, hi).from \in Nat /\ Ranged(c, lo, hi).to \in Nat
           /\ Ranged(c, lo, hi).from <= Ranged(c, lo, hi).to
           /\ lo < c.size /\ Ranged(c, lo, hi).to = Min({hi, c.size})
           /\ server.ranges # "moved" => Ranged(c, lo, hi).from = lo
  <1>1. c.size \in Nat
    BY DEF Version
  <1>2. server.ranges # "ignored" /\ ~(lo >= c.size)
    BY DEF Ranged
  <1>3. Ranged(c, lo, hi) = [status |-> 206, from |-> IF server.ranges = "moved" THEN 0 ELSE lo,
                             to |-> Min({hi, c.size})]
    BY <1>2 DEF Ranged
  <1>4. Min({hi, c.size}) = IF hi <= c.size THEN hi ELSE c.size
    BY <1>1, MinPair
  <1>5. QED
    BY <1>1, <1>2, <1>3, <1>4

LEMMA FirstByte ==
    ASSUME NEW c \in Version, NEW a \in Nat, NEW b \in Nat, a < b
    PROVE  Bytes(c, a, b) # <<>> /\ Bytes(c, a, b)[1].v = c.v
  <1>1. a <= b /\ 1 \in 1..(b - a)
    OBVIOUS
  <1>2. /\ Bytes(c, a, b) \in Seq(Byte) /\ Len(Bytes(c, a, b)) = b - a
        /\ Bytes(c, a, b)[1] = [file |-> c.file, v |-> c.v, pos |-> a + 1 - 1]
    BY <1>1, BytesFacts
  <1>3. QED
    BY <1>1, <1>2

LEMMA BytesOfFile ==
    ASSUME NEW c \in Version, NEW l, c.file = Home(l), NEW a \in Nat, NEW b \in Nat, a <= b
    PROVE  OfFile(Bytes(c, a, b), l)
  BY BytesFacts DEF OfFile

\* What a chunk d in place k makes of a reader m.
AfterChunk(m, k, d, u) ==
    LET e == Min({(k + 1) * ChunkSize, m.size})
        got == m.data \o d
    IN  /\ u.loc = m.loc /\ u.op = m.op /\ u.head = m.head /\ u.size = m.size /\ u.lo = k + 1
        /\ u.pc = IF e = m.size THEN "ok" ELSE "read"
        /\ u.data = IF e = m.size /\ Len(got) > e THEN SubSeq(got, 1, e) ELSE got

LEMMA ChunkFacts ==
    ASSUME HttpParametersOK, HttpType, ReadersOfFiles, NEW r \in Reader, NEW k \in Nat, NEW d,
           OfFile(d, request[r].loc)
    PROVE  LET u == Chunk(r, k, d)
           IN  u \in ReaderType /\ OfFile(u.data, u.loc) /\ AfterChunk(request[r], k, d, u)
  <1>1. PICK m, e, got : /\ m = request[r] /\ e = Min({(k + 1) * ChunkSize, m.size})
                         /\ got = m.data \o d
    OBVIOUS
  <1>2. m \in ReaderType /\ m.size \in Nat /\ OfFile(m.data, m.loc)
    BY <1>1, ReaderFacts DEF ReadersOfFiles
  <1>3. (k + 1) * ChunkSize \in Nat
    BY DEF HttpParametersOK
  <1>4. e \in Nat
    BY <1>1, <1>2, <1>3, MinPair
  <1>5. OfFile(got, m.loc) /\ \A n \in 0..Len(got) : OfFile(SubSeq(got, 1, n), m.loc)
    BY <1>1, <1>2, OfFileJoin
  <1>6. PICK data : data = IF e = m.size /\ Len(got) > e THEN SubSeq(got, 1, e) ELSE got
    OBVIOUS
  <1>7. OfFile(data, m.loc)
    <2>1. got \in Seq(Byte)
      BY <1>5 DEF OfFile
    <2>2. Len(got) \in Nat
      BY <2>1
    <2>3. Len(got) > e => e \in 0..Len(got)
      BY <1>4, <2>2
    <2>4. QED
      BY <1>5, <1>6, <2>3
  <1>8. PICK pc : pc = IF e = m.size THEN "ok" ELSE "read"
    OBVIOUS
  <1>9. PICK u : u = [m EXCEPT !.data = data, !.lo = k + 1, !.pc = pc]
    OBVIOUS
  <1>10. Chunk(r, k, d) = u
    BY <1>1, <1>6, <1>8, <1>9 DEF Chunk
  <1>11. data \in Seq(Byte) /\ k + 1 \in Nat /\ pc \in {"ok", "read"}
    BY <1>7, <1>8 DEF OfFile
  <1>12. /\ u \in ReaderType /\ u.data = data /\ u.loc = m.loc /\ u.op = m.op
         /\ u.head = m.head /\ u.size = m.size /\ u.lo = k + 1 /\ u.pc = pc
    BY <1>2, <1>9, <1>11 DEF ReaderType, Pcs
  <1>13. QED
    BY <1>1, <1>6, <1>7, <1>8, <1>10, <1>12 DEF AfterChunk

\* A reader moves on, with or without bytes.
LEMMA FilesReader ==
    ASSUME HttpParametersOK, FilesInv, NEW r \in Reader, NEW u \in ReaderType,
           OfFile(u.data, u.loc), u.pc = "get" => u.lo <= u.hi, Step(r, u), CacheOfFiles'
    PROVE  FilesInv'
  <1>1. request' = [request EXCEPT ![r] = u] /\ UNCHANGED <<server, content, changes>>
    BY DEF Step
  <1>2. request \in [Reader -> ReaderType]
    BY DEF FilesInv, HttpType
  <1>3. /\ request' \in [Reader -> ReaderType] /\ request'[r] = u
        /\ \A q \in Reader : q # r => request'[q] = request[q]
    BY <1>1, <1>2
  <1>4. HttpType'
    BY <1>1, <1>3 DEF FilesInv, HttpType
  <1>5. ReadersOfFiles'
    BY <1>3 DEF FilesInv, ReadersOfFiles
  <1>6. QED
    BY <1>4, <1>5 DEF FilesInv

LEMMA CacheKept ==
    ASSUME CacheOfFiles, UNCHANGED cached
    PROVE  CacheOfFiles'
  BY DEF CacheOfFiles

LEMMA PcFacts ==
    ASSUME NEW m \in ReaderType, NEW pc \in Pcs
    PROVE  LET u == [m EXCEPT !.pc = pc]
           IN  /\ u \in ReaderType /\ u.pc = pc /\ u.loc = m.loc /\ u.op = m.op /\ u.lo = m.lo
               /\ u.head = m.head /\ u.data = m.data /\ u.size = m.size
  BY DEF ReaderType

LEMMA IdleFacts ==
    ASSUME HttpParametersOK
    PROVE  Idle \in ReaderType /\ Idle.pc = "idle" /\ OfFile(Idle.data, Idle.loc)
  <1>1. PICK l : l = (CHOOSE k \in Location : TRUE) /\ l \in Location
    BY DEF HttpParametersOK
  <1>2. Idle = [pc |-> "idle", loc |-> l, op |-> "none", lo |-> 0, hi |-> 0,
                head |-> [file |-> Home(l), v |-> 0, size |-> 0], data |-> <<>>, from |-> 0, size |-> 0]
    BY <1>1 DEF Idle, Home
  <1>3. [file |-> Home(l), v |-> 0, size |-> 0] \in Version
    BY <1>1, UrlOfLocation DEF Version
  <1>4. <<>> \in Seq(Byte) /\ "idle" \in Pcs /\ "none" \in Op \cup {"none"} /\ OfFile(<<>>, l)
    BY DEF Pcs, OfFile
  <1>5. QED
    BY <1>1, <1>2, <1>3, <1>4 DEF ReaderType

\* A reader begins with an empty hand.
LEMMA BeginFacts ==
    ASSUME HttpParametersOK, NEW r, Begin(r)
    PROVE  \E u \in ReaderType : /\ Step(r, u) /\ u.data = <<>> /\ OfFile(u.data, u.loc)
                                 /\ u.pc \in {"head", "get", "error"}
                                 /\ u.pc = "head" => u.lo = 0
                                 /\ u.lo <= u.hi
  <1>1. PICK l \in Location, op \in Op, lo \in 0..MaxSize - 1, hi \in 1..MaxSize :
            /\ lo < hi /\ (op # "get_opts" => lo = 0 /\ hi = MaxSize)
            /\ Step(r, [Idle EXCEPT !.loc = l, !.op = op, !.lo = lo, !.hi = hi,
                                    !.pc = CASE op \in {"scan", "list"} -> "head"
                                             [] op \in {"get", "get_opts"} -> "get"
                                             [] op = "write" -> "error"])
    BY DEF Begin
  <1>2. PICK pc : pc = CASE op \in {"scan", "list"} -> "head"
                         [] op \in {"get", "get_opts"} -> "get"
                         [] op = "write" -> "error"
    OBVIOUS
  <1>3. pc \in {"head", "get", "error"} /\ (pc = "head" => op # "get_opts")
    BY <1>2 DEF HttpParametersOK, AllOps
  <1>4. PICK u : u = [Idle EXCEPT !.loc = l, !.op = op, !.lo = lo, !.hi = hi, !.pc = pc]
    OBVIOUS
  <1>5. lo \in Nat /\ hi \in Nat /\ lo <= hi /\ pc \in Pcs /\ op \in Op \cup {"none"}
    BY <1>1, <1>3 DEF HttpParametersOK, Pcs
  <1>6. Idle \in ReaderType /\ Idle.data = <<>>
    BY IdleFacts DEF Idle
  <1>7. u \in ReaderType /\ u.data = <<>> /\ u.pc = pc /\ u.lo = lo /\ u.hi = hi /\ u.op = op
    BY <1>4, <1>5, <1>6 DEF ReaderType
  <1>8. OfFile(u.data, u.loc)
    BY <1>7 DEF OfFile
  <1>9. Step(r, u)
    BY <1>1, <1>2, <1>4
  <1>10. QED
    BY <1>1, <1>3, <1>5, <1>7, <1>8, <1>9

LEMMA FilesInit ==
    ASSUME HttpParametersOK, HttpInit
    PROVE  FilesInv
  <1>1. PICK n \in 0..MaxSize : content = [u \in Urls |-> [file |-> FileAt(u), v |-> 0, size |-> n]]
    BY DEF HttpInit
  <1>2. n \in Nat
    BY DEF HttpParametersOK
  <1>3. content \in [Urls -> Version] /\ \A u \in Urls : content[u].file = FileAt(u)
    BY <1>1, <1>2 DEF Version, Files
  <1>4. server \in Servers /\ changes = 0 /\ request = [r \in Reader |-> Idle] /\ DOMAIN cached = {}
    BY DEF HttpInit
  <1>5. HttpType
    BY <1>3, <1>4, IdleFacts DEF HttpType
  <1>6. CacheOfFiles
    BY <1>4 DEF CacheOfFiles
  <1>7. ReadersOfFiles
    BY <1>4, IdleFacts DEF ReadersOfFiles
  <1>8. QED
    BY <1>5, <1>6, <1>7 DEF FilesInv

LEMMA FilesReplace ==
    ASSUME HttpParametersOK, FilesInv, NEW u \in Urls, Replace(u)
    PROVE  FilesInv'
  <1>1. PICK n \in 0..MaxSize :
            content' = [w \in Urls |-> IF FileAt(w) # FileAt(u) THEN content[w]
                                       ELSE [content[w] EXCEPT !.v = changes + 1, !.size = n]]
    BY DEF Replace
  <1>2. n \in Nat /\ changes + 1 \in Nat /\ changes' = changes + 1 /\ UNCHANGED <<server, cached, request>>
    <2>1. n \in Nat
      BY DEF HttpParametersOK
    <2>2. changes \in Nat
      BY DEF FilesInv, HttpType
    <2>3. changes' = changes + 1 /\ UNCHANGED <<server, cached, request>>
      BY DEF Replace
    <2>4. QED
      BY <2>1, <2>2, <2>3
  <1>3. ASSUME NEW w \in Urls
        PROVE  content'[w] \in Version /\ content'[w].file = FileAt(w)
    <2>1. content[w] \in Version /\ content[w].file = FileAt(w)
      BY DEF FilesInv, HttpType
    <2>2. PICK c : c = [content[w] EXCEPT !.v = changes + 1, !.size = n]
      OBVIOUS
    <2>3. c \in Version /\ c.file = FileAt(w)
      BY <1>2, <2>1, <2>2 DEF Version
    <2>4. content'[w] = IF FileAt(w) # FileAt(u) THEN content[w] ELSE c
      BY <1>1, <2>2
    <2>5. QED
      BY <2>1, <2>3, <2>4
  <1>4. content' \in [Urls -> Version]
    <2>1. DOMAIN content' = Urls /\ content' = [w \in Urls |-> content'[w]]
      BY <1>1
    <2>2. QED
      BY <1>3, <2>1
  <1>5. HttpType'
    BY <1>2, <1>3, <1>4 DEF FilesInv, HttpType
  <1>6. CacheOfFiles' /\ ReadersOfFiles'
    BY <1>2 DEF FilesInv, CacheOfFiles, ReadersOfFiles
  <1>7. QED
    BY <1>5, <1>6 DEF FilesInv

LEMMA FilesEvict ==
    ASSUME FilesInv, NEW k, EvictChunk(k)
    PROVE  FilesInv'
  <1>1. cached' = [x \in DOMAIN cached \ {k} |-> cached[x]] /\ UNCHANGED <<server, content, request, changes>>
    BY DEF EvictChunk, Restrict
  <1>2. DOMAIN cached' \subseteq DOMAIN cached /\ \A x \in DOMAIN cached' : cached'[x] = cached[x]
    BY <1>1
  <1>3. CacheOfFiles'
    BY <1>2 DEF FilesInv, CacheOfFiles
  <1>4. HttpType' /\ ReadersOfFiles'
    BY <1>1 DEF FilesInv, HttpType, ReadersOfFiles
  <1>5. QED
    BY <1>3, <1>4 DEF FilesInv

----------------------------------------------------------------------------
(* What each request brings a reader                                        *)

\* HEAD, or its emulation: the version that is served, and no bytes.
LEMMA HeadFacts ==
    ASSUME HttpParametersOK, HttpType, NEW r \in Reader, HeadRequest(r) \/ HeadViaGet(r)
    PROVE  /\ request[r].pc \in {"head", "head_via_get"} /\ UNCHANGED cached
           /\ \E u \in ReaderType :
                 /\ Step(r, u) /\ u.data = request[r].data /\ u.loc = request[r].loc
                 /\ u.lo = request[r].lo /\ u.op = request[r].op
                 /\ u.pc \in {"read", "ok", "head_via_get", "error", "panic"}
                 /\ u.pc = "ok" => u.op = "list"
                 /\ u.pc = "read" => u.head = ServedFile(r) /\ u.size = ServedFile(r).size
  <1>1. PICK m, c : m = request[r] /\ c = ServedFile(r)
    OBVIOUS
  <1>2. m \in ReaderType /\ c \in Version /\ c.size \in Nat
    BY <1>1, ReaderFacts
  <1>10. PICK p \in {"read", "ok"} : p = AfterHead(m) /\ (p = "ok" => m.op = "list")
    BY DEF AfterHead
  <1>3. PICK got : got = [m EXCEPT !.head = c, !.size = c.size, !.pc = p]
    OBVIOUS
  <1>4. /\ got \in ReaderType /\ got.data = m.data /\ got.loc = m.loc /\ got.lo = m.lo
        /\ got.op = m.op /\ got.pc = p /\ got.head = c /\ got.size = c.size
    BY <1>2, <1>3 DEF ReaderType, Pcs
  <1>5. \A pc \in Pcs : /\ [m EXCEPT !.pc = pc] \in ReaderType /\ [m EXCEPT !.pc = pc].pc = pc
                        /\ [m EXCEPT !.pc = pc].data = m.data /\ [m EXCEPT !.pc = pc].loc = m.loc
                        /\ [m EXCEPT !.pc = pc].lo = m.lo /\ [m EXCEPT !.pc = pc].op = m.op
    BY <1>2, PcFacts
  <1>6. {"head_via_get", "error", "panic"} \subseteq Pcs
    BY DEF Pcs
  <1>7. CASE HeadRequest(r)
    <2>1. m.pc = "head" /\ UNCHANGED cached
      BY <1>1, <1>7 DEF HeadRequest, At
    <2>2. Step(r, got) \/ \E pc \in {"head_via_get", "error"} : Step(r, [m EXCEPT !.pc = pc])
      BY <1>1, <1>3, <1>7, <1>10 DEF HeadRequest
    <2>3. QED
      <3>1. CASE Step(r, got)
        BY <1>1, <1>4, <1>10, <2>1, <3>1
      <3>2. CASE \E pc \in {"head_via_get", "error"} : Step(r, [m EXCEPT !.pc = pc])
        <4>1. PICK pc \in {"head_via_get", "error"} : Step(r, [m EXCEPT !.pc = pc])
          BY <3>2
        <4>2. PICK u : u = [m EXCEPT !.pc = pc]
          OBVIOUS
        <4>3. /\ u \in ReaderType /\ u.pc = pc /\ u.data = m.data /\ u.loc = m.loc
              /\ u.lo = m.lo /\ u.op = m.op
          BY <1>5, <1>6, <4>2
        <4>4. QED
          BY <1>1, <2>1, <4>1, <4>2, <4>3
      <3>3. QED
        BY <2>2, <3>1, <3>2
  <1>8. CASE HeadViaGet(r)
    <2>1. m.pc = "head_via_get" /\ UNCHANGED cached
      BY <1>1, <1>8 DEF HeadViaGet, At
    <2>2. got = [m EXCEPT !.head = c, !.pc = p, !.size = TotalLength(Ranged(c, 0, 1), c)]
      BY <1>2, <1>3 DEF TotalLength, ReaderType
    <2>3. Step(r, got) \/ \E pc \in {"panic", "error"} : Step(r, [m EXCEPT !.pc = pc])
      <3>1. Step(r, IF Ranged(c, 0, 1).status = 206 /\ server.total = "size"
                    THEN [m EXCEPT !.head = c, !.pc = p, !.size = TotalLength(Ranged(c, 0, 1), c)]
                    ELSE [m EXCEPT !.pc = IF Ranged(c, 0, 1).status = 206 /\ server.total = "absent"
                                          THEN "panic" ELSE "error"])
        BY <1>1, <1>8, <1>10 DEF HeadViaGet
      <3>2. QED
        BY <2>2, <3>1
    <2>4. QED
      <3>1. CASE Step(r, got)
        BY <1>1, <1>4, <1>10, <2>1, <3>1
      <3>2. CASE \E pc \in {"panic", "error"} : Step(r, [m EXCEPT !.pc = pc])
        <4>1. PICK pc \in {"panic", "error"} : Step(r, [m EXCEPT !.pc = pc])
          BY <3>2
        <4>2. PICK u : u = [m EXCEPT !.pc = pc]
          OBVIOUS
        <4>3. /\ u \in ReaderType /\ u.pc = pc /\ u.data = m.data /\ u.loc = m.loc
              /\ u.lo = m.lo /\ u.op = m.op
          BY <1>5, <1>6, <4>2
        <4>4. QED
          BY <1>1, <2>1, <4>1, <4>2, <4>3
      <3>3. QED
        BY <2>3, <3>1, <3>2
  <1>9. QED
    BY <1>7, <1>8

\* GET of a whole file, or of a range of it: both pass the cache by.
LEMMA GetFacts ==
    ASSUME HttpParametersOK, FilesInv, NEW r \in Reader, GetOpts(r)
    PROVE  /\ UNCHANGED cached
           /\ \E u \in ReaderType :
                 /\ Step(r, u) /\ OfFile(u.data, u.loc) /\ u.pc \in {"ok", "error"}
                 /\ u.pc = "ok" => \/ u.op = "get_opts"
                                   \/ u.data = Bytes(u.head, 0, u.head.size)
  <1>1. PICK m, c, a : m = request[r] /\ c = ServedFile(r) /\ a = Ranged(c, m.lo, m.hi)
    OBVIOUS
  <1>2. /\ m \in ReaderType /\ c \in Version /\ c.size \in Nat /\ c.file = Home(m.loc)
        /\ m.lo \in Nat /\ m.hi \in Nat
    BY <1>1, ReaderFacts DEF FilesInv
  <1>3. m.pc = "get" /\ m.lo <= m.hi /\ OfFile(m.data, m.loc)
    BY <1>1 DEF GetOpts, At, FilesInv, ReadersOfFiles
  <1>4. CASE /\ m.op = "get"
             /\ Step(r, [m EXCEPT !.pc = "ok", !.head = c, !.size = c.size, !.data = Bytes(c, 0, c.size)])
    <2>1. PICK d : d = Bytes(c, 0, c.size)
      OBVIOUS
    <2>2. OfFile(d, m.loc)
      <3>1. 0 \in Nat /\ 0 <= c.size
        BY <1>2
      <3>2. QED
        BY <1>2, <2>1, <3>1, BytesOfFile
    <2>3. PICK u : u = [m EXCEPT !.pc = "ok", !.head = c, !.size = c.size, !.data = d]
      OBVIOUS
    <2>4. d \in Seq(Byte)
      BY <2>2 DEF OfFile
    <2>5. u \in ReaderType /\ u.pc = "ok" /\ u.head = c /\ u.data = d /\ u.loc = m.loc
      BY <1>2, <2>3, <2>4 DEF ReaderType, Pcs
    <2>6. QED
      BY <1>4, <2>1, <2>2, <2>3, <2>5 DEF GetOpts
  <1>5. CASE /\ m.op = "get_opts" /\ a.status = 206
             /\ Step(r, [m EXCEPT !.pc = "ok", !.head = c, !.size = TotalLength(a, c),
                                  !.from = a.from, !.data = Bytes(c, a.from, a.to)])
    <2>1. a.from \in Nat /\ a.to \in Nat /\ a.from <= a.to
      BY <1>1, <1>2, <1>3, <1>5, RangedFacts
    <2>2. PICK d : d = Bytes(c, a.from, a.to)
      OBVIOUS
    <2>3. OfFile(d, m.loc) /\ d \in Seq(Byte)
      <3>1. OfFile(d, m.loc)
        BY <1>2, <2>1, <2>2, BytesOfFile
      <3>2. QED
        BY <3>1 DEF OfFile
    <2>4. PICK u : u = [m EXCEPT !.pc = "ok", !.head = c, !.size = c.size, !.from = a.from, !.data = d]
      OBVIOUS
    <2>5. u \in ReaderType /\ u.pc = "ok" /\ u.data = d /\ u.loc = m.loc /\ u.op = m.op
      BY <1>2, <2>1, <2>3, <2>4 DEF ReaderType, Pcs
    <2>6. Step(r, u)
      BY <1>5, <2>2, <2>4 DEF TotalLength
    <2>7. QED
      BY <1>5, <2>3, <2>5, <2>6 DEF GetOpts
  <1>6. CASE Step(r, [m EXCEPT !.pc = "error"])
    <2>1. PICK u : u = [m EXCEPT !.pc = "error"]
      OBVIOUS
    <2>2. u \in ReaderType /\ u.pc = "error" /\ u.data = m.data /\ u.loc = m.loc
      BY <1>2, <2>1 DEF ReaderType, Pcs
    <2>3. QED
      BY <1>3, <1>6, <2>1, <2>2 DEF GetOpts
  <1>7. QED
    BY <1>1, <1>4, <1>5, <1>6 DEF GetOpts

\* The bytes of an answer that is taken.
Answer(c, lo, hi) == Bytes(c, Ranged(c, lo, hi).from, Ranged(c, lo, hi).to)

StartsIn(d, c) == d # <<>> /\ d[1].v = c.v

\* They are of the version that is served.
LEMMA AnswerFacts ==
    ASSUME NEW c \in Version, NEW l, c.file = Home(l), NEW lo \in Nat, NEW hi \in Nat, lo < hi,
           Ranged(c, lo, hi).status = 206
    PROVE  /\ OfFile(Answer(c, lo, hi), l)
           /\ server.ranges # "moved" => Answer(c, lo, hi) = Bytes(c, lo, Min({hi, c.size}))
  <1>1. lo <= hi /\ c.size \in Nat
    BY DEF Version
  <1>2. PICK from, to : from = Ranged(c, lo, hi).from /\ to = Ranged(c, lo, hi).to
    OBVIOUS
  <1>3. /\ from \in Nat /\ to \in Nat /\ from <= to /\ lo < c.size
        /\ to = Min({hi, c.size}) /\ (server.ranges # "moved" => from = lo)
    BY <1>1, <1>2, RangedFacts
  <1>4. PICK d : d = Bytes(c, from, to)
    OBVIOUS
  <1>5. OfFile(d, l)
    BY <1>3, <1>4, BytesOfFile
  <1>6. QED
    BY <1>2, <1>3, <1>4, <1>5 DEF Answer

LEMMA AnswerStarts ==
    ASSUME NEW c \in Version, NEW lo \in Nat, NEW hi \in Nat, lo < hi,
           Ranged(c, lo, hi).status = 206, server.ranges # "moved"
    PROVE  StartsIn(Answer(c, lo, hi), c)
  <1>1. lo <= hi /\ c.size \in Nat
    BY DEF Version
  <1>2. PICK from, to : from = Ranged(c, lo, hi).from /\ to = Ranged(c, lo, hi).to
    OBVIOUS
  <1>3. lo < c.size /\ to = Min({hi, c.size}) /\ from = lo
    <2>1. server.ranges # "ignored" /\ ~(lo >= c.size)
      BY DEF Ranged
    <2>2. Ranged(c, lo, hi) = [status |-> 206, from |-> lo, to |-> Min({hi, c.size})]
      BY <2>1 DEF Ranged
    <2>3. QED
      BY <1>1, <1>2, <2>1, <2>2
  <1>4. from \in Nat /\ to \in Nat /\ from < to
    BY <1>1, <1>3, MinPair
  <1>5. Bytes(c, from, to) # <<>> /\ Bytes(c, from, to)[1].v = c.v
    BY <1>4, FirstByte
  <1>6. QED
    BY <1>2, <1>5 DEF Answer, StartsIn

LEMMA ChunkBounds ==
    ASSUME HttpParametersOK, NEW k \in Nat
    PROVE  /\ k * ChunkSize \in Nat /\ (k + 1) * ChunkSize \in Nat
           /\ (k + 1) * ChunkSize = k * ChunkSize + ChunkSize /\ k * ChunkSize < (k + 1) * ChunkSize
  <1>1. ChunkSize \in Nat \ {0}
    BY DEF HttpParametersOK
  <1>2. (k + 1) * ChunkSize = k * ChunkSize + ChunkSize /\ k * ChunkSize \in Nat
    BY <1>1
  <1>3. QED
    BY <1>1, <1>2

LEMMA FetchFacts ==
    ASSUME HttpParametersOK, HttpType, NEW r \in Reader, NEW k \in Nat,
           Ranged(ServedFile(r), k * ChunkSize, (k + 1) * ChunkSize).status = 206
    PROVE  LET d == Answer(ServedFile(r), k * ChunkSize, (k + 1) * ChunkSize)
           IN  /\ OfFile(d, request[r].loc)
               /\ server.ranges # "moved" =>
                     d = ChunkOf(ServedFile(r), k) /\ StartsIn(d, ServedFile(r))
  <1>0. PICK l : l = request[r].loc
    OBVIOUS
  <1>1. PICK c \in Version : c = ServedFile(r)
    BY ReaderFacts
  <1>2. c.file = Home(l)
    BY <1>0, <1>1, ReaderFacts
  <1>3. PICK lo \in Nat, hi \in Nat : lo = k * ChunkSize /\ hi = (k + 1) * ChunkSize /\ lo < hi
    BY ChunkBounds
  <1>4. Ranged(c, lo, hi).status = 206
    BY <1>0, <1>1, <1>3
  <1>5. /\ OfFile(Answer(c, lo, hi), l)
        /\ server.ranges # "moved" => /\ Answer(c, lo, hi) = Bytes(c, lo, Min({hi, c.size}))
                                      /\ StartsIn(Answer(c, lo, hi), c)
    <2>1. lo < hi
      BY <1>3
    <2>2. OfFile(Answer(c, lo, hi), l)
      BY <1>2, <1>4, <2>1, AnswerFacts
    <2>3. server.ranges # "moved" => Answer(c, lo, hi) = Bytes(c, lo, Min({hi, c.size}))
      BY <1>2, <1>4, <2>1, AnswerFacts
    <2>4. server.ranges # "moved" => StartsIn(Answer(c, lo, hi), c)
      BY <1>4, <2>1, AnswerStarts
    <2>5. QED
      BY <2>2, <2>3, <2>4
  <1>6. QED
    BY <1>0, <1>1, <1>3, <1>5 DEF ChunkOf

\* A chunk enters the cache under the key of the LOCATION it was read for.
LEMMA FetchedFacts ==
    ASSUME HttpParametersOK, HttpType, NEW r \in Reader, ReadFetched(r)
    PROVE  LET m == request[r]
               key == CacheKey(m.loc, m.lo)
               d == Answer(ServedFile(r), m.lo * ChunkSize, (m.lo + 1) * ChunkSize)
           IN  /\ m.pc = "read" /\ m.size > 0
               /\ \/ /\ cached' = [x \in DOMAIN cached \cup {key} |-> IF x = key THEN d ELSE cached[x]]
                     /\ Step(r, Chunk(r, m.lo, d)) /\ OfFile(d, m.loc)
                     /\ server.ranges # "moved" => d = ChunkOf(ServedFile(r), m.lo) /\ StartsIn(d, ServedFile(r))
                  \/ Step(r, [m EXCEPT !.pc = "error"]) /\ UNCHANGED cached
  <1>1. PICK k \in Nat : k = request[r].lo
    BY ReaderFacts
  <1>2. PICK a, d, key : /\ a = Ranged(ServedFile(r), k * ChunkSize, (k + 1) * ChunkSize)
                         /\ d = Answer(ServedFile(r), k * ChunkSize, (k + 1) * ChunkSize)
                         /\ key = CacheKey(request[r].loc, k)
    OBVIOUS
  <1>3. d = Bytes(ServedFile(r), a.from, a.to)
    BY <1>2 DEF Answer
  <1>4. /\ request[r].pc = "read" /\ request[r].size > 0
        /\ \/ /\ a.status = 206
              /\ cached' = [x \in DOMAIN cached \cup {key} |-> IF x = key THEN d ELSE cached[x]]
              /\ Step(r, Chunk(r, k, d))
           \/ Step(r, [request[r] EXCEPT !.pc = "error"]) /\ UNCHANGED cached
    BY <1>1, <1>2, <1>3 DEF ReadFetched, At, HttpGetRange
  <1>5. a.status = 206 =>
           /\ OfFile(d, request[r].loc)
           /\ server.ranges # "moved" => d = ChunkOf(ServedFile(r), k) /\ StartsIn(d, ServedFile(r))
    BY <1>2, FetchFacts
  <1>6. QED
    BY <1>1, <1>2, <1>4, <1>5

LEMMA CachedFacts ==
    ASSUME NEW r, ReadCached(r)
    PROVE  LET m == request[r]
               key == CacheKey(m.loc, m.lo)
           IN  /\ m.pc = "read" /\ m.size > 0 /\ key \in DOMAIN cached /\ UNCHANGED cached
               /\ Step(r, Chunk(r, m.lo, cached[key]))
  BY DEF ReadCached, At

LEMMA FilesReadFetched ==
    ASSUME HttpParametersOK, OneFilePerKey, FilesInv, NEW r \in Reader, ReadFetched(r)
    PROVE  FilesInv'
  <1>1. HttpType /\ CacheOfFiles /\ ReadersOfFiles
    BY DEF FilesInv
  <1>2. PICK m, l, k : m = request[r] /\ l = m.loc /\ k = m.lo
    OBVIOUS
  <1>3. m \in ReaderType /\ l \in Location /\ k \in Nat
    BY <1>1, <1>2, ReaderFacts
  <1>4. PICK key, d : /\ key = CacheKey(l, k)
                      /\ d = Answer(ServedFile(r), k * ChunkSize, (k + 1) * ChunkSize)
    OBVIOUS
  <1>5. \/ /\ cached' = [x \in DOMAIN cached \cup {key} |-> IF x = key THEN d ELSE cached[x]]
           /\ Step(r, Chunk(r, k, d)) /\ OfFile(d, l)
        \/ Step(r, [m EXCEPT !.pc = "error"]) /\ UNCHANGED cached
    BY <1>1, <1>2, <1>4, FetchedFacts
  <1>6. CASE /\ cached' = [x \in DOMAIN cached \cup {key} |-> IF x = key THEN d ELSE cached[x]]
             /\ Step(r, Chunk(r, k, d)) /\ OfFile(d, l)
    <2>1. CacheOfFiles'
      <3>1. SUFFICES ASSUME NEW o \in Location, NEW n \in Nat, CacheKey(o, n) \in DOMAIN cached'
                     PROVE  OfFile(cached'[CacheKey(o, n)], o)
        BY DEF CacheOfFiles
      <3>2. CASE CacheKey(o, n) = key
        <4>1. Home(o) = Home(l)
          BY <1>3, <1>4, <3>2, SameKey
        <4>2. cached'[CacheKey(o, n)] = d
          BY <1>6, <3>1, <3>2
        <4>3. QED
          BY <1>6, <4>1, <4>2 DEF OfFile
      <3>3. CASE CacheKey(o, n) # key
        <4>1. CacheKey(o, n) \in DOMAIN cached /\ cached'[CacheKey(o, n)] = cached[CacheKey(o, n)]
          BY <1>6, <3>1, <3>3
        <4>2. QED
          BY <1>1, <4>1 DEF CacheOfFiles
      <3>4. QED
        BY <3>2, <3>3
    <2>2. PICK u : u = Chunk(r, k, d)
      OBVIOUS
    <2>3. u \in ReaderType /\ OfFile(u.data, u.loc) /\ u.pc # "get"
      BY <1>1, <1>2, <1>3, <1>6, <2>2, ChunkFacts DEF AfterChunk
    <2>4. QED
      BY <1>6, <2>1, <2>2, <2>3, FilesReader
  <1>7. CASE Step(r, [m EXCEPT !.pc = "error"]) /\ UNCHANGED cached
    <2>1. PICK u : u = [m EXCEPT !.pc = "error"]
      OBVIOUS
    <2>2. u \in ReaderType /\ OfFile(u.data, u.loc) /\ u.pc # "get"
      <3>1. "error" \in Pcs /\ OfFile(m.data, m.loc)
        BY <1>1, <1>2 DEF Pcs, ReadersOfFiles
      <3>2. QED
        BY <1>3, <2>1, <3>1, PcFacts
    <2>3. QED
      BY <1>1, <1>7, <2>1, <2>2, FilesReader, CacheKept
  <1>8. QED
    BY <1>5, <1>6, <1>7

LEMMA FilesReadCached ==
    ASSUME HttpParametersOK, FilesInv, NEW r \in Reader, ReadCached(r)
    PROVE  FilesInv'
  <1>1. HttpType /\ CacheOfFiles /\ ReadersOfFiles
    BY DEF FilesInv
  <1>2. PICK m, l, k : m = request[r] /\ l = m.loc /\ k = m.lo
    OBVIOUS
  <1>3. m \in ReaderType /\ l \in Location /\ k \in Nat
    BY <1>1, <1>2, ReaderFacts
  <1>4. PICK d : d = cached[CacheKey(l, k)]
    OBVIOUS
  <1>5. CacheKey(l, k) \in DOMAIN cached /\ UNCHANGED cached /\ Step(r, Chunk(r, k, d))
    BY <1>2, <1>4, CachedFacts
  <1>6. OfFile(d, request[r].loc)
    BY <1>1, <1>2, <1>3, <1>4, <1>5 DEF CacheOfFiles
  <1>7. PICK u : u = Chunk(r, k, d)
    OBVIOUS
  <1>8. u \in ReaderType /\ OfFile(u.data, u.loc) /\ u.pc # "get"
    BY <1>1, <1>2, <1>3, <1>6, <1>7, ChunkFacts DEF AfterChunk
  <1>9. QED
    BY <1>1, <1>5, <1>7, <1>8, FilesReader, CacheKept

LEMMA FilesNoBytes ==
    ASSUME HttpParametersOK, FilesInv, NEW r \in Reader,
           ReadNothing(r) \/ SendFails(r)
    PROVE  FilesInv'
  <1>1. HttpType /\ CacheOfFiles /\ ReadersOfFiles
    BY DEF FilesInv
  <1>2. PICK pc \in {"ok", "error"} : Step(r, [request[r] EXCEPT !.pc = pc]) /\ UNCHANGED cached
    BY DEF ReadNothing, SendFails
  <1>3. request[r] \in ReaderType /\ OfFile(request[r].data, request[r].loc) /\ pc \in Pcs /\ pc # "get"
    BY <1>1, ReaderFacts DEF ReadersOfFiles, Pcs
  <1>4. PICK u : u = [request[r] EXCEPT !.pc = pc]
    OBVIOUS
  <1>5. u \in ReaderType /\ OfFile(u.data, u.loc) /\ u.pc # "get"
    BY <1>3, <1>4, PcFacts
  <1>6. QED
    BY <1>1, <1>2, <1>4, <1>5, FilesReader, CacheKept

LEMMA FilesStep ==
    ASSUME HttpParametersOK, OneFilePerKey, FilesInv, [HttpNext]_httpVars
    PROVE  FilesInv'
  <1>1. HttpType /\ CacheOfFiles /\ ReadersOfFiles
    BY DEF FilesInv
  <1>2. ASSUME NEW r \in Reader, Begin(r)
        PROVE  FilesInv'
    <2>1. PICK u \in ReaderType : Step(r, u) /\ OfFile(u.data, u.loc) /\ u.lo <= u.hi
      BY <1>2, BeginFacts
    <2>2. UNCHANGED cached
      BY <1>2 DEF Begin
    <2>3. QED
      BY <1>1, <2>1, <2>2, FilesReader, CacheKept
  <1>3. ASSUME NEW r \in Reader, HeadRequest(r) \/ HeadViaGet(r)
        PROVE  FilesInv'
    <2>1. UNCHANGED cached /\ \E u \in ReaderType :
              /\ Step(r, u) /\ u.data = request[r].data /\ u.loc = request[r].loc
              /\ u.pc \in {"read", "ok", "head_via_get", "error", "panic"}
      BY <1>1, <1>3, HeadFacts
    <2>2. PICK u \in ReaderType : Step(r, u) /\ OfFile(u.data, u.loc) /\ u.pc # "get"
      BY <1>1, <2>1 DEF ReadersOfFiles
    <2>3. QED
      BY <1>1, <2>1, <2>2, FilesReader, CacheKept
  <1>4. ASSUME NEW r \in Reader, GetOpts(r)
        PROVE  FilesInv'
    <2>1. UNCHANGED cached /\ \E u \in ReaderType :
              Step(r, u) /\ OfFile(u.data, u.loc) /\ u.pc \in {"ok", "error"}
      BY <1>4, GetFacts
    <2>2. PICK u \in ReaderType : Step(r, u) /\ OfFile(u.data, u.loc) /\ u.pc # "get"
      BY <2>1
    <2>3. QED
      BY <1>1, <2>1, <2>2, FilesReader, CacheKept
  <1>5. CASE \E r \in Reader : Begin(r) \/ Operation(r) \/ SendFails(r)
    BY <1>2, <1>3, <1>4, <1>5, FilesReadCached, FilesReadFetched, FilesNoBytes DEF Operation
  <1>6. CASE \E u \in Urls : Replace(u)
    BY <1>6, FilesReplace
  <1>7. CASE \E k \in DOMAIN cached : EvictChunk(k)
    BY <1>7, FilesEvict
  <1>8. CASE UNCHANGED httpVars
    BY <1>8 DEF httpVars, FilesInv, HttpType, CacheOfFiles, ReadersOfFiles
  <1>9. QED
    BY <1>5, <1>6, <1>7, <1>8 DEF HttpNext

----------------------------------------------------------------------------
(* Reads are exact                                                          *)

\* No server answers with another range than the one asked for.
NoMovedRanges == \A s \in Servers : s.ranges # "moved"

Cut(got, e, size) == IF e = size /\ Len(got) > e THEN SubSeq(got, 1, e) ELSE got

\* A byte within the length HEAD has told that is not of version v.
HasStale(data, size, v) == \E j \in DOMAIN data : j <= size /\ data[j].v # v

\* A byte of another version stays among the bytes of the reader: only what is
\* beyond the length HEAD has told is cut off.
LEMMA StaleStays ==
    ASSUME NEW l, NEW p, NEW d, OfFile(p, l), OfFile(d, l), NEW e \in Nat, NEW size \in Nat, e <= size,
           NEW v, HasStale(p \o d, size, v)
    PROVE  HasStale(Cut(p \o d, e, size), size, v)
  <1> SUFFICES ASSUME NEW i \in DOMAIN (p \o d), i <= size, (p \o d)[i].v # v
               PROVE  \E j \in DOMAIN Cut(p \o d, e, size) : j <= size /\ Cut(p \o d, e, size)[j].v # v
    BY DEF HasStale
  <1>1. PICK got, data : got = p \o d /\ data = Cut(p \o d, e, size)
    OBVIOUS
  <1>2. got \in Seq(Byte) /\ Len(got) \in Nat
    <2>1. OfFile(got, l)
      BY <1>1, OfFileJoin
    <2>2. QED
      BY <2>1 DEF OfFile
  <1>3. CASE e = size /\ Len(got) > e
    <2>1. PICK t : t = SubSeq(got, 1, e)
      OBVIOUS
    <2>2. t \in Seq(Byte) /\ Len(t) = e /\ \A j \in 1..e : t[j] = got[j]
      BY <1>2, <1>3, <2>1
    <2>3. i \in 1..e /\ i \in DOMAIN t
      BY <1>1, <1>2, <1>3, <2>2
    <2>4. data = t /\ data[i] = got[i]
      BY <1>1, <1>3, <2>1, <2>2, <2>3 DEF Cut
    <2>5. QED
      BY <1>1, <2>3, <2>4
  <1>4. CASE ~(e = size /\ Len(got) > e)
    <2>1. data = got /\ i \in DOMAIN got
      BY <1>1, <1>2, <1>4 DEF Cut
    <2>2. QED
      BY <1>1, <2>1
  <1>5. QED
    BY <1>3, <1>4

\* The next chunk, which is whole if it is of the version of the reader.
LEMMA NextChunk ==
    ASSUME HttpParametersOK, FilesInv, NEW r \in Reader, NEW d,
           request[r].size > 0, request[r].size = request[r].head.size, ReadSoFar(request[r]),
           OfFile(d, request[r].loc), d # <<>>,
           d[1].v = request[r].head.v => d = ChunkOf(request[r].head, request[r].lo)
    PROVE  LET u == Chunk(r, request[r].lo, d)
           IN  (u.pc = "read" => ReadSoFar(u)) /\ (u.pc = "ok" => ReadDone(u))
  <1>1. PICK m, u : m = request[r] /\ u = Chunk(r, m.lo, d)
    OBVIOUS
  <1>0. PICK p : p = m.data
    OBVIOUS
  <1>2. PICK k \in Nat, s \in Nat, c \in Version : k = m.lo /\ s = m.size /\ c = m.head
    BY <1>1, ReaderFacts DEF FilesInv
  <1>3. PICK b \in Nat, b2 \in Nat : /\ b = k * ChunkSize /\ b2 = (k + 1) * ChunkSize /\ b < b2
    BY <1>0, <1>2, ChunkBounds
  <1>4. b < s /\ c.size = s
    BY <1>1, <1>0, <1>2, <1>3 DEF ReadSoFar
  <1>5. PICK e \in Nat : e = Min({b2, s}) /\ b < e /\ e <= s /\ (e # s => e = b2)
    <2>1. Min({b2, s}) = IF b2 <= s THEN b2 ELSE s
      BY MinPair
    <2>2. b < b2 /\ b < s
      BY <1>3, <1>4
    <2>3. QED
      BY <2>1, <2>2
  <1>6. PICK l : l = m.loc /\ OfFile(p, l) /\ OfFile(d, l)
    BY <1>1, <1>0, <1>2 DEF FilesInv, ReadersOfFiles
  <1>7. /\ u.op = m.op /\ u.head = c /\ u.size = s /\ u.lo = k + 1
        /\ u.pc = (IF e = s THEN "ok" ELSE "read")
        /\ u.data = IF e = s /\ Len(p \o d) > e THEN SubSeq(p \o d, 1, e) ELSE p \o d
    <2>1. HttpType /\ ReadersOfFiles /\ OfFile(d, request[r].loc)
      BY DEF FilesInv
    <2>2. AfterChunk(request[r], k, d, Chunk(r, k, d))
      BY <2>1, ChunkFacts
    <2>3. u = Chunk(r, k, d) /\ e = Min({(k + 1) * ChunkSize, s}) /\ s = request[r].size
          /\ p = request[r].data /\ c = request[r].head /\ m = request[r]
      BY <1>1, <1>0, <1>2, <1>3, <1>5
    <2>4. QED
      BY <2>2, <2>3 DEF AfterChunk
  <1>8. u.pc = "read" => /\ u.lo * ChunkSize <= u.size /\ u.lo * ChunkSize < u.size
                         /\ u.lo * ChunkSize = e
    <2>1. SUFFICES ASSUME e # s
                   PROVE  (k + 1) * ChunkSize = e /\ e <= s /\ e < s
      BY <1>7
    <2>2. QED
      BY <1>3, <1>5, <2>1
  <1>9. ASSUME NEW i \in 1..Len(p \o d), i <= s, (p \o d)[i].v # c.v
        PROVE  \E j \in DOMAIN u.data : j <= s /\ u.data[j].v # c.v
    <2>1. u.data = Cut(p \o d, e, s)
      BY <1>7 DEF Cut
    <2>2. e <= s
      BY <1>5
    <2>3. OfFile(p, l) /\ OfFile(d, l)
      BY <1>6
    <2>4. p \o d \in Seq(Byte)
      BY <2>3, OfFileJoin DEF OfFile
    <2>5. HasStale(p \o d, s, c.v)
      BY <1>9, <2>4 DEF HasStale
    <2>6. HasStale(u.data, s, c.v)
      BY <2>1, <2>2, <2>3, <2>5, StaleStays
    <2>7. QED
      BY <2>6 DEF HasStale
  <1>10. ASSUME \E j \in DOMAIN u.data : j <= s /\ u.data[j].v # c.v
         PROVE  (u.pc = "read" => ReadSoFar(u)) /\ (u.pc = "ok" => ReadDone(u))
    BY <1>7, <1>8, <1>10 DEF ReadSoFar, ReadDone
  <1>11. /\ Len(p) \in Nat /\ Len(d) \in Nat /\ Len(d) >= 1 /\ Len(p \o d) = Len(p) + Len(d)
         /\ \A i \in 1..Len(p) : (p \o d)[i] = p[i]
    <2>1. p \in Seq(Byte) /\ d \in Seq(Byte) /\ d # <<>>
      BY <1>6 DEF OfFile
    <2>2. Len(p) \in Nat /\ Len(d) \in Nat /\ Len(d) >= 1
      BY <2>1
    <2>3. /\ Len(p \o d) = Len(p) + Len(d) /\ \A i \in 1..Len(p) : (p \o d)[i] = p[i]
          /\ \A i \in 1..Len(d) : (p \o d)[Len(p) + i] = d[i]
      BY <1>6, OfFileJoin
    <2>4. QED
      BY <2>2, <2>3
  <1>12. CASE \E i \in DOMAIN p : i <= s /\ p[i].v # c.v
    <2>1. PICK i \in DOMAIN p : i <= s /\ p[i].v # c.v
      BY <1>12
    <2>2. i \in 1..Len(p)
      BY <1>6, <2>1 DEF OfFile
    <2>3. i \in 1..Len(p \o d) /\ (p \o d)[i].v # c.v
      BY <1>11, <2>1, <2>2
    <2>4. QED
      BY <1>1, <1>9, <1>10, <2>1, <2>3
  <1>13. CASE p = Bytes(c, 0, b)
    <2>1. Len(p) = b
      <3>1. 0 \in Nat /\ 0 <= b
        OBVIOUS
      <3>2. Len(Bytes(c, 0, b)) = b - 0
        BY <3>1, BytesFacts
      <3>3. QED
        BY <1>13, <3>2
    <2>2. CASE d[1].v # c.v
      <3>1. (p \o d)[b + 1] = d[1] /\ b + 1 \in 1..Len(p \o d) /\ b + 1 <= s
        <4>1. (p \o d)[Len(p) + 1] = d[1]
          <5>1. p \in Seq(Byte) /\ d \in Seq(Byte) /\ d # <<>>
            BY <1>6 DEF OfFile
          <5>2. 1 \in 1..Len(d)
            BY <5>1
          <5>3. QED
            BY <1>6, <5>2, OfFileJoin
        <4>2. QED
          BY <1>4, <1>11, <2>1, <4>1
      <3>2. QED
        BY <1>1, <1>9, <1>10, <2>2, <3>1
    <2>3. CASE d[1].v = c.v
      <3>1. d = Bytes(c, b, e)
        BY <1>1, <1>0, <1>2, <1>3, <1>4, <1>5, <2>3 DEF ChunkOf
      <3>2. b <= e
        BY <1>5
      <3>3. p \o d = Bytes(c, 0, e)
        BY <1>13, <3>1, <3>2, BytesJoin
      <3>4. Len(p \o d) = e
        <4>1. 0 \in Nat /\ 0 <= e
          OBVIOUS
        <4>2. Len(Bytes(c, 0, e)) = e - 0
          BY <4>1, BytesFacts
        <4>3. QED
          BY <3>3, <4>2
      <3>5. u.data = Bytes(c, 0, e)
        BY <1>7, <3>3, <3>4
      <3>6. u.pc = "read" => ReadSoFar(u)
        BY <1>7, <1>8, <3>5 DEF ReadSoFar
      <3>7. u.pc = "ok" => ReadDone(u)
        BY <1>4, <1>7, <3>5 DEF ReadDone
      <3>8. QED
        BY <1>1, <3>6, <3>7
    <2>4. QED
      BY <2>2, <2>3
  <1>14. QED
    BY <1>1, <1>0, <1>2, <1>3, <1>12, <1>13 DEF ReadSoFar

LEMMA ExactInit ==
    ASSUME HttpParametersOK, HttpInit
    PROVE  ExactInv
  <1>1. PICK n \in 0..MaxSize : content = [u \in Urls |-> [file |-> FileAt(u), v |-> 0, size |-> n]]
    BY DEF HttpInit
  <1>2. changes = 0 /\ DOMAIN cached = {} /\ request = [r \in Reader |-> Idle]
    BY DEF HttpInit
  <1>3. OneVersion
    BY <1>1, <1>2 DEF OneVersion
  <1>4. CacheExact
    BY <1>2 DEF CacheExact
  <1>5. ReadersExact
    BY <1>2, IdleFacts DEF ReadersExact, ReaderExact
  <1>6. QED
    BY <1>3, <1>4, <1>5 DEF ExactInv

\* A reader moves on and leaves the cache alone.
LEMMA ExactReader ==
    ASSUME FilesInv, ExactInv, NEW r \in Reader, NEW u, Step(r, u), UNCHANGED cached,
           ReaderExact(u, cached, content, changes)
    PROVE  ExactInv'
  <1>1. request' = [request EXCEPT ![r] = u] /\ content' = content /\ changes' = changes
    BY DEF Step
  <1>2. request'[r] = u /\ \A q \in Reader : q # r => request'[q] = request[q]
    BY <1>1 DEF FilesInv, HttpType
  <1>3. OneVersion' /\ CacheExact'
    BY <1>1 DEF ExactInv, OneVersion, CacheExact
  <1>4. ReadersExact'
    BY <1>1, <1>2 DEF ExactInv, ReadersExact
  <1>5. QED
    BY <1>3, <1>4 DEF ExactInv

\* The version that is served, of a LOCATION, and the cached chunks of it.
LEMMA ServedFacts ==
    ASSUME HttpParametersOK, FilesInv, ExactInv, NEW l \in Location
    PROVE  /\ content[Url(l)] \in Version /\ content[Url(l)].file = Home(l)
           /\ content[Url(l)].v <= changes /\ content[Url(l)].v \in Nat /\ content[Url(l)].size \in Nat
           /\ \A k \in Nat : CacheKey(l, k) \in DOMAIN cached =>
                 CachedChunk(l, k, cached[CacheKey(l, k)], content, changes)
           /\ \A o \in Location : Home(o) = Home(l) => content[Url(o)] = content[Url(l)]
  <1>1. /\ Url(l) \in Urls /\ FileAt(Url(l)) = Home(l)
        /\ \A o \in Location : Url(o) \in Urls /\ FileAt(Url(o)) = Home(o)
    BY UrlOfLocation
  <1>2. content[Url(l)] \in Version /\ content[Url(l)].file = Home(l)
    BY <1>1 DEF FilesInv, HttpType
  <1>3. content[Url(l)].v \in Nat /\ content[Url(l)].size \in Nat
    BY <1>2 DEF Version
  <1>4. /\ content[Url(l)].v <= changes
        /\ \A o \in Location : Home(o) = Home(l) => content[Url(o)] = content[Url(l)]
    BY <1>1 DEF ExactInv, OneVersion
  <1>5. \A k \in Nat : CacheKey(l, k) \in DOMAIN cached =>
           CachedChunk(l, k, cached[CacheKey(l, k)], content, changes)
    BY DEF ExactInv, CacheExact
  <1>6. QED
    BY <1>2, <1>3, <1>4, <1>5

LEMMA ExactHead ==
    ASSUME HttpParametersOK, FilesInv, ExactInv, NEW r \in Reader,
           HeadRequest(r) \/ HeadViaGet(r)
    PROVE  ExactInv'
  <1>1. PICK l \in Location : l = request[r].loc
    BY ReaderFacts DEF FilesInv
  <1>2. HttpType /\ ReadersExact
    BY DEF FilesInv, ExactInv
  <1>3. request[r].pc \in {"head", "head_via_get"} /\ UNCHANGED cached
    BY <1>2, HeadFacts
  <1>4. PICK u \in ReaderType :
            /\ Step(r, u) /\ u.data = request[r].data /\ u.loc = l
            /\ u.lo = request[r].lo /\ u.op = request[r].op
            /\ u.pc \in {"read", "ok", "head_via_get", "error", "panic"}
            /\ u.pc = "ok" => u.op = "list"
            /\ u.pc = "read" => u.head = ServedFile(r) /\ u.size = ServedFile(r).size
    BY <1>1, <1>2, HeadFacts
  <1>5. u.lo = 0 /\ u.data = <<>>
    BY <1>2, <1>3, <1>4 DEF ReadersExact, ReaderExact
  <1>6. PICK c : c = content[Url(l)] /\ c = ServedFile(r)
    BY <1>1 DEF ServedFile
  <1>7. /\ c \in Version /\ c.file = Home(l) /\ c.v <= changes /\ c.v \in Nat /\ c.size \in Nat
        /\ \A k \in Nat : CacheKey(l, k) \in DOMAIN cached =>
                 CachedChunk(l, k, cached[CacheKey(l, k)], content, changes)
    BY <1>6, ServedFacts
  <1>8. ASSUME u.pc = "read"
        PROVE  VersionKnown(u, content, changes) /\ ChunksKnown(u, cached) /\ ReadSoFar(u)
    <2>1. u.head = c /\ u.size = c.size
      BY <1>4, <1>6, <1>8
    <2>2. VersionKnown(u, content, changes)
      BY <1>4, <1>6, <1>7, <2>1 DEF VersionKnown
    <2>3. ChunksKnown(u, cached)
      BY <1>4, <1>6, <1>7, <2>1 DEF ChunksKnown, CachedChunk
    <2>4. ReadSoFar(u)
      <3>1. 0 * ChunkSize = 0
        BY DEF HttpParametersOK
      <3>2. Bytes(c, 0, 0) = <<>>
        <4>1. 0 \in Nat /\ 0 <= 0
          OBVIOUS
        <4>2. Bytes(c, 0, 0) \in Seq(Byte) /\ Len(Bytes(c, 0, 0)) = 0 - 0
          BY <1>7, <4>1, BytesFacts
        <4>3. QED
          BY <4>2
      <3>3. QED
        BY <1>5, <1>7, <2>1, <3>1, <3>2 DEF ReadSoFar
    <2>5. QED
      BY <2>2, <2>3, <2>4
  <1>9. ReaderExact(u, cached, content, changes)
    BY <1>4, <1>5, <1>8 DEF ReaderExact, ReadDone
  <1>10. QED
    BY <1>3, <1>4, <1>9, ExactReader

LEMMA ExactReadCached ==
    ASSUME HttpParametersOK, FilesInv, ExactInv, NEW r \in Reader, ReadCached(r)
    PROVE  ExactInv'
  <1>1. HttpType /\ CacheOfFiles /\ ReadersOfFiles
    BY DEF FilesInv
  <1>2. PICK l \in Location, k \in Nat : l = request[r].loc /\ k = request[r].lo
    BY <1>1, ReaderFacts
  <1>3. PICK m, d, u : m = request[r] /\ d = cached[CacheKey(l, k)] /\ u = Chunk(r, k, d)
    OBVIOUS
  <1>4. /\ m.pc = "read" /\ m.size > 0 /\ CacheKey(l, k) \in DOMAIN cached /\ UNCHANGED cached
        /\ Step(r, u)
    BY <1>2, <1>3, CachedFacts
  <1>5. VersionKnown(m, content, changes) /\ ChunksKnown(m, cached) /\ ReadSoFar(m)
    BY <1>3, <1>4 DEF ExactInv, ReadersExact, ReaderExact
  <1>6. OfFile(d, request[r].loc)
    BY <1>1, <1>2, <1>3, <1>4 DEF CacheOfFiles
  <1>7. d # <<>>
    BY <1>3, <1>4, ServedFacts DEF CachedChunk
  <1>8. d[1].v = m.head.v => d = ChunkOf(m.head, k)
    BY <1>2, <1>3, <1>4, <1>5 DEF ChunksKnown
  <1>9. m.size = m.head.size
    BY <1>5 DEF VersionKnown
  <1>10. (u.pc = "read" => ReadSoFar(u)) /\ (u.pc = "ok" => ReadDone(u))
    BY <1>2, <1>3, <1>4, <1>5, <1>6, <1>7, <1>8, <1>9, NextChunk
  <1>11. u.loc = m.loc /\ u.head = m.head /\ u.size = m.size /\ u.pc \in {"ok", "read"}
    BY <1>1, <1>3, <1>6, ChunkFacts DEF AfterChunk
  <1>12. VersionKnown(u, content, changes) /\ ChunksKnown(u, cached)
    BY <1>5, <1>11 DEF VersionKnown, ChunksKnown
  <1>13. ReaderExact(u, cached, content, changes)
    BY <1>10, <1>11, <1>12 DEF ReaderExact
  <1>14. QED
    BY <1>4, <1>13, ExactReader

LEMMA ExactReadFetched ==
    ASSUME HttpParametersOK, OneFilePerKey, NoMovedRanges, FilesInv, ExactInv, NEW r \in Reader,
           ReadFetched(r)
    PROVE  ExactInv'
  <1>1. HttpType /\ ReadersOfFiles /\ server.ranges # "moved"
    BY DEF FilesInv, HttpType, NoMovedRanges
  <1>2. PICK l \in Location, k \in Nat : l = request[r].loc /\ k = request[r].lo
    BY <1>1, ReaderFacts
  <1>3. PICK m, c, d, u, key : /\ m = request[r] /\ c = content[Url(l)] /\ key = CacheKey(l, k)
                               /\ d = Answer(ServedFile(r), k * ChunkSize, (k + 1) * ChunkSize)
                               /\ u = Chunk(r, k, d)
    OBVIOUS
  <1>4. c = ServedFile(r) /\ c \in Version /\ c.file = Home(l) /\ c.v <= changes
    BY <1>2, <1>3, ServedFacts DEF ServedFile
  <1>5. /\ m.pc = "read" /\ m.size > 0
        /\ \/ /\ cached' = [x \in DOMAIN cached \cup {key} |-> IF x = key THEN d ELSE cached[x]]
              /\ Step(r, u) /\ OfFile(d, l) /\ d = ChunkOf(c, k) /\ StartsIn(d, c)
           \/ Step(r, [m EXCEPT !.pc = "error"]) /\ UNCHANGED cached
    BY <1>1, <1>2, <1>3, <1>4, FetchedFacts
  <1>6. VersionKnown(m, content, changes) /\ ChunksKnown(m, cached) /\ ReadSoFar(m)
    BY <1>3, <1>5 DEF ExactInv, ReadersExact, ReaderExact
  <1>7. CASE Step(r, [m EXCEPT !.pc = "error"]) /\ UNCHANGED cached
    <2>1. m \in ReaderType /\ "error" \in Pcs
      BY <1>1, <1>3, ReaderFacts DEF Pcs
    <2>2. PICK w : w = [m EXCEPT !.pc = "error"]
      OBVIOUS
    <2>3. w.pc = "error"
      BY <2>1, <2>2, PcFacts
    <2>4. ReaderExact(w, cached, content, changes)
      BY <2>3 DEF ReaderExact
    <2>5. QED
      BY <1>7, <2>2, <2>4, ExactReader
  <1>8. CASE /\ cached' = [x \in DOMAIN cached \cup {key} |-> IF x = key THEN d ELSE cached[x]]
             /\ Step(r, u) /\ OfFile(d, l) /\ d = ChunkOf(c, k) /\ StartsIn(d, c)
    <2>1. /\ request' = [request EXCEPT ![r] = u] /\ content' = content /\ changes' = changes
          /\ d # <<>> /\ d[1].v = c.v
      BY <1>8 DEF Step, StartsIn
    <2>2. request'[r] = u /\ \A q \in Reader : q # r => request'[q] = request[q]
      BY <1>1, <2>1 DEF HttpType
    <2>3. \A x \in DOMAIN cached' : \/ x = key /\ cached'[x] = d
                                    \/ x \in DOMAIN cached /\ cached'[x] = cached[x]
      BY <1>8
    <2>4. \A o \in Location, n \in Nat :
             CacheKey(o, n) = key => n = k /\ content[Url(o)] = c
      <3>1. TAKE o \in Location, n \in Nat
      <3>2. HAVE CacheKey(o, n) = key
      <3>3. n = k /\ Home(o) = Home(l)
        BY <1>3, <3>2, SameKey
      <3>4. QED
        BY <1>3, <3>3, ServedFacts
    <2>5. CacheExact'
      <3>1. SUFFICES ASSUME NEW o \in Location, NEW n \in Nat, CacheKey(o, n) \in DOMAIN cached'
                     PROVE  CachedChunk(o, n, cached'[CacheKey(o, n)], content, changes)
        BY <2>1 DEF CacheExact
      <3>2. CASE CacheKey(o, n) = key /\ cached'[CacheKey(o, n)] = d
        <4>1. n = k /\ content[Url(o)] = c
          BY <2>4, <3>2
        <4>2. QED
          BY <1>4, <1>8, <2>1, <3>2, <4>1 DEF CachedChunk
      <3>3. CASE CacheKey(o, n) \in DOMAIN cached /\ cached'[CacheKey(o, n)] = cached[CacheKey(o, n)]
        BY <3>3, ServedFacts
      <3>4. QED
        BY <2>3, <3>1, <3>2, <3>3
    <2>6. ASSUME NEW w, w.loc \in Location, VersionKnown(w, content, changes), ChunksKnown(w, cached)
          PROVE  ChunksKnown(w, cached')
      <3>1. SUFFICES ASSUME NEW n \in Nat, CacheKey(w.loc, n) \in DOMAIN cached',
                            cached'[CacheKey(w.loc, n)][1].v = w.head.v
                     PROVE  cached'[CacheKey(w.loc, n)] = ChunkOf(w.head, n)
        BY DEF ChunksKnown
      <3>2. CASE CacheKey(w.loc, n) = key /\ cached'[CacheKey(w.loc, n)] = d
        <4>1. n = k /\ content[Url(w.loc)] = c
          BY <2>4, <2>6, <3>2
        <4>2. w.head.v = c.v
          BY <2>1, <3>1, <3>2
        <4>3. w.head = c
          BY <2>6, <4>1, <4>2 DEF VersionKnown
        <4>4. QED
          BY <1>8, <3>2, <4>1, <4>3
      <3>3. CASE /\ CacheKey(w.loc, n) \in DOMAIN cached
                 /\ cached'[CacheKey(w.loc, n)] = cached[CacheKey(w.loc, n)]
        BY <2>6, <3>1, <3>3 DEF ChunksKnown
      <3>4. QED
        BY <2>3, <3>1, <3>2, <3>3
    <2>7. ReaderExact(u, cached', content, changes)
      <3>1. u.loc = l /\ u.head = m.head /\ u.size = m.size /\ u.pc \in {"ok", "read"}
        <4>1. HttpType /\ ReadersOfFiles /\ OfFile(d, request[r].loc)
          BY <1>1, <1>2, <1>3, <1>8 DEF FilesInv
        <4>2. AfterChunk(request[r], k, d, Chunk(r, k, d))
          BY <4>1, ChunkFacts
        <4>3. QED
          BY <1>2, <1>3, <1>8, <2>1, <4>2 DEF AfterChunk
      <3>2. VersionKnown(u, content, changes) /\ ChunksKnown(u, cached)
        <4>1. u.loc = m.loc /\ u.head = m.head /\ u.size = m.size
          BY <1>2, <1>3, <3>1
        <4>2. VersionKnown(u, content, changes)
          BY <1>6, <4>1 DEF VersionKnown
        <4>3. ChunksKnown(u, cached)
          BY <1>6, <4>1 DEF ChunksKnown
        <4>4. QED
          BY <4>2, <4>3
      <3>3. ChunksKnown(u, cached')
        BY <2>6, <3>1, <3>2
      <3>4. d[1].v = m.head.v => d = ChunkOf(m.head, k)
        BY <1>2, <1>3, <1>6, <1>8, <2>1 DEF VersionKnown
      <3>5. m.size = m.head.size
        BY <1>6 DEF VersionKnown
      <3>6. (u.pc = "read" => ReadSoFar(u)) /\ (u.pc = "ok" => ReadDone(u))
        BY <1>2, <1>3, <1>5, <1>6, <1>8, <2>1, <3>4, <3>5, NextChunk
      <3>7. QED
        BY <3>1, <3>2, <3>3, <3>6 DEF ReaderExact
    <2>8. ReadersExact'
      <3>1. SUFFICES ASSUME NEW q \in Reader, q # r
                     PROVE  ReaderExact(request[q], cached', content, changes)
        BY <2>1, <2>2, <2>7 DEF ReadersExact
      <3>2. request[q].loc \in Location /\ ReaderExact(request[q], cached, content, changes)
        BY <1>1, ReaderFacts DEF ExactInv, ReadersExact
      <3>3. QED
        BY <2>6, <3>2 DEF ReaderExact
    <2>9. OneVersion'
      BY <2>1 DEF ExactInv, OneVersion
    <2>10. QED
      BY <2>5, <2>8, <2>9 DEF ExactInv
  <1>9. QED
    BY <1>5, <1>7, <1>8

LEMMA ExactOthers ==
    ASSUME HttpParametersOK, FilesInv, ExactInv, NEW r \in Reader,
           Begin(r) \/ GetOpts(r) \/ ReadNothing(r) \/ SendFails(r)
    PROVE  ExactInv'
  <1>1. HttpType /\ ReadersExact
    BY DEF FilesInv, ExactInv
  <1>2. CASE Begin(r)
    <2>1. PICK u \in ReaderType : /\ Step(r, u) /\ u.data = <<>> /\ u.pc \in {"head", "get", "error"}
                                  /\ u.pc = "head" => u.lo = 0
      BY <1>2, BeginFacts
    <2>2. UNCHANGED cached
      BY <1>2 DEF Begin
    <2>3. ReaderExact(u, cached, content, changes)
      BY <2>1 DEF ReaderExact
    <2>4. QED
      BY <2>1, <2>2, <2>3, ExactReader
  <1>3. CASE GetOpts(r)
    <2>1. PICK u \in ReaderType :
             /\ Step(r, u) /\ u.pc \in {"ok", "error"}
             /\ u.pc = "ok" => u.op = "get_opts" \/ u.data = Bytes(u.head, 0, u.head.size)
      BY <1>3, GetFacts
    <2>2. UNCHANGED cached
      BY <1>3 DEF GetOpts
    <2>3. ReaderExact(u, cached, content, changes)
      BY <2>1 DEF ReaderExact, ReadDone
    <2>4. QED
      BY <2>1, <2>2, <2>3, ExactReader
  <1>4. CASE ReadNothing(r)
    <2>1. PICK m \in ReaderType, u \in {[request[r] EXCEPT !.pc = "ok"]} :
                m = request[r] /\ u = [m EXCEPT !.pc = "ok"]
      BY <1>1, ReaderFacts
    <2>2. m.pc = "read" /\ m.size = 0 /\ Step(r, u) /\ UNCHANGED cached
      BY <1>4, <2>1 DEF ReadNothing, At
    <2>3. VersionKnown(m, content, changes) /\ ReadSoFar(m)
      BY <1>1, <2>1, <2>2 DEF ReadersExact, ReaderExact
    <2>4. "ok" \in Pcs
      BY DEF Pcs
    <2>5. u.pc = "ok" /\ u.data = m.data /\ u.head = m.head
      BY <2>1, <2>4, PcFacts
    <2>6. m.head.size = 0 /\ m.lo * ChunkSize = 0
      <3>1. m.lo \in Nat
        BY DEF ReaderType
      <3>2. m.lo * ChunkSize \in Nat
        BY <3>1, ChunkBounds
      <3>3. QED
        BY <2>2, <2>3, <3>2 DEF VersionKnown, ReadSoFar
    <2>7. ReadDone(u)
      BY <2>3, <2>5, <2>6 DEF ReadSoFar, ReadDone
    <2>8. ReaderExact(u, cached, content, changes)
      BY <2>5, <2>7 DEF ReaderExact
    <2>9. QED
      BY <2>2, <2>8, ExactReader
  <1>5. CASE SendFails(r)
    <2>1. PICK m \in ReaderType, u \in {[request[r] EXCEPT !.pc = "error"]} :
                m = request[r] /\ u = [m EXCEPT !.pc = "error"]
      BY <1>1, ReaderFacts
    <2>2. Step(r, u) /\ UNCHANGED cached
      BY <1>5, <2>1 DEF SendFails
    <2>3. "error" \in Pcs
      BY DEF Pcs
    <2>4. u.pc = "error"
      BY <2>1, <2>3, PcFacts
    <2>5. ReaderExact(u, cached, content, changes)
      BY <2>4 DEF ReaderExact
    <2>6. QED
      BY <2>2, <2>5, ExactReader
  <1>6. QED
    BY <1>2, <1>3, <1>4, <1>5

\* A replaced file has a version that nobody has a byte of.
LEMMA ExactReplace ==
    ASSUME HttpParametersOK, FilesInv, ExactInv, NEW u \in Urls, Replace(u)
    PROVE  ExactInv'
  <1>1. PICK size \in 0..MaxSize :
            content' = [w \in Urls |-> IF FileAt(w) # FileAt(u) THEN content[w]
                                       ELSE [content[w] EXCEPT !.v = changes + 1, !.size = size]]
    BY DEF Replace
  <1>2. changes' = changes + 1 /\ UNCHANGED <<server, cached, request>>
    BY DEF Replace
  <1>3. changes \in Nat /\ HttpType /\ CacheOfFiles /\ OneVersion /\ CacheExact /\ ReadersExact
    BY DEF FilesInv, HttpType, ExactInv
  <1>4. \A w \in Urls : content[w] \in Version /\ content[w].v <= changes /\ content[w].v \in Nat
    BY <1>3 DEF HttpType, OneVersion, Version
  <1>5. \A w \in Urls : \/ FileAt(w) # FileAt(u) /\ content'[w] = content[w]
                        \/ FileAt(w) = FileAt(u) /\ content'[w].v = changes + 1
    <2>1. TAKE w \in Urls
    <2>2. [content[w] EXCEPT !.v = changes + 1, !.size = size].v = changes + 1
      BY <1>4 DEF Version
    <2>3. QED
      BY <1>1, <2>2
  <1>6. OneVersion'
    <2>1. ASSUME NEW v \in Urls, NEW w \in Urls, FileAt(v) = FileAt(w)
          PROVE  content'[v] = content'[w]
      <3>1. content[v] = content[w]
        BY <1>3, <2>1 DEF OneVersion
      <3>2. QED
        BY <1>1, <2>1, <3>1
    <2>2. \A w \in Urls : content'[w].v <= changes + 1
      BY <1>3, <1>4, <1>5
    <2>3. QED
      BY <1>2, <2>1, <2>2 DEF OneVersion
  <1>7. CacheExact'
    <2>1. SUFFICES ASSUME NEW l \in Location, NEW k \in Nat, CacheKey(l, k) \in DOMAIN cached
                   PROVE  CachedChunk(l, k, cached[CacheKey(l, k)], content', changes + 1)
      BY <1>2 DEF CacheExact
    <2>2. PICK d : d = cached[CacheKey(l, k)]
      OBVIOUS
    <2>3. d # <<>> /\ d[1].v <= changes /\ (d[1].v = content[Url(l)].v => d = ChunkOf(content[Url(l)], k))
      BY <1>3, <2>1, <2>2 DEF CacheExact, CachedChunk
    <2>4. d[1].v \in Nat
      <3>1. d \in Seq(Byte)
        BY <1>3, <2>1, <2>2 DEF CacheOfFiles, OfFile
      <3>2. d[1] \in Byte
        BY <2>3, <3>1
      <3>3. QED
        BY <3>2 DEF Byte
    <2>5. Url(l) \in Urls
      BY UrlOfLocation
    <2>6. d[1].v <= changes + 1 /\ d[1].v # changes + 1
      BY <1>3, <2>3, <2>4
    <2>7. d[1].v = content'[Url(l)].v => content'[Url(l)] = content[Url(l)]
      BY <1>5, <2>5, <2>6
    <2>8. QED
      BY <2>2, <2>3, <2>6, <2>7 DEF CachedChunk
  <1>8. ReadersExact'
    <2>1. SUFFICES ASSUME NEW r \in Reader
                   PROVE  ReaderExact(request[r], cached, content', changes + 1)
      BY <1>2 DEF ReadersExact
    <2>2. PICK m \in ReaderType : m = request[r]
      BY <1>3, ReaderFacts
    <2>3. ReaderExact(m, cached, content, changes)
      BY <1>3, <2>2 DEF ReadersExact
    <2>4. m.head.v \in Nat /\ m.loc \in Location
      BY DEF ReaderType, Version
    <2>5. Url(m.loc) \in Urls
      BY <2>4, UrlOfLocation
    <2>6. ASSUME VersionKnown(m, content, changes)
          PROVE  VersionKnown(m, content', changes + 1)
      <3>1. /\ m.head.file = Home(m.loc) /\ m.head.v <= changes /\ m.size = m.head.size
            /\ m.head.v = content[Url(m.loc)].v => m.head = content[Url(m.loc)]
        BY <2>6 DEF VersionKnown
      <3>2. m.head.v <= changes + 1 /\ m.head.v # changes + 1
        BY <1>3, <2>4, <3>1
      <3>3. m.head.v = content'[Url(m.loc)].v => content'[Url(m.loc)] = content[Url(m.loc)]
        BY <1>5, <2>5, <3>2
      <3>4. QED
        BY <3>1, <3>2, <3>3 DEF VersionKnown
    <2>7. QED
      BY <2>2, <2>3, <2>6 DEF ReaderExact
  <1>9. QED
    BY <1>6, <1>7, <1>8 DEF ExactInv

LEMMA ExactEvict ==
    ASSUME ExactInv, NEW k, EvictChunk(k)
    PROVE  ExactInv'
  <1>1. cached' = [x \in DOMAIN cached \ {k} |-> cached[x]] /\ UNCHANGED <<server, content, request, changes>>
    BY DEF EvictChunk, Restrict
  <1>2. DOMAIN cached' \subseteq DOMAIN cached /\ \A x \in DOMAIN cached' : cached'[x] = cached[x]
    BY <1>1
  <1>3. CacheExact'
    BY <1>1, <1>2 DEF ExactInv, CacheExact
  <1>4. \A r \in Reader : ChunksKnown(request[r], cached) => ChunksKnown(request[r], cached')
    BY <1>2 DEF ChunksKnown
  <1>5. ReadersExact'
    BY <1>1, <1>4 DEF ExactInv, ReadersExact, ReaderExact
  <1>6. OneVersion'
    BY <1>1 DEF ExactInv, OneVersion
  <1>7. QED
    BY <1>3, <1>5, <1>6 DEF ExactInv

LEMMA ExactStep ==
    ASSUME HttpParametersOK, OneFilePerKey, NoMovedRanges, FilesInv, ExactInv, [HttpNext]_httpVars
    PROVE  ExactInv'
  <1>1. CASE \E r \in Reader : Begin(r) \/ Operation(r) \/ SendFails(r)
    BY <1>1, ExactOthers, ExactHead, ExactReadCached, ExactReadFetched DEF Operation
  <1>2. CASE \E u \in Urls : Replace(u)
    BY <1>2, ExactReplace
  <1>3. CASE \E k \in DOMAIN cached : EvictChunk(k)
    BY <1>3, ExactEvict
  <1>4. CASE UNCHANGED httpVars
    BY <1>4 DEF httpVars, ExactInv, OneVersion, CacheExact, ReadersExact
  <1>5. QED
    BY <1>1, <1>2, <1>3, <1>4 DEF HttpNext

\* The bytes a reader gets are those of the file at the URL in its LOCATION, with
\* its query string, in one of the versions that were served: for every set of
\* LOCATIONs in which two that differ only in their scheme are one file (the key of
\* a cached chunk has no scheme), every server, also one that answers with other
\* ranges than it was asked for, and however readers, evictions and replacements of
\* the files interleave (try_prepare_http_url, get_uri, CacheKey).
THEOREM BytesOfTheLocation ==
    ASSUME HttpParametersOK, OneFilePerKey
    PROVE  HttpSpec => []FromItsLocation
  <1>1. HttpInit => FilesInv
    BY FilesInit
  <1>2. FilesInv /\ [HttpNext]_httpVars => FilesInv'
    BY FilesStep
  <1>3. FilesInv => FromItsLocation
    <2> SUFFICES ASSUME FilesInv, NEW r \in Reader, request[r].loc.escapes = 0,
                        NEW i \in DOMAIN request[r].data
                 PROVE  request[r].data[i].file = FileAt(request[r].loc)
      BY DEF FromItsLocation
    <2>1. request[r].data[i].file = Home(request[r].loc)
      BY DEF FilesInv, ReadersOfFiles, OfFile
    <2>2. request[r].loc \in Location
      BY DEF FilesInv, HttpType, ReaderType
    <2>3. QED
      BY <2>1, <2>2, UrlIs DEF Home
  <1>4. QED
    BY <1>1, <1>2, <1>3, PTL DEF HttpSpec

\* A scan or a GET that succeeds, with bytes of the one version its HEAD or its own
\* answer was about, has every byte of that version in its place and no other: for
\* every length of a file and of a chunk, with chunks of any age in the cache, and
\* with files replaced between the requests (get_range, head_via_get).  Servers that
\* send another range than the one asked for are excluded: get_range does not look
\* at Content-Range.
THEOREM ReadsOfOneVersionAreExact ==
    ASSUME HttpParametersOK, OneFilePerKey, NoMovedRanges
    PROVE  HttpSpec => []ExactIfUnchanged
  <1>1. HttpInit => FilesInv /\ ExactInv
    BY FilesInit, ExactInit
  <1>2. FilesInv /\ ExactInv /\ [HttpNext]_httpVars => FilesInv' /\ ExactInv'
    BY FilesStep, ExactStep
  <1>3. ExactInv => ExactIfUnchanged
    BY DEF ExactInv, ReadersExact, ReaderExact, ReadDone, ExactIfUnchanged, At
  <1>4. QED
    BY <1>1, <1>2, <1>3, PTL DEF HttpSpec
=============================================================================
