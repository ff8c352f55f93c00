----------------------------- MODULE HttpStore ------------------------------
(***************************************************************************)
(* External tables over HTTP (object_store/http.rs): the LOCATION of a      *)
(* table and the URL requested for it, HEAD and its emulation by GET, whole *)
(* and ranged reads, and the chunk cache the http and https stores share.   *)
(* The HTTP server is external: it may ignore ranges, leave headers out,    *)
(* fail any request and replace a file at any time.  The inner life of the  *)
(* cache is module ChunkCache.                                              *)
(***************************************************************************)
EXTENDS Naturals, Sequences, Functions, FiniteSetsExt

CONSTANTS Reader,        \* concurrent users of the stores
          Location,      \* LOCATION clauses: [scheme, path, query, escapes]
          SchemesAgree,  \* http and https serve the same files
          Servers,       \* behaviours of the HTTP server (subset of ServerKind)
          Op,            \* operations readers ask for (subset of AllOps)
          MaxSize,       \* bound on the length of a file, in bytes
          ChunkSize,     \* min_fetch_size
          MaxChanges     \* bound on the replacements of files

VARIABLES server,    \* how the server behaves
          content,   \* the file at each URL: its version and its length
          cached,    \* chunks cached by both stores: key -> bytes
          request,   \* the operation of each reader and how far it got
          changes

httpVars == <<server, content, cached, request, changes>>

ServerKind == [head : {"ok", "forbidden", "no_length", "no_ranges"},
               ranges : {"yes", "ignored", "moved"},
               total : {"size", "star", "absent"}]

AllOps == {"scan", "get", "get_opts", "list", "write"}

(* LOCATION clauses are URLs with one of the two schemes, and the sizes are *)
(* sizes.                                                                   *)
HttpParametersOK ==
    /\ MaxSize \in Nat /\ ChunkSize \in Nat \ {0} /\ MaxChanges \in Nat
    /\ Servers \subseteq ServerKind /\ Op \subseteq AllOps /\ Location # {}
    /\ \A l \in Location :
          /\ l = [scheme |-> l.scheme, path |-> l.path, query |-> l.query, escapes |-> l.escapes]
          /\ l.scheme \in {"http", "https"} /\ l.escapes \in Nat

(* escapes counts the layers of percent-encoding on the reserved characters *)
(* of a URL's path and query: none in "a+b", one in "a%2Bb", two in         *)
(* "a%252Bb".  Decoding takes one layer away, and leaves what has none.     *)
Decode(u) == [scheme |-> u.scheme, path |-> u.path, query |-> u.query,
              escapes |-> IF u.escapes > 0 THEN u.escapes - 1 ELSE 0]

try_prepare_http_url_Plain(l) ==
    [scheme |-> l.scheme, path |-> l.path, query |-> "", escapes |-> l.escapes]

(* try_prepare_http_url: anyhost as the host, and the rest percent-encoded, *)
(* its escapes too, so that the query survives as a part of the path        *)
try_prepare_http_url(l) ==
    [scheme |-> l.scheme, path |-> l.path, query |-> l.query, escapes |-> l.escapes + 1]

(* What DataFusion hands to the store of the URL's scheme: the path, decoded *)
from_url_path(u) == Decode(u)

(* get_uri: the scheme of the store, and the path decoded once more *)
get_uri(p) == Decode(p)

Url(l) == get_uri(from_url_path(try_prepare_http_url(l)))

(* CacheKey: the path and the range; the scheme is no part of it *)
CacheKey(l, k) == LET p == from_url_path(try_prepare_http_url(l))
                  IN  [path |-> p.path, query |-> p.query, escapes |-> p.escapes, chunk |-> k]

Keys == {CacheKey(l, k) : l \in Location, k \in 0..MaxSize}

Queries == {l.query : l \in Location} \cup {""}
Escapes == {l.escapes : l \in Location} \cup {Url(l).escapes : l \in Location}
Urls == {[scheme |-> s, path |-> l.path, query |-> q, escapes |-> e] :
            s \in {"http", "https"}, l \in Location, q \in Queries, e \in Escapes}

(* The file at a URL: one file behind both schemes if they agree *)
FileAt(u) == IF SchemesAgree THEN [path |-> u.path, query |-> u.query, escapes |-> u.escapes] ELSE u

(* Bytes from..to-1 of version c of a file *)
Bytes(c, from, to) == [i \in 1..(to - from) |-> [file |-> c.file, v |-> c.v, pos |-> from + i - 1]]

Idle == LET l == CHOOSE l \in Location : TRUE
        IN  [pc |-> "idle", loc |-> l, op |-> "none", lo |-> 0, hi |-> 0,
             head |-> [file |-> FileAt(Url(l)), v |-> 0, size |-> 0], data |-> <<>>, from |-> 0, size |-> 0]

HttpInit == /\ server \in Servers
            /\ \E n \in 0..MaxSize : content = [u \in Urls |-> [file |-> FileAt(u), v |-> 0, size |-> n]]
            /\ cached = [k \in {} |-> <<>>]
            /\ request = [r \in Reader |-> Idle]
            /\ changes = 0

(* The server replaces a file *)
Replace(u) ==
    /\ changes < MaxChanges
    /\ changes' = changes + 1
    /\ \E n \in 0..MaxSize :
          content' = [w \in Urls |-> IF FileAt(w) # FileAt(u) THEN content[w]
                                     ELSE [content[w] EXCEPT !.v = changes + 1, !.size = n]]
    /\ UNCHANGED <<server, cached, request>>

EvictChunk(k) == /\ k \in DOMAIN cached
                 /\ cached' = Restrict(cached, DOMAIN cached \ {k})
                 /\ UNCHANGED <<server, content, request, changes>>

(***************************************************************************)
(* The answer to GET with "Range: bytes=lo-(hi-1)"                          *)
(***************************************************************************)
Ranged(c, lo, hi) ==
    IF server.ranges = "ignored"
    THEN [status |-> 200, from |-> 0, to |-> c.size]
    ELSE IF lo >= c.size THEN [status |-> 416, from |-> 0, to |-> 0]
    ELSE [status |-> 206, from |-> IF server.ranges = "moved" THEN 0 ELSE lo,
          to |-> Min({hi, c.size})]

HasLength == server.head # "no_length"

(***************************************************************************)
(* Operations                                                              *)
(***************************************************************************)
Step(r, rec) == /\ request' = [request EXCEPT ![r] = rec]
                /\ UNCHANGED <<server, content, changes>>

At(r, pc) == request[r].pc = pc
ServedFile(r) == content[Url(request[r].loc)]

(* A reader asks for an operation.  A listing is a HEAD of its prefix;      *)
(* writes, and a listing without a prefix, are refused without a request.   *)
Begin(r) ==
    /\ request[r].pc \in {"idle", "ok", "error", "panic"}
    /\ \E l \in Location, op \in Op, lo \in 0..MaxSize - 1, hi \in 1..MaxSize :
        /\ lo < hi /\ (op # "get_opts" => lo = 0 /\ hi = MaxSize)
        /\ Step(r, [Idle EXCEPT !.loc = l, !.op = op, !.lo = lo, !.hi = hi,
                                !.pc = CASE op \in {"scan", "list"} -> "head"
                                         [] op \in {"get", "get_opts"} -> "get"
                                         [] op = "write" -> "error"])
    /\ UNCHANGED cached

(* A scan goes on to read what it knows the length of; a listing is done.   *)
AfterHead(m) == IF m.op = "list" THEN "ok" ELSE "read"

(* head: the length, if the server says that it serves ranges; a 403 is     *)
(* taken for a pre-signed URL                                               *)
HeadRequest(r) ==
    /\ At(r, "head")
    /\ \/ server.head = "ok" /\ Step(r, [request[r] EXCEPT !.head = ServedFile(r), !.size = ServedFile(r).size,
                                                           !.pc = AfterHead(request[r])])
       \/ server.head = "forbidden" /\ Step(r, [request[r] EXCEPT !.pc = "head_via_get"])
       \/ server.head \in {"no_length", "no_ranges"} /\ Step(r, [request[r] EXCEPT !.pc = "error"])
    /\ UNCHANGED cached

TotalLength_End(answer, c) == answer.to

(* The fourth group of CONTENT_RANGE_RE *)
TotalLength(answer, c) == c.size

(* head_via_get: GET bytes=0-0; the length is the total of Content-Range,   *)
(* whose capture group is unwrapped                                         *)
HeadViaGet(r) ==
    LET a == Ranged(ServedFile(r), 0, 1)
    IN  /\ At(r, "head_via_get")
        /\ Step(r, IF a.status = 206 /\ server.total = "size"
                   THEN [request[r] EXCEPT !.head = ServedFile(r), !.pc = AfterHead(request[r]),
                                           !.size = TotalLength(a, ServedFile(r))]
                   ELSE [request[r] EXCEPT !.pc = IF a.status = 206 /\ server.total = "absent"
                                                  THEN "panic" ELSE "error"])
        /\ UNCHANGED cached

(* HttpObjectStore::get_range of one chunk: only a 206 is taken *)
HttpGetRange(a) == a.status = 206

(* The bytes of the next chunk: from the cache, or fetched and cached *)
Chunk(r, k, data) ==
    LET e == Min({(k + 1) * ChunkSize, request[r].size})
        got == request[r].data \o data
    IN  [request[r] EXCEPT !.data = IF e = request[r].size /\ Len(got) > e THEN SubSeq(got, 1, e) ELSE got,
                           !.lo = k + 1,
                           !.pc = IF e = request[r].size THEN "ok" ELSE "read"]

(* CachingObjectStore::get_range of the whole file, chunk by chunk: what is *)
(* left of the chunks is cut to the length asked for                        *)
ReadCached(r) ==
    LET key == CacheKey(request[r].loc, request[r].lo)
    IN  /\ At(r, "read") /\ request[r].size > 0 /\ key \in DOMAIN cached
        /\ Step(r, Chunk(r, request[r].lo, cached[key]))
        /\ UNCHANGED cached

ReadFetched(r) ==
    LET k == request[r].lo
        key == CacheKey(request[r].loc, k)
        a == Ranged(ServedFile(r), k * ChunkSize, (k + 1) * ChunkSize)
        data == Bytes(ServedFile(r), a.from, a.to)
    IN  /\ At(r, "read") /\ request[r].size > 0 /\ key \notin DOMAIN cached
        /\ \/ /\ HttpGetRange(a)
              /\ cached' = [x \in DOMAIN cached \cup {key} |-> IF x = key THEN data ELSE cached[x]]
              /\ Step(r, Chunk(r, k, data))
           \/ ~ HttpGetRange(a) /\ Step(r, [request[r] EXCEPT !.pc = "error"]) /\ UNCHANGED cached

ReadNothing(r) == /\ At(r, "read") /\ request[r].size = 0
                  /\ Step(r, [request[r] EXCEPT !.pc = "ok"]) /\ UNCHANGED cached

(* get and get_opts pass the cache by: Content-Length is needed, and with a *)
(* range a Content-Range with a total, which then says what was received    *)
GetOpts(r) ==
    LET c == ServedFile(r)
        a == Ranged(c, request[r].lo, request[r].hi)
    IN  /\ At(r, "get")
        /\ \/ /\ request[r].op = "get" /\ HasLength
              /\ Step(r, [request[r] EXCEPT !.pc = "ok", !.head = c, !.size = c.size,
                                            !.data = Bytes(c, 0, c.size)])
           \/ /\ request[r].op = "get_opts" /\ HasLength /\ a.status = 206 /\ server.total = "size"
              /\ Step(r, [request[r] EXCEPT !.pc = "ok", !.head = c, !.size = TotalLength(a, c),
                                            !.from = a.from, !.data = Bytes(c, a.from, a.to)])
           \/ /\ ~ HasLength \/ (request[r].op = "get_opts" /\ (a.status # 206 \/ server.total # "size"))
              /\ Step(r, [request[r] EXCEPT !.pc = "error"])
        /\ UNCHANGED cached

(* send: any request may fail *)
SendFails(r) == /\ request[r].pc \in {"head", "head_via_get", "get", "read"}
                /\ Step(r, [request[r] EXCEPT !.pc = "error"]) /\ UNCHANGED cached

Operation(r) == \/ HeadRequest(r) \/ HeadViaGet(r) \/ ReadCached(r) \/ ReadFetched(r)
                \/ ReadNothing(r) \/ GetOpts(r)

HttpNext == \/ \E r \in Reader : Begin(r) \/ Operation(r) \/ SendFails(r)
            \/ \E u \in Urls : Replace(u)
            \/ \E k \in DOMAIN cached : EvictChunk(k)

HttpSpec == HttpInit /\ [][HttpNext]_httpVars

(***************************************************************************)
(* Properties                                                              *)
(***************************************************************************)

(* A read that succeeds, of bytes of the one version its HEAD (or its own   *)
(* answer) was about, has every byte in its place and none missing, whether *)
(* the chunks were cached or fetched, by whichever reader, and however HEAD *)
(* was answered (get_range, head_via_get).                                  *)
ExactIfUnchanged ==
    \A r \in Reader :
        LET m == request[r]
        IN  (/\ At(r, "ok") /\ m.op \in {"scan", "get"}
             /\ \A i \in DOMAIN m.data : m.data[i].v = m.head.v)
            => m.data = Bytes(m.head, 0, m.head.size)

(* The bytes a reader gets are those of the file at the URL in its         *)
(* LOCATION, with its scheme and its query string (a signature), now or in  *)
(* an earlier version (try_prepare_http_url, get_uri, new_from_sibling), if *)
(* that URL has no escapes: others lose a layer of them (http.rs:148), so   *)
(* that "a%2Bb" asks for "a+b".                                             *)
FromItsLocation ==
    \A r \in Reader : request[r].loc.escapes = 0 =>
        \A i \in DOMAIN request[r].data : request[r].data[i].file = FileAt(request[r].loc)

=============================================================================
