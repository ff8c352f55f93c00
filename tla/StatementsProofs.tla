-------------------------- MODULE StatementsProofs ---------------------------
(***************************************************************************)
(* Proofs about Statements, for any number of sessions and any workload:   *)
(* what concurrent statements do to the Delta tables, to their files and   *)
(* rows, and to the catalog.                                               *)
(***************************************************************************)
EXTENDS Statements, FiniteSetTheorems, WellFoundedInduction, TLAPS

----------------------------------------------------------------------------
(***************************************************************************)
(* What concurrent statements do to the Delta tables, for any number of     *)
(* sessions and any workload, when the object store refuses to replace a    *)
(* log entry.                                                               *)
(***************************************************************************)

----------------------------------------------------------------------------
(* Directories                                                             *)

\* Statements that delete files or rows of tables.
Drops == Asks("drop") \/ Asks("drop_schema")

\* A CONVERT may find what a DROP has left of a directory, and take it over.
TakesOver == Asks("convert") /\ Drops

\* A directory that somebody may refer to: it has a log until a DROP comes.
Dir(u) == u \in DOMAIN log /\ (u \notin purged => Loadable(u))

\* A directory whose log is all there.
Alive(u) == Loadable(u) /\ (u \notin purged \/ ~TakesOver)

Commits == [add : SUBSET Nat, rem : SUBSET Nat]
Logs == {l \in UNION {[D -> Commits] : D \in SUBSET Nat} : \E n \in Nat : DOMAIN l \subseteq 0 .. n}

StoreShape ==
    /\ work \in DOMAIN Workloads
    /\ log \in Seq(Logs)
    /\ objs \in Seq(SUBSET Nat) /\ Len(objs) = Len(log)
    /\ rows \in Seq(SUBSET Nat)

\* A log that is all there has no gaps; one that is not there, and was not
\* deleted, is that of the directory a CONVERT may name.
DirOK(u) ==
    /\ objs[u] \subseteq DOMAIN rows
    /\ \A v \in DOMAIN log[u] : log[u][v].add \subseteq DOMAIN rows /\ log[u][v].rem \subseteq DOMAIN rows
    /\ Alive(u) => \E n \in Nat : DOMAIN log[u] = 0 .. n
    /\ u \notin purged /\ ~Loadable(u) => DOMAIN log[u] = {}

StoreOK ==
    /\ purged \subseteq DOMAIN log
    /\ purged # {} => Drops
    /\ \A u \in DOMAIN log : DirOK(u)
    /\ Workload.imports = 1 => 1 \in DOMAIN log

----------------------------------------------------------------------------
(* The catalog: in the database, in memory, and in the snapshots sessions   *)
(* have made of it                                                          *)

DbShape(d) ==
    /\ DOMAIN d = {"schemas", "tables", "versions"}
    /\ d.tables \subseteq [id : Nat, name : Tables, uuid : Nat]
    /\ d.versions \subseteq [id : Nat, table : Nat, version : Nat, columns : BOOLEAN]
    /\ \E n \in Nat : \A r \in d.tables : r.id <= n
    /\ \E n \in Nat : \A v \in d.versions : v.id <= n

DbOK(d) == \A r \in d.tables : Dir(r.uuid)

EntryOK(e) ==
    /\ DOMAIN e = {"uuid", "version"}
    /\ Dir(e.uuid)
    /\ e.version # NotLoaded => /\ e.version \in Nat
                                /\ Alive(e.uuid) => e.version \in DOMAIN log[e.uuid]

MapOK(m) ==
    /\ DOMAIN m = {"schemas", "tables", "versioned"}
    /\ DOMAIN m.tables \subseteq Tables
    /\ \A n \in DOMAIN m.tables : EntryOK(m.tables[n])
    /\ \A x \in m.versioned : Dir(x[2]) /\ Asks("travel")

----------------------------------------------------------------------------
(* Sessions                                                                *)

SesFields == {"pc", "st", "snap", "uuid", "tab", "base", "adds", "rems", "row", "new",
              "left", "cur", "again", "seen"}

\* Where a statement is tells what it is.
Inserts == {"insert", "ctas", "upload"}
CtlOK(pc, op) ==
    /\ pc = "etag" => op = "select"
    /\ pc = "read" => op \in {"select", "travel"}
    /\ pc = "plan_travel" => op = "travel"
    /\ pc = "file_to_table" => op = "upload"
    /\ pc = "convert" => op = "convert"
    /\ pc = "create" => op \in {"create", "ctas", "upload"}
    /\ pc = "uuid" => op \in Inserts
    /\ pc = "upload" => op \in Inserts \cup {"update", "delete"}
    /\ pc = "load" => op \in Inserts
    /\ pc = "dir" => op = "update"
    /\ pc = "exec_delete" => op = "delete"
    /\ pc = "commit" => op \in Inserts \cup {"update", "delete", "truncate"}
    /\ pc = "vacuum" => op = "vacuum"
    /\ pc \in {"purge", "drop_get", "drop_row", "drop_next"} => op \in {"drop", "drop_schema"}
    /\ pc = "drop_next" => op = "drop_schema"

Early == {"reload", "register", "plan", "exec", "create", "convert", "uuid",
          "file_to_table", "exec_delete"}
Creating == {"table_row", "version_row", "column_rows", "register_table"}
Reading == {"etag", "read", "plan_travel"}

\* A version of a directory that was loaded.
At_Version(u, v) == Dir(u) /\ v \in Nat /\ (Alive(u) => v \in DOMAIN log[u])

\* The files a session wants to remove are those of the version it loaded.
Loaded(x) ==
    /\ At_Version(x.tab, x.base)
    /\ x.rems \subseteq DOMAIN rows
    /\ Alive(x.tab) => x.rems \subseteq Active(x.tab, x.base)

\* What is in the file a session has written.
Filled(x) ==
    \A f \in x.adds : /\ f \in DOMAIN rows
                      /\ x.st.op = "update" => rows[f] = RowsIn(x.rems)
                      /\ x.st.op = "delete" => rows[f] \subseteq RowsIn(x.rems)

SesOK(x) ==
    /\ x.pc \in Early \cup Creating => x.adds = {} /\ x.rems = {}
    /\ x.pc \in Creating \cup {"purge", "exec_delete"} => Dir(x.uuid)
    /\ x.pc \in Reading =>
         /\ At_Version(x.uuid, x.base)
         /\ Alive(x.uuid) => x.adds = Active(x.uuid, x.base)
    /\ x.pc \in {"upload", "load"} =>
         /\ Dir(x.uuid)
         /\ x.st.op \in Inserts => x.tab = x.uuid /\ x.rems = {}
         /\ x.pc = "upload" => x.adds = {}
    /\ x.pc = "load" => Filled(x)
    /\ x.pc = "upload" /\ x.st.op \notin Inserts => Loaded(x)
    /\ x.pc = "dir" => Loaded(x) /\ x.adds = {}
    /\ x.pc = "commit" =>
         /\ Loaded(x) /\ Filled(x)
         /\ x.st.op \in Inserts => x.rems = {}
         /\ x.st.op = "update" /\ x.adds = {} => x.rems = {}
    /\ x.pc = "vacuum" => At_Version(x.tab, x.base)
    /\ x.pc \in {"last_version", "new_version"} => x.base \in Nat

SesShape ==
    /\ DOMAIN ses = Sessions
    /\ \A s \in Sessions :
         /\ DOMAIN ses[s] = SesFields
         /\ CtlOK(ses[s].pc, ses[s].st.op)
         /\ ses[s].pc # "idle" => ses[s].st \in Workload.requests

Inv ==
    /\ StoreShape /\ StoreOK /\ DbShape(db) /\ DbOK(db) /\ SesShape
    /\ MapOK(mem)
    /\ \A s \in Sessions : MapOK(ses[s].snap) /\ SesOK(ses[s])

----------------------------------------------------------------------------
(* Numbers                                                                 *)

\* The least-number principle, for a set.
LEMMA LeastNat ==
    ASSUME NEW S \in SUBSET Nat, S # {}
    PROVE  \E x \in S : \A y \in S : x <= y
  <1> DEFINE R == {ss \in Nat \X Nat : ss[1] < ss[2]}
  <1>1. IsWellFoundedOn(R, Nat)
    BY NatLessThanWellFounded DEF OpToRel
  <1>2. \E x \in S : \A y \in S : ~ (<<y, x>> \in R)
    <2> HIDE DEF R
    <2>1. QED
      BY <1>1, WFMin
  <1>3. PICK x \in S : \A y \in S : ~ (<<y, x>> \in R)
    BY <1>2
  <1>4. ASSUME NEW y \in S
        PROVE  x <= y
    <2>1. <<y, x>> \notin R /\ x \in Nat /\ y \in Nat
      BY <1>3
    <2>2. ~ (y < x)
      BY <2>1
    <2>3. QED
      BY <2>1, <2>2
  <1>5. QED
    BY <1>4

LEMMA MinOf ==
    ASSUME NEW S \in SUBSET Nat, S # {}
    PROVE  Min(S) \in S /\ \A y \in S : Min(S) <= y
  BY LeastNat DEF Min

\* A bounded set of numbers has a greatest one.
LEMMA MaxOf ==
    ASSUME NEW S \in SUBSET Nat, S # {}, NEW n \in Nat, \A y \in S : y <= n
    PROVE  Max(S) \in S /\ \A y \in S : y <= Max(S)
  <1> DEFINE B == {b \in Nat : \A y \in S : y <= b}
  <1>1. B \in SUBSET Nat /\ n \in B
    OBVIOUS
  <1>2. PICK b \in B : \A c \in B : b <= c
    BY <1>1, LeastNat
  <1>3. b \in S
    <2> SUFFICES ASSUME b \notin S
                 PROVE  FALSE
      OBVIOUS
    <2>1. b # 0
      <3>1. PICK y \in S : y <= b
        BY <1>2
      <3>2. QED
        BY <3>1
    <2>2. b - 1 \in Nat /\ \A y \in S : y <= b - 1
      BY <2>1
    <2>3. b <= b - 1
      BY <1>2, <2>2
    <2>4. QED
      BY <2>3, <2>2
  <1>4. \A y \in S : b >= y
    OBVIOUS
  <1>5. QED
    BY <1>3, <1>4 DEF Max

----------------------------------------------------------------------------
(* Logs                                                                    *)

LEMMA LogIs ==
    ASSUME NEW l \in Logs
    PROVE  /\ DOMAIN l \subseteq Nat
           /\ \E n \in Nat : DOMAIN l \subseteq 0 .. n
           /\ \A v \in DOMAIN l : l[v] \in Commits
           /\ l = [v \in DOMAIN l |-> l[v]]
  <1>1. PICK D \in SUBSET Nat : l \in [D -> Commits]
    BY DEF Logs
  <1>2. \E n \in Nat : DOMAIN l \subseteq 0 .. n
    BY DEF Logs
  <1>3. QED
    BY <1>1, <1>2

LEMMA LogMake ==
    ASSUME NEW D \in SUBSET Nat, NEW l \in [D -> Commits], NEW n \in Nat, D \subseteq 0 .. n
    PROVE  l \in Logs
  BY DEF Logs

LEMMA EmptyLog == <<>> \in Logs /\ DOMAIN <<>> = {}
  <1>1. <<>> \in [{} -> Commits] /\ {} \in SUBSET Nat /\ {} \subseteq 0 .. 0
    OBVIOUS
  <1>2. QED
    BY <1>1, LogMake

LEMMA CommitLog ==
    ASSUME NEW l \in Logs, NEW v \in Nat, NEW add \in SUBSET Nat, NEW rem \in SUBSET Nat,
           NEW m, m = WithCommit(l, v, add, rem)
    PROVE  m \in Logs
  <1> DEFINE D == DOMAIN l \cup {v}
  <1>1. PICK n \in Nat : DOMAIN l \subseteq 0 .. n
    BY LogIs
  <1>2. D \in SUBSET Nat /\ D \subseteq 0 .. n + v
    BY <1>1, LogIs
  <1>3. m \in [D -> Commits]
    BY LogIs DEF WithCommit, Commits
  <1>4. QED
    <2> HIDE DEF D
    <2>1. n + v \in Nat
      OBVIOUS
    <2>2. QED
      BY <1>2, <1>3, <2>1, LogMake

LEMMA CommitIs ==
    ASSUME NEW l, NEW v, NEW add, NEW rem, NEW m, m = WithCommit(l, v, add, rem)
    PROVE  /\ DOMAIN m = DOMAIN l \cup {v}
           /\ m[v].add = add /\ m[v].rem = rem
           /\ \A w \in DOMAIN l : w # v => m[w] = l[w]
  BY DEF WithCommit

\* The log of a directory that has none.
LEMMA NewLog ==
    ASSUME NEW add \in SUBSET Nat, NEW l, l = WithCommit(<<>>, 0, add, {})
    PROVE  l \in Logs /\ DOMAIN l = 0 .. 0 /\ l[0].add = add /\ l[0].rem = {}
  <1>1. DOMAIN l = {0} /\ l[0].add = add /\ l[0].rem = {}
    BY EmptyLog DEF WithCommit
  <1>2. l \in [{0} -> Commits]
    BY EmptyLog DEF WithCommit, Commits
  <1>3. {0} \in SUBSET Nat /\ {0} \subseteq 0 .. 0 /\ 0 \in Nat
    OBVIOUS
  <1>4. l \in Logs
    BY <1>2, <1>3, LogMake
  <1>5. QED
    BY <1>1, <1>4

LEMMA LatestIs ==
    ASSUME NEW l \in Logs, DOMAIN l # {}
    PROVE  Max(DOMAIN l) \in DOMAIN l /\ \A w \in DOMAIN l : w <= Max(DOMAIN l)
  <1>1. PICK n \in Nat : DOMAIN l \subseteq 0 .. n
    BY LogIs
  <1>2. DOMAIN l \in SUBSET Nat /\ \A w \in DOMAIN l : w <= n
    BY <1>1
  <1>3. QED
    BY <1>2, MaxOf

LEMMA LatestWhole ==
    ASSUME NEW n \in Nat
    PROVE  Max(0 .. n) = n
  <1> DEFINE S == 0 .. n
  <1>1. S \in SUBSET Nat /\ n \in S /\ \A y \in S : y <= n
    OBVIOUS
  <1>2. Max(S) \in S /\ n <= Max(S)
    <2> HIDE DEF S
    <2>1. QED
      BY <1>1, MaxOf
  <1>3. QED
    BY <1>2

\* The version of a commit is new, follows the one that was loaded, and is the
\* next one of a log without gaps.
LEMMA NextVersionIs ==
    ASSUME AtomicRename, NEW l \in Logs, NEW v \in Nat
    PROVE  /\ NextVersion(l, v) \in Nat
           /\ NextVersion(l, v) > v
           /\ NextVersion(l, v) \notin DOMAIN l
           /\ \A n \in Nat : DOMAIN l = 0 .. n /\ v <= n => NextVersion(l, v) = n + 1
  <1> DEFINE D == DOMAIN l
             c == Cardinality(D)
             I == v + 1 .. v + 1 + c
             m == Min(I \ D)
  <1>1. IsFiniteSet(D) /\ c \in Nat
    <2>1. PICK n \in Nat : D \subseteq 0 .. n
      BY LogIs
    <2>2. D \in SUBSET Nat /\ \A x \in D : x <= n
      BY <2>1
    <2>3. IsFiniteSet(D)
      BY <2>2, FS_BoundedSetOfNaturals
    <2>4. QED
      BY <2>3, FS_CardinalityType
  <1>2. I \ D # {}
    <2> SUFFICES ASSUME I \subseteq D
                 PROVE  FALSE
      OBVIOUS
    <2>1. Cardinality(I) = c + 1
      <3>1. v + 1 \in Int /\ v + 1 + c \in Int /\ ~(v + 1 > v + 1 + c)
            /\ (v + 1 + c) - (v + 1) + 1 = c + 1
        BY <1>1
      <3> HIDE DEF c
      <3>2. QED
        BY <3>1, FS_Interval
    <2>2. Cardinality(I) <= c
      <3> HIDE DEF I, D
      <3>1. I \in SUBSET D
        OBVIOUS
      <3>2. QED
        BY <1>1, <3>1, FS_Subset
    <2>3. QED
      BY <1>1, <2>1, <2>2
  <1>3. I \ D \in SUBSET Nat
    BY <1>1
  <1>4. m \in I \ D /\ \A y \in I \ D : m <= y
    <2> HIDE DEF I, D
    <2>1. QED
      BY <1>2, <1>3, MinOf
  <1>5. NextVersion(l, v) = m
    BY DEF NextVersion
  <1>6. m \in Nat /\ m > v /\ m \notin D
    BY <1>1, <1>4
  <1>7. ASSUME NEW n \in Nat, D = 0 .. n, v <= n
        PROVE  m = n + 1
    <2>1. c = n + 1
      BY <1>7, FS_Interval
    <2>2. n + 1 \in I \ D
      BY <1>7, <2>1
    <2>3. m <= n + 1
      BY <1>4, <2>2
    <2>4. m > n
      BY <1>4, <1>6, <1>7
    <2>5. QED
      BY <1>6, <2>3, <2>4
  <1>8. QED
    BY <1>5, <1>6, <1>7

\* The files of a version.
LEMMA ActiveIs ==
    ASSUME NEW u, NEW v, NEW f
    PROVE  f \in Active(u, v) <=>
             /\ \E w \in DOMAIN log[u] : w <= v /\ f \in log[u][w].add
             /\ ~ \E w \in DOMAIN log[u] : w <= v /\ f \in log[u][w].rem
  BY DEF Active

----------------------------------------------------------------------------
(* Steps of the object store                                               *)

LEMMA SeqExcept ==
    ASSUME NEW S, NEW q \in Seq(S), NEW i \in DOMAIN q, NEW e \in S
    PROVE  /\ [q EXCEPT ![i] = e] \in Seq(S)
           /\ Len([q EXCEPT ![i] = e]) = Len(q)
           /\ DOMAIN [q EXCEPT ![i] = e] = DOMAIN q
           /\ [q EXCEPT ![i] = e][i] = e
           /\ \A j \in DOMAIN q : j # i => [q EXCEPT ![i] = e][j] = q[j]
  OBVIOUS

LEMMA SeqAppend ==
    ASSUME NEW S, NEW q \in Seq(S), NEW e \in S
    PROVE  /\ Append(q, e) \in Seq(S)
           /\ Len(Append(q, e)) = Len(q) + 1
           /\ DOMAIN q = 1 .. Len(q) /\ Len(q) \in Nat
           /\ DOMAIN Append(q, e) = DOMAIN q \cup {Len(q) + 1}
           /\ Append(q, e)[Len(q) + 1] = e
           /\ \A j \in DOMAIN q : Append(q, e)[j] = q[j]
  OBVIOUS

\* What a step leaves of the directories, rows and versions that sessions and
\* catalogs refer to.
Grow ==
    /\ UNCHANGED work
    /\ DOMAIN log \subseteq DOMAIN log'
    /\ purged \subseteq purged'
    /\ DOMAIN rows \subseteq DOMAIN rows'
    /\ \A f \in DOMAIN rows : rows'[f] = rows[f]
    /\ \A u \in DOMAIN log : Dir(u) => Dir(u)'
    /\ \A u \in DOMAIN log : Dir(u) /\ Alive(u)' =>
         /\ Alive(u)
         /\ \A v \in DOMAIN log[u] : v \in DOMAIN log'[u] /\ log'[u][v] = log[u][v]

StoreGoal == StoreShape' /\ StoreOK' /\ Grow

StoreAction(s) ==
    \/ CreateDelta(s) \/ ConvertDelta(s) \/ Upload(s) \/ Commit(s) \/ Vacuum(s)
    \/ Purge(s) \/ PurgeFails(s)

\* Few actions change the object store.
LEMMA StoreActions ==
    ASSUME [Next]_vars
    PROVE  UNCHANGED <<storeVars, work>> \/ \E s \in Sessions : StoreAction(s)
  <1> USE DEF storeVars, envVars, StoreAction
  <1>1. ASSUME NEW s \in Sessions, Query(s)
        PROVE  UNCHANGED <<storeVars, work>>
    BY <1>1 DEF Query, Begin, BuildCatalog, RegisterCatalog, Plan, NotModified,
                ExecuteQuery, Read, RewriteTimeTravel, PlanTimeTravel
  <1>2. ASSUME NEW s \in Sessions, Dml(s)
        PROVE  UNCHANGED <<storeVars, work>> \/ StoreAction(s)
    BY <1>2 DEF Dml, GetTableUuid, LoadTable, ExecUpdate, ExecDelete,
                ExecTruncate, TableDir, SelectLastVersion, InsertNewVersion,
                CopyColumns, ExecVacuum, TrimVersions
  <1>3. ASSUME NEW s \in Sessions, Ddl(s)
        PROVE  UNCHANGED <<storeVars, work>> \/ StoreAction(s)
    BY <1>3 DEF Ddl, ExecCreate, InsertTableRow, InsertVersionRow, InsertColumnRows,
                RegisterTable, FileToTable, ExecDrop, DropGetTable, DropDeleteRow,
                ExecDropSchema, DropNextTable, DropNextVersion, DropSchemaRow, ExecCreateSchema,
                RenameGetTable, RenameRow
  <1>4. ASSUME NEW s \in Sessions, Fail(s)
        PROVE  UNCHANGED <<storeVars, work>>
    BY <1>4 DEF Fail
  <1>5. CASE UNCHANGED vars
    BY <1>5 DEF vars
  <1>6. QED
    BY <1>1, <1>2, <1>3, <1>4, <1>5 DEF Next

LEMMA WorkKept ==
    ASSUME work' = work
    PROVE  /\ Workload' = Workload
           /\ Drops' <=> Drops
           /\ TakesOver' <=> TakesOver
  BY DEF Workload, Drops, TakesOver, Asks

\* A step that changes nothing in the store.
LEMMA StoreSame ==
    ASSUME StoreShape, StoreOK, UNCHANGED <<storeVars, work>>
    PROVE  StoreGoal
  BY WorkKept DEF StoreShape, StoreOK, DirOK, StoreGoal, Grow, storeVars, Dir, Alive, Loadable

LEMMA CreateDeltaStore ==
    ASSUME Inv, NEW s \in Sessions, CreateDelta(s)
    PROVE  StoreGoal
  <1> USE DEF Inv
  <1>1. UNCHANGED <<work, rows, purged>>
    BY DEF CreateDelta, envVars
  <1>2. CASE UNCHANGED <<log, objs>>
    BY <1>1, <1>2, StoreSame DEF storeVars
  <1>3. CASE /\ log' = Append(log, WithCommit(<<>>, 0, {}, {}))
             /\ objs' = Append(objs, {})
    <2> DEFINE l == WithCommit(<<>>, 0, {}, {})
    <2>0. PICK u : u = Len(log) + 1
      OBVIOUS
    <2>1. l \in Logs /\ DOMAIN l = 0 .. 0 /\ l[0].add = {} /\ l[0].rem = {}
      <3>1. {} \in SUBSET Nat
        OBVIOUS
      <3>2. QED
        BY <3>1, NewLog
    <2> HIDE DEF l
    <2>2. /\ log' \in Seq(Logs) /\ Len(log') = Len(log) + 1
          /\ Len(log) \in Nat /\ DOMAIN log = 1 .. Len(log)
          /\ DOMAIN log' = DOMAIN log \cup {u} /\ log'[u] = l
          /\ \A w \in DOMAIN log : log'[w] = log[w]
      BY <1>3, <2>0, <2>1, SeqAppend DEF StoreShape, l
    <2>3. /\ objs' \in Seq(SUBSET Nat) /\ Len(objs') = Len(objs) + 1
          /\ DOMAIN objs = 1 .. Len(objs)
          /\ DOMAIN objs' = DOMAIN objs \cup {u} /\ objs'[u] = {}
          /\ \A w \in DOMAIN objs : objs'[w] = objs[w]
      <3>1. {} \in SUBSET Nat
        OBVIOUS
      <3>2. QED
        BY <1>3, <2>0, <3>1, SeqAppend DEF StoreShape
    <2>4. StoreShape'
      BY <1>1, <2>2, <2>3 DEF StoreShape
    <2>5. StoreOK'
      <3>1. DirOK(u)'
        BY <2>1, <2>2, <2>3 DEF DirOK, Loadable
      <3>2. ASSUME NEW w \in DOMAIN log
            PROVE  DirOK(w)'
        BY <1>1, <2>2, <2>3, WorkKept DEF DirOK, StoreOK, StoreShape, Alive, Loadable
      <3>3. QED
        BY <1>1, <2>2, <3>1, <3>2, WorkKept DEF StoreOK
    <2>6. Grow
      BY <1>1, <2>2, WorkKept DEF Grow, Dir, Alive, Loadable
    <2>7. QED
      BY <2>4, <2>5, <2>6 DEF StoreGoal
  <1>4. QED
    BY <1>2, <1>3 DEF CreateDelta

\* A directory without a log that nobody has deleted from gets one.
LEMMA ConvertDeltaStore ==
    ASSUME Inv, NEW s \in Sessions, ConvertDelta(s)
    PROVE  StoreGoal
  <1> USE DEF Inv
  <1>1. UNCHANGED <<work, objs, rows, purged>>
    BY DEF ConvertDelta, envVars
  <1>2. CASE UNCHANGED log
    BY <1>1, <1>2, StoreSame DEF storeVars
  <1>3. CASE /\ ~ Loadable(1)
             /\ log' = [log EXCEPT ![1] = WithCommit(<<>>, 0, objs[1], {})]
    <2> DEFINE l == WithCommit(<<>>, 0, objs[1], {})
    <2>0. 1 \in DOMAIN log /\ 1 \in DOMAIN objs /\ Asks("convert")
      <3>1. Asks("convert")
        BY DEF ConvertDelta, SesShape, CtlOK, At, Asks
      <3>2. Workload.imports = 1
        BY <3>1, StatementsAssumption DEF Asks, IsWorkload, StoreShape, Workload
      <3>3. QED
        BY <3>1, <3>2 DEF StoreOK, StoreShape
    <2>1. l \in Logs /\ DOMAIN l = 0 .. 0 /\ l[0].add = objs[1] /\ l[0].rem = {}
      <3>1. objs[1] \in SUBSET Nat
        BY <2>0 DEF StoreShape
      <3>2. QED
        BY <3>1, NewLog
    <2> HIDE DEF l
    <2>2. /\ log' \in Seq(Logs) /\ Len(log') = Len(log) /\ DOMAIN log' = DOMAIN log
          /\ log'[1] = l /\ \A w \in DOMAIN log : w # 1 => log'[w] = log[w]
      <3>1. log' = [log EXCEPT ![1] = l]
        BY <1>3 DEF l
      <3>2. QED
        BY <2>0, <2>1, <3>1, SeqExcept DEF StoreShape
    <2>3. StoreShape'
      BY <1>1, <2>2 DEF StoreShape
    <2>4. StoreOK'
      <3>1. DirOK(1)'
        BY <1>1, <2>0, <2>1, <2>2 DEF DirOK, StoreOK, Loadable
      <3>2. ASSUME NEW w \in DOMAIN log, w # 1
            PROVE  DirOK(w)'
        BY <1>1, <2>2, <3>2, WorkKept DEF DirOK, StoreOK, Alive, Loadable
      <3>3. QED
        BY <1>1, <2>2, <3>1, <3>2, WorkKept DEF StoreOK
    <2>5. Grow
      <3>1. ASSUME Dir(1)
            PROVE  ~ Alive(1)' /\ Dir(1)'
        BY <1>1, <1>3, <2>0, <2>1, <2>2, <3>1, WorkKept DEF Dir, Alive, StoreOK, TakesOver, Loadable
      <3>2. ASSUME NEW w \in DOMAIN log, w # 1, Dir(w)
            PROVE  Dir(w)' /\ (Alive(w)' => Alive(w))
        BY <1>1, <2>2, <3>2, WorkKept DEF Dir, Alive, Loadable
      <3>3. QED
        BY <1>1, <2>2, <3>1, <3>2 DEF Grow
    <2>6. QED
      BY <2>3, <2>4, <2>5 DEF StoreGoal
  <1>4. QED
    BY <1>2, <1>3 DEF ConvertDelta

\* A log that gets longer.
LEMMA ExtendStore ==
    ASSUME StoreShape, StoreOK, UNCHANGED <<work, rows, purged>>,
           NEW u \in DOMAIN log, Dir(u), NEW l \in Logs, log' = [log EXCEPT ![u] = l],
           objs' \in Seq(SUBSET Nat), Len(objs') = Len(objs),
           \A w \in DOMAIN log : objs'[w] \subseteq objs[w],
           \A v \in DOMAIN log[u] : v \in DOMAIN l /\ l[v] = log[u][v],
           \A v \in DOMAIN l : l[v].add \subseteq DOMAIN rows /\ l[v].rem \subseteq DOMAIN rows,
           0 \in DOMAIN l => 0 \in DOMAIN log[u],
           Alive(u) => \A n \in Nat : DOMAIN log[u] = 0 .. n => \E m \in Nat : DOMAIN l = 0 .. m
    PROVE  StoreGoal
  <1>1. /\ log' \in Seq(Logs) /\ Len(log') = Len(log) /\ DOMAIN log' = DOMAIN log
        /\ log'[u] = l /\ \A w \in DOMAIN log : w # u => log'[w] = log[w]
    BY SeqExcept DEF StoreShape
  <1>2. StoreShape'
    BY <1>1 DEF StoreShape
  <1>3. Alive(u)' <=> Alive(u)
    BY <1>1, WorkKept DEF Alive, Loadable
  <1>4. DirOK(u)'
    BY <1>1, <1>3 DEF DirOK, StoreOK, Dir, Loadable
  <1>5. ASSUME NEW w \in DOMAIN log, w # u
        PROVE  DirOK(w)'
    BY <1>1, <1>5, WorkKept DEF DirOK, StoreOK, Alive, Loadable
  <1>6. StoreOK'
    BY <1>1, <1>4, <1>5, WorkKept DEF StoreOK
  <1>7. ASSUME NEW w \in DOMAIN log, w # u
        PROVE  (Dir(w) => Dir(w)') /\ (Alive(w)' => Alive(w))
    BY <1>1, <1>7, WorkKept DEF Dir, Alive, Loadable
  <1>8. Dir(u)'
    BY <1>1 DEF Dir, Loadable
  <1>9. Grow
    BY <1>1, <1>3, <1>7, <1>8 DEF Grow
  <1>10. QED
    BY <1>2, <1>6, <1>9 DEF StoreGoal

LEMMA CommitStore ==
    ASSUME AtomicRename, Inv, NEW s \in Sessions, Commit(s)
    PROVE  StoreGoal
  <1> USE DEF Inv
  <1>1. UNCHANGED <<work, objs, rows, purged>>
    BY DEF Commit, envVars
  <1>2. CASE UNCHANGED log
    BY <1>1, <1>2, StoreSame DEF storeVars
  <1>3. CASE log' = [log EXCEPT ![ses[s].tab] =
                       WithCommit(@, NextVersion(log[ses[s].tab], CommitBase(s)),
                                  ses[s].adds, ses[s].rems)]
    <2>1. PICK u, b, adds, rems : u = ses[s].tab /\ b = ses[s].base
                                  /\ adds = ses[s].adds /\ rems = ses[s].rems
      OBVIOUS
    <2>2. PICK v : v = NextVersion(log[u], b)
      OBVIOUS
    <2>3. PICK l : l = WithCommit(log[u], v, adds, rems)
      OBVIOUS
    <2>4. log' = [log EXCEPT ![u] = l]
      BY <1>3, <2>1, <2>2, <2>3 DEF CommitBase
    <2>5. u \in DOMAIN log /\ Dir(u) /\ b \in Nat /\ adds \subseteq DOMAIN rows /\ rems \subseteq DOMAIN rows
      BY <2>1 DEF Commit, At, SesOK, Loaded, Filled, At_Version, Dir
    <2>6. log[u] \in Logs /\ adds \in SUBSET Nat /\ rems \in SUBSET Nat
      <3>1. log[u] \in Logs /\ DOMAIN rows \subseteq Nat
        BY <2>5 DEF StoreShape
      <3>2. QED
        BY <2>5, <3>1
    <2>7. /\ v \in Nat /\ v > b /\ v \notin DOMAIN log[u]
          /\ \A n \in Nat : DOMAIN log[u] = 0 .. n /\ b <= n => v = n + 1
      BY <2>2, <2>5, <2>6, NextVersionIs
    <2>8. /\ l \in Logs /\ DOMAIN l = DOMAIN log[u] \cup {v}
          /\ l[v].add = adds /\ l[v].rem = rems
          /\ \A w \in DOMAIN log[u] : w # v => l[w] = log[u][w]
      <3>1. l \in Logs
        BY <2>3, <2>6, <2>7, CommitLog
      <3>2. QED
        BY <2>3, <3>1 DEF WithCommit
    <2>9. Alive(u) => \A n \in Nat : DOMAIN log[u] = 0 .. n => \E m \in Nat : DOMAIN l = 0 .. m
      <3> SUFFICES ASSUME Alive(u), NEW n \in Nat, DOMAIN log[u] = 0 .. n
                   PROVE  \E m \in Nat : DOMAIN l = 0 .. m
        OBVIOUS
      <3>1. b <= n
        BY <2>1, <2>5 DEF Commit, At, SesOK, Loaded, At_Version
      <3>2. DOMAIN l = 0 .. n + 1
        BY <2>7, <2>8, <3>1
      <3>3. QED
        BY <3>2
    <2>10. \A w \in DOMAIN l : l[w].add \subseteq DOMAIN rows /\ l[w].rem \subseteq DOMAIN rows
      BY <2>5, <2>7, <2>8 DEF StoreOK, DirOK
    <2>11. 0 \in DOMAIN l => 0 \in DOMAIN log[u]
      BY <2>5, <2>7, <2>8
    <2>12. \A w \in DOMAIN log : objs'[w] \subseteq objs[w]
      BY <1>1
    <2>13. QED
      BY <1>1, <2>4, <2>5, <2>7, <2>8, <2>9, <2>10, <2>11, <2>12, ExtendStore DEF StoreShape
  <1>4. QED
    BY <1>2, <1>3 DEF Commit

LEMMA VacuumStore ==
    ASSUME AtomicRename, Inv, NEW s \in Sessions, Vacuum(s)
    PROVE  StoreGoal
  <1> USE DEF Inv
  <1>1. UNCHANGED <<work, rows, purged>>
    BY DEF Vacuum, envVars
  <1>2. CASE UNCHANGED <<log, objs>>
    BY <1>1, <1>2, StoreSame DEF storeVars
  <1>3. CASE ~ UNCHANGED <<log, objs>>
    <2>1. PICK u, b : u = ses[s].tab /\ b = ses[s].base
      OBVIOUS
    <2>2. PICK v : v = NextVersion(log[u], b)
      OBVIOUS
    <2>3. PICK k : k = WithCommit(log[u], v, {}, {})
      OBVIOUS
    <2>4. PICK w : w = NextVersion(k, b)
      OBVIOUS
    <2>5. PICK l : l = WithCommit(k, w, {}, {})
      OBVIOUS
    <2>6. PICK dead : dead = Tombstones(u, b)
      OBVIOUS
    <2>7. log' = [log EXCEPT ![u] = l] /\ objs' = [objs EXCEPT ![u] = @ \ dead]
      BY <1>3, <2>1, <2>2, <2>3, <2>4, <2>5, <2>6 DEF Vacuum
    <2>8. u \in DOMAIN log /\ Dir(u) /\ b \in Nat /\ (Alive(u) => b \in DOMAIN log[u])
      BY <2>1 DEF Vacuum, At, SesOK, At_Version, Dir
    <2>9. log[u] \in Logs /\ {} \in SUBSET Nat
      BY <2>8 DEF StoreShape
    <2>10. /\ v \in Nat /\ v > b /\ v \notin DOMAIN log[u]
           /\ \A n \in Nat : DOMAIN log[u] = 0 .. n /\ b <= n => v = n + 1
      BY <2>2, <2>8, <2>9, NextVersionIs
    <2>11. /\ k \in Logs /\ DOMAIN k = DOMAIN log[u] \cup {v}
           /\ k[v].add = {} /\ k[v].rem = {}
           /\ \A x \in DOMAIN log[u] : x # v => k[x] = log[u][x]
      <3>1. k \in Logs
        BY <2>3, <2>9, <2>10, CommitLog
      <3>2. QED
        BY <2>3, <3>1 DEF WithCommit
    <2>12. /\ w \in Nat /\ w > b /\ w \notin DOMAIN k
           /\ \A n \in Nat : DOMAIN k = 0 .. n /\ b <= n => w = n + 1
      BY <2>4, <2>8, <2>11, NextVersionIs
    <2>13. /\ l \in Logs /\ DOMAIN l = DOMAIN k \cup {w}
           /\ l[w].add = {} /\ l[w].rem = {}
           /\ \A x \in DOMAIN k : x # w => l[x] = k[x]
      <3>1. l \in Logs
        <4>1. k \in Logs
          BY <2>11
        <4>2. QED
          BY <2>5, <2>9, <2>12, <4>1, CommitLog
      <3>2. QED
        BY <2>5, <3>1 DEF WithCommit
    <2>14. Alive(u) => \A n \in Nat : DOMAIN log[u] = 0 .. n => \E m \in Nat : DOMAIN l = 0 .. m
      <3> SUFFICES ASSUME Alive(u), NEW n \in Nat, DOMAIN log[u] = 0 .. n
                   PROVE  \E m \in Nat : DOMAIN l = 0 .. m
        OBVIOUS
      <3>1. b <= n
        BY <2>8
      <3>2. DOMAIN k = 0 .. n + 1 /\ n + 1 \in Nat
        BY <2>10, <2>11, <3>1
      <3>3. w = n + 2
        BY <2>8, <2>12, <3>1, <3>2
      <3>4. DOMAIN l = 0 .. n + 2
        BY <2>13, <3>2, <3>3
      <3>5. QED
        BY <3>4
    <2>15. \A x \in DOMAIN log[u] : x \in DOMAIN l /\ l[x] = log[u][x]
      BY <2>10, <2>11, <2>12, <2>13
    <2>16. \A x \in DOMAIN l : l[x].add \subseteq DOMAIN rows /\ l[x].rem \subseteq DOMAIN rows
      BY <2>8, <2>10, <2>11, <2>12, <2>13 DEF StoreOK, DirOK
    <2>17. 0 \in DOMAIN l => 0 \in DOMAIN log[u]
      BY <2>8, <2>10, <2>11, <2>12, <2>13
    <2>18. /\ objs' \in Seq(SUBSET Nat) /\ Len(objs') = Len(objs)
           /\ \A x \in DOMAIN log : objs'[x] \subseteq objs[x]
      <3>1. u \in DOMAIN objs /\ DOMAIN objs = DOMAIN log /\ objs[u] \ dead \in SUBSET Nat
        BY <2>8 DEF StoreShape
      <3>2. QED
        BY <2>7, <3>1, SeqExcept DEF StoreShape
    <2>19. QED
      BY <1>1, <2>7, <2>8, <2>13, <2>14, <2>15, <2>16, <2>17, <2>18, ExtendStore
  <1>4. QED
    BY <1>2, <1>3

LEMMA UploadStore ==
    ASSUME Inv, NEW s \in Sessions, Upload(s)
    PROVE  StoreGoal
  <1> USE DEF Inv
  <1>1. UNCHANGED <<work, log, purged>>
    BY DEF Upload, envVars
  <1>2. PICK u, f : u = ses[s].uuid /\ f = Len(rows) + 1
    OBVIOUS
  <1>3. PICK new \in SUBSET Nat : rows' = Append(rows, new)
    <2>1. Len(rows) \in Nat /\ {Len(rows) + 1} \in SUBSET Nat
      BY DEF StoreShape
    <2>2. RowsIn(ses[s].rems) \in SUBSET Nat
      <3>1. Op(s) \in {"update", "delete"} => ses[s].rems \subseteq DOMAIN rows
        BY DEF Upload, At, Op, SesOK, Loaded, Inserts
      <3>2. CASE Op(s) \in {"update", "delete"}
        BY <3>1, <3>2 DEF StoreShape, RowsIn
      <3>3. CASE Op(s) \notin {"update", "delete"}
        BY <3>3 DEF Upload, At, Op, SesOK, RowsIn, SesShape, CtlOK
      <3>4. QED
        BY <3>2, <3>3
    <2>3. SUBSET RowsIn(ses[s].rems) \subseteq SUBSET Nat
      BY <2>2
    <2>4. QED
      BY <2>1, <2>2, <2>3 DEF Upload
  <1>4. /\ rows' \in Seq(SUBSET Nat) /\ DOMAIN rows' = DOMAIN rows \cup {f}
        /\ DOMAIN rows = 1 .. Len(rows) /\ Len(rows) \in Nat
        /\ \A g \in DOMAIN rows : rows'[g] = rows[g]
    BY <1>2, <1>3, SeqAppend DEF StoreShape
  <1>5. u \in DOMAIN log /\ DOMAIN objs = DOMAIN log
    BY <1>2 DEF Upload, At, SesOK, Dir, StoreShape
  <1>6. /\ objs' \in Seq(SUBSET Nat) /\ Len(objs') = Len(objs)
        /\ objs'[u] = objs[u] \cup {f} /\ \A w \in DOMAIN log : w # u => objs'[w] = objs[w]
    <2>1. objs' = [objs EXCEPT ![u] = objs[u] \cup {f}]
      BY <1>2 DEF Upload
    <2>2. objs[u] \cup {f} \in SUBSET Nat
      BY <1>2, <1>4, <1>5 DEF StoreShape
    <2>3. QED
      BY <1>5, <2>1, <2>2, SeqExcept DEF StoreShape
  <1>7. StoreShape'
    BY <1>1, <1>4, <1>6 DEF StoreShape
  <1>8. ASSUME NEW w \in DOMAIN log
        PROVE  DirOK(w)'
    BY <1>1, <1>4, <1>6, WorkKept DEF StoreOK, DirOK, Alive, Loadable
  <1>9. StoreOK'
    BY <1>1, <1>8, WorkKept DEF StoreOK
  <1>10. Grow
    BY <1>1, <1>4, WorkKept DEF Grow, Dir, Alive, Loadable
  <1>11. QED
    BY <1>7, <1>9, <1>10 DEF StoreGoal

\* What a DROP does to a directory, whether it gets to its end or not.
LEMMA PurgedStore ==
    ASSUME StoreShape, StoreOK, Drops, UNCHANGED <<work, rows>>,
           NEW u \in DOMAIN log, NEW kept \in SUBSET objs[u],
           objs' = [objs EXCEPT ![u] = kept],
           log' = log \/ log' = [log EXCEPT ![u] = <<>>],
           purged' = purged \cup {u}
    PROVE  StoreGoal
  <1>1. /\ objs' \in Seq(SUBSET Nat) /\ Len(objs') = Len(objs)
        /\ \A w \in DOMAIN log : objs'[w] \subseteq objs[w]
    <2>1. u \in DOMAIN objs /\ DOMAIN objs = DOMAIN log /\ objs[u] \in SUBSET Nat
      BY DEF StoreShape
    <2>2. kept \in SUBSET Nat
      BY <2>1
    <2>3. QED
      BY <2>1, <2>2, SeqExcept DEF StoreShape
  <1>2. /\ log' \in Seq(Logs) /\ Len(log') = Len(log) /\ DOMAIN log' = DOMAIN log
        /\ \A w \in DOMAIN log : w # u => log'[w] = log[w]
        /\ log'[u] = log[u] \/ DOMAIN log'[u] = {}
    <2>1. CASE log' = log
      BY <2>1 DEF StoreShape
    <2>2. CASE log' = [log EXCEPT ![u] = <<>>]
      BY <2>2, SeqExcept, EmptyLog DEF StoreShape
    <2>3. QED
      BY <2>1, <2>2
  <1>3. StoreShape'
    BY <1>1, <1>2 DEF StoreShape
  <1>4. ASSUME NEW w \in DOMAIN log
        PROVE  (Alive(w)' => Alive(w) /\ log'[w] = log[w]) /\ (Dir(w) => Dir(w)')
    BY <1>2, WorkKept DEF Alive, Dir, Loadable
  <1>5. ASSUME NEW w \in DOMAIN log
        PROVE  DirOK(w)'
    <2>1. CASE w = u
      BY <1>1, <1>2, <1>4, <2>1 DEF StoreOK, DirOK
    <2>2. CASE w # u
      BY <1>1, <1>2, <1>4, <2>2 DEF StoreOK, DirOK, Loadable
    <2>3. QED
      BY <2>1, <2>2
  <1>6. StoreOK'
    BY <1>2, <1>5, WorkKept DEF StoreOK
  <1>7. Grow
    BY <1>2, <1>4 DEF Grow
  <1>8. QED
    BY <1>3, <1>6, <1>7 DEF StoreGoal

LEMMA PurgeStore ==
    ASSUME Inv, NEW s \in Sessions, Purge(s) \/ PurgeFails(s)
    PROVE  StoreGoal
  <1>1. UNCHANGED <<work, rows>>
    BY DEF Purge, PurgeFails, envVars
  <1>2. PICK u : u = ses[s].uuid
    OBVIOUS
  <1>3. At(s, "purge")
    BY DEF Purge, PurgeFails
  <1>4. u \in DOMAIN log
    BY <1>2, <1>3 DEF Inv, SesOK, Dir, At
  <1>5. Drops
    BY <1>3 DEF Inv, SesShape, CtlOK, At, Drops, Asks
  <1>6. PICK kept \in SUBSET objs[u] : objs' = [objs EXCEPT ![u] = kept]
    BY <1>2 DEF Purge, PurgeFails
  <1>7. log' = log \/ log' = [log EXCEPT ![u] = <<>>]
    BY <1>2 DEF Purge, PurgeFails
  <1>8. purged' = purged \cup {u}
    BY <1>2 DEF Purge, PurgeFails
  <1>9. StoreShape /\ StoreOK
    BY DEF Inv
  <1>10. QED
    BY <1>1, <1>4, <1>5, <1>6, <1>7, <1>8, <1>9, PurgedStore

\* Every step keeps the logs whole and lets nobody's directory vanish.
LEMMA StoreStep ==
    ASSUME AtomicRename, Inv, [Next]_vars
    PROVE  StoreGoal
  <1>1. CASE UNCHANGED <<storeVars, work>>
    BY <1>1, StoreSame DEF Inv
  <1>2. ASSUME NEW s \in Sessions, StoreAction(s)
        PROVE  StoreGoal
    BY <1>2, CreateDeltaStore, ConvertDeltaStore, UploadStore, CommitStore, VacuumStore,
       PurgeStore DEF StoreAction
  <1>3. QED
    BY <1>1, <1>2, StoreActions

\* A version that has been written keeps its files.
LEMMA ActiveKept ==
    ASSUME StoreShape, StoreOK, StoreOK', StoreShape', Grow,
           NEW u, Dir(u), Alive(u)', NEW v \in DOMAIN log[u]
    PROVE  Active(u, v)' = Active(u, v)
  <1>1. /\ u \in DOMAIN log /\ Alive(u)
        /\ \A w \in DOMAIN log[u] : w \in DOMAIN log'[u] /\ log'[u][w] = log[u][w]
    BY DEF Grow, Dir
  <1>2. PICK n \in Nat : DOMAIN log[u] = 0 .. n
    BY <1>1 DEF StoreOK, DirOK
  <1>3. PICK m \in Nat : DOMAIN log'[u] = 0 .. m
    BY <1>1 DEF StoreOK, DirOK, Grow
  <1>4. v \in Nat /\ v <= n
    BY <1>2
  <1>5. \A w : w \in DOMAIN log'[u] /\ w <= v <=> w \in DOMAIN log[u] /\ w <= v
    BY <1>1, <1>2, <1>3, <1>4
  <1>6. QED
    BY <1>1, <1>5 DEF Active

----------------------------------------------------------------------------
(* What the others keep                                                    *)

LEMMA EntryKept ==
    ASSUME Grow, NEW e, EntryOK(e)
    PROVE  EntryOK(e)'
  BY DEF Grow, EntryOK, Dir

LEMMA MapKept ==
    ASSUME Grow, NEW m, MapOK(m)
    PROVE  MapOK(m)'
  <1>1. \A u : Dir(u) => Dir(u)'
    BY DEF Grow, Dir
  <1>2. Asks("travel") => Asks("travel")'
    BY DEF Grow, Asks, Workload
  <1>3. QED
    BY <1>1, <1>2, EntryKept DEF MapOK

LEMMA DbKept ==
    ASSUME Grow, NEW d, DbOK(d)
    PROVE  DbOK(d)'
  BY DEF Grow, DbOK, Dir

LEMMA VersionKept ==
    ASSUME Grow, NEW u, NEW v, At_Version(u, v)
    PROVE  At_Version(u, v)'
  BY DEF Grow, At_Version, Dir

LEMMA RowsKept ==
    ASSUME Grow, NEW F \in SUBSET DOMAIN rows
    PROVE  RowsIn(F)' = RowsIn(F)
  BY DEF Grow, RowsIn

LEMMA LoadedKept ==
    ASSUME StoreShape, StoreOK, StoreGoal, NEW x, Loaded(x)
    PROVE  Loaded(x)'
  <1>1. At_Version(x.tab, x.base)'
    BY VersionKept DEF Loaded, StoreGoal
  <1>2. ASSUME Alive(x.tab)'
        PROVE  x.base \in DOMAIN log[x.tab] /\ Alive(x.tab) /\ Dir(x.tab)
    BY <1>2 DEF Loaded, At_Version, StoreGoal, Grow, Dir
  <1>3. ASSUME Alive(x.tab)'
        PROVE  Active(x.tab, x.base)' = Active(x.tab, x.base)
    BY <1>2, <1>3, ActiveKept DEF StoreGoal
  <1>4. QED
    BY <1>1, <1>2, <1>3 DEF Loaded, StoreGoal, Grow

LEMMA FilledKept ==
    ASSUME Grow, NEW x, x.rems \in SUBSET DOMAIN rows, Filled(x)
    PROVE  Filled(x)'
  BY RowsKept DEF Filled, Grow

LEMMA SesKept ==
    ASSUME StoreShape, StoreOK, StoreGoal, NEW x, CtlOK(x.pc, x.st.op), SesOK(x)
    PROVE  SesOK(x)'
  <1>1. Grow
    BY DEF StoreGoal
  <1>2. ASSUME NEW u
        PROVE  Dir(u) => Dir(u)'
    BY <1>1 DEF Grow, Dir
  <1>3. ASSUME x.pc \in Reading
        PROVE  /\ At_Version(x.uuid, x.base)'
               /\ Alive(x.uuid)' => x.adds = Active(x.uuid, x.base)'
    <2>1. At_Version(x.uuid, x.base)
      BY <1>3 DEF SesOK
    <2>2. ASSUME Alive(x.uuid)'
          PROVE  x.base \in DOMAIN log[x.uuid] /\ Alive(x.uuid) /\ Dir(x.uuid)
      BY <1>1, <2>1, <2>2 DEF At_Version, Grow, Dir
    <2>3. ASSUME Alive(x.uuid)'
          PROVE  Active(x.uuid, x.base)' = Active(x.uuid, x.base)
      BY <2>2, <2>3, ActiveKept DEF StoreGoal
    <2>4. QED
      BY <1>1, <1>3, <2>1, <2>2, <2>3, VersionKept DEF SesOK
  <1>4. Loaded(x) => Loaded(x)'
    BY LoadedKept
  <1>5. x.rems \in SUBSET DOMAIN rows /\ Filled(x) => Filled(x)'
    BY <1>1, FilledKept
  <1>6. x.pc = "vacuum" => At_Version(x.tab, x.base)'
    BY <1>1, VersionKept DEF SesOK
  <1>7. x.pc = "load" => Filled(x)'
    BY <1>1 DEF SesOK, Filled, Grow, CtlOK, Inserts
  <1>8. x.pc = "commit" => Loaded(x)' /\ Filled(x)'
    BY <1>4, <1>5 DEF SesOK, Loaded
  <1>9. QED
    BY <1>2, <1>3, <1>4, <1>6, <1>7, <1>8 DEF SesOK

----------------------------------------------------------------------------
(* What the acting session does                                            *)

\* A step leaves the other sessions alone; what it makes of the acting one,
\* of the map in memory and of the database refers to what is there.
SesGoal(s) ==
    /\ DOMAIN ses' = Sessions /\ \A r \in Sessions \ {s} : ses'[r] = ses[r]
    /\ \E y : /\ y = ses'[s] /\ DOMAIN y = SesFields
              /\ CtlOK(y.pc, y.st.op)
              /\ y.pc # "idle" => y.st \in Workload.requests
              /\ MapOK(y.snap) /\ SesOK(y)

MemGoal == \E m : m = mem' /\ MapOK(m)

DbGoal == \E d : d = db' /\ DbShape(d) /\ DbOK(d)

LEMMA QuietStep ==
    ASSUME Inv, StoreGoal, NEW s \in Sessions, SesGoal(s), MemGoal, DbGoal
    PROVE  Inv'
  <1>1. Grow /\ UNCHANGED work /\ StoreShape' /\ StoreOK' /\ StoreShape /\ StoreOK
    BY DEF StoreGoal, Grow, Inv
  <1>2. MapOK(mem)'
    BY <1>1, MapKept DEF MemGoal
  <1>3. DbShape(db)' /\ DbOK(db)'
    <2>1. PICK d : d = db' /\ DbShape(d) /\ DbOK(d)
      BY DEF DbGoal
    <2>2. DbOK(d)'
      BY <1>1, <2>1, DbKept
    <2>3. QED
      BY <2>1, <2>2 DEF DbShape, DbOK
  <1>4. ASSUME NEW r \in Sessions
        PROVE  /\ DOMAIN ses'[r] = SesFields /\ CtlOK(ses'[r].pc, ses'[r].st.op)
               /\ ses'[r].pc # "idle" => ses'[r].st \in Workload.requests
               /\ MapOK(ses[r].snap)' /\ SesOK(ses[r])'
    <2>1. PICK y : /\ y = ses'[r] /\ DOMAIN y = SesFields
                   /\ CtlOK(y.pc, y.st.op)
                   /\ y.pc # "idle" => y.st \in Workload.requests
                   /\ MapOK(y.snap) /\ SesOK(y)
      BY DEF SesGoal, Inv, SesShape
    <2>2. PICK z : z = y.snap
      OBVIOUS
    <2>3. MapOK(z)'
      BY <1>1, <2>1, <2>2, MapKept
    <2>4. SesOK(y)'
      BY <1>1, <2>1, SesKept
    <2>5. QED
      BY <2>1, <2>2, <2>3, <2>4
  <1>5. Workload' = Workload
    BY <1>1, WorkKept
  <1>6. SesShape'
    BY <1>4, <1>5 DEF SesShape, SesGoal
  <1>7. QED
    BY <1>1, <1>2, <1>3, <1>4, <1>6 DEF Inv

LEMMA IdleOK ==
    ASSUME Inv, NEW s \in Sessions, NEW ok, End(s, ok)
    PROVE  SesGoal(s)
  <1>1. DOMAIN Idle = SesFields /\ Idle.pc = "idle" /\ Idle.snap = NoMap
    BY DEF Idle, SesFields
  <1>2. MapOK(NoMap)
    BY DEF MapOK, NoMap
  <1>3. SesOK(Idle) /\ CtlOK(Idle.pc, Idle.st.op)
    BY <1>1 DEF SesOK, CtlOK, Early, Creating, Reading
  <1>4. ses'[s] = Idle /\ DOMAIN ses' = Sessions /\ \A r \in Sessions \ {s} : ses'[r] = ses[r]
    BY DEF End, Inv, SesShape
  <1>5. QED
    BY <1>1, <1>2, <1>3, <1>4 DEF SesGoal

LEMMA LatestThere ==
    ASSUME StoreShape, NEW u \in DOMAIN log, Loadable(u)
    PROVE  Latest(u) \in DOMAIN log[u] /\ Latest(u) \in Nat /\ \A w \in DOMAIN log[u] : w <= Latest(u)
  <1>1. log[u] \in Logs /\ DOMAIN log[u] # {}
    BY DEF StoreShape, Loadable
  <1>2. QED
    BY <1>1, LatestIs, LogIs DEF Latest

\* What looking a table up gives.
LEMMA FoundIs ==
    ASSUME Inv, NEW n, Found(n)
    PROVE  /\ At_Version(UuidOf(n), VersionOf(n)) /\ Dir(UuidOf(n))
           /\ MapOK(Touched(n))
  <1>1. PICK e : e = mem.tables[n]
    OBVIOUS
  <1>2. n \in DOMAIN mem.tables /\ MapOK(mem) /\ EntryOK(e)
    BY <1>1 DEF Found, Inv, MapOK
  <1>3. CASE e.version = NotLoaded
    <2>1. Latest(e.uuid) \in DOMAIN log[e.uuid] /\ Latest(e.uuid) \in Nat
      BY <1>1, <1>2, <1>3, LatestThere DEF Found, Inv, EntryOK, Dir
    <2>2. PICK m : m = Touched(n)
      OBVIOUS
    <2>3. m = [mem EXCEPT !.tables[n].version = Latest(e.uuid)]
      BY <1>1, <1>3, <2>2 DEF Touched
    <2>4. /\ DOMAIN m = {"schemas", "tables", "versioned"}
          /\ DOMAIN m.tables = DOMAIN mem.tables
          /\ \A i \in DOMAIN mem.tables : i # n => m.tables[i] = mem.tables[i]
          /\ DOMAIN m.tables[n] = {"uuid", "version"}
          /\ m.tables[n].uuid = e.uuid /\ m.tables[n].version = Latest(e.uuid)
          /\ m.versioned = mem.versioned
      BY <1>1, <1>2, <2>3 DEF MapOK, EntryOK
    <2>5. EntryOK(m.tables[n])
      BY <1>2, <2>1, <2>4 DEF EntryOK
    <2>6. MapOK(m)
      BY <1>2, <2>4, <2>5 DEF MapOK
    <2>7. UuidOf(n) = e.uuid /\ VersionOf(n) = Latest(e.uuid)
      BY <1>1, <2>2, <2>4 DEF UuidOf, VersionOf
    <2>8. QED
      BY <1>2, <2>1, <2>2, <2>6, <2>7 DEF At_Version, EntryOK
  <1>4. CASE e.version # NotLoaded
    <2>1. Touched(n) = mem
      BY <1>1, <1>4 DEF Touched
    <2>2. UuidOf(n) = e.uuid /\ VersionOf(n) = e.version
      BY <1>1, <2>1 DEF UuidOf, VersionOf
    <2>3. QED
      BY <1>2, <1>4, <2>1, <2>2 DEF At_Version, EntryOK
  <1>5. QED
    BY <1>3, <1>4

LEMMA MemSame ==
    ASSUME Inv, UNCHANGED mem
    PROVE  MemGoal
  BY DEF Inv, MemGoal

LEMMA MemTouched ==
    ASSUME Inv, NEW n, Found(n), mem' = Touched(n)
    PROVE  MemGoal
  BY FoundIs DEF MemGoal

LEMMA DbSame ==
    ASSUME Inv, UNCHANGED db
    PROVE  DbGoal
  BY DEF Inv, DbGoal

LEMMA BeginOK ==
    ASSUME Inv, NEW s \in Sessions, NEW r \in Workload.requests, Begin(s, r)
    PROVE  SesGoal(s) /\ MemGoal /\ DbGoal
  <1>1. MemGoal /\ DbGoal
    BY MemSame, DbSame DEF Begin
  <1>2. PICK y : y = ses'[s]
    OBVIOUS
  <1>3. /\ DOMAIN ses' = Sessions /\ \A q \in Sessions \ {s} : ses'[q] = ses[q]
        /\ DOMAIN y = SesFields /\ y.pc = "reload" /\ y.st = r /\ y.snap = NoMap
        /\ y.adds = {} /\ y.rems = {}
    BY <1>2 DEF Begin, Idle, Inv, SesShape, SesFields
  <1>4. MapOK(y.snap)
    BY <1>3 DEF MapOK, NoMap
  <1>5. SesOK(y) /\ CtlOK(y.pc, y.st.op)
    BY <1>3 DEF SesOK, CtlOK, Early, Creating, Reading
  <1>6. QED
    BY <1>1, <1>2, <1>3, <1>4, <1>5 DEF SesGoal

\* The acting session goes on with its statement.
Frame(s, y) ==
    /\ DOMAIN ses' = Sessions /\ \A r \in Sessions \ {s} : ses'[r] = ses[r]
    /\ y = ses'[s] /\ DOMAIN y = SesFields /\ y.st = ses[s].st

LEMMA MoveOK ==
    ASSUME Inv, NEW s \in Sessions, NEW y, Frame(s, y), ses[s].pc # "idle",
           y.snap = ses[s].snap, CtlOK(y.pc, y.st.op), SesOK(y)
    PROVE  SesGoal(s)
  BY DEF Inv, SesShape, SesGoal, Frame

\* The acting session goes on, and all that changes is where it is.
LEMMA GotoOK ==
    ASSUME Inv, NEW s \in Sessions, NEW pc, Goto(s, pc), ses[s].pc # "idle",
           CtlOK(pc, Op(s)), pc \in Early => ses[s].pc \in Early \cup Creating \cup {"plan", "exec"},
           pc \notin Creating \cup Reading \cup {"purge", "exec_delete", "upload", "load", "dir", "commit", "vacuum",
                                              "last_version", "new_version"}
    PROVE  SesGoal(s)
  <1>1. PICK y : y = ses'[s]
    OBVIOUS
  <1>2. /\ Frame(s, y) /\ y.pc = pc /\ y.snap = ses[s].snap
        /\ y.adds = ses[s].adds /\ y.rems = ses[s].rems
    BY <1>1 DEF Goto, Inv, SesShape, SesFields, Frame
  <1>3. SesOK(ses[s])
    BY DEF Inv
  <1>4. SesOK(y)
    BY <1>2, <1>3 DEF SesOK, Early
  <1>5. CtlOK(y.pc, y.st.op)
    BY <1>2 DEF Op, Frame
  <1>6. QED
    BY <1>2, <1>4, <1>5, MoveOK

LEMMA BuildCatalogOK ==
    ASSUME Inv, NEW s \in Sessions, BuildCatalog(s)
    PROVE  SesGoal(s) /\ MemGoal /\ DbGoal
  <1>1. MemGoal /\ DbGoal
    BY MemSame, DbSame DEF BuildCatalog
  <1>2. PICK y : y = ses'[s]
    OBVIOUS
  <1>3. PICK m : m = [schemas   |-> db.schemas,
                      tables    |-> [n \in Names(db) |->
                         [uuid |-> list_collections(db).tables[n], version |-> NotLoaded]],
                      versioned |-> {}]
    OBVIOUS
  <1>4. /\ Frame(s, y) /\ y.pc = "register" /\ y.snap = m
        /\ y.adds = ses[s].adds /\ y.rems = ses[s].rems
    BY <1>2, <1>3 DEF BuildCatalog, Inv, SesShape, SesFields, Frame
  <1>5. MapOK(m)
    <2>1. ASSUME NEW n \in Names(db)
          PROVE  n \in Tables /\ Dir(list_collections(db).tables[n])
      <3>1. PICK r \in db.tables : r.name = n
        BY DEF Names
      <3>2. PICK q : q = CHOOSE z \in db.tables : z.name = n
        OBVIOUS
      <3>3. q \in db.tables /\ q.name = n
        BY <3>1, <3>2
      <3>4. list_collections(db).tables[n] = q.uuid
        BY <3>2 DEF list_collections
      <3>5. QED
        BY <3>3, <3>4 DEF Inv, DbOK, DbShape
    <2>2. /\ DOMAIN m = {"schemas", "tables", "versioned"} /\ DOMAIN m.tables = Names(db)
          /\ \A n \in Names(db) : /\ DOMAIN m.tables[n] = {"uuid", "version"}
                                  /\ m.tables[n].uuid = list_collections(db).tables[n]
                                  /\ m.tables[n].version = NotLoaded
          /\ m.versioned = {}
      BY <1>3
    <2>3. QED
      BY <2>1, <2>2 DEF MapOK, EntryOK
  <1>6. SesOK(ses[s]) /\ ses[s].pc = "reload"
    BY DEF Inv, BuildCatalog, At
  <1>7. SesOK(y) /\ CtlOK(y.pc, y.st.op)
    BY <1>4, <1>6 DEF SesOK, CtlOK, Early, Creating, Reading
  <1>8. y.st \in Workload.requests
    BY <1>4, <1>6 DEF Inv, SesShape, Frame
  <1>9. QED
    BY <1>1, <1>4, <1>5, <1>7, <1>8 DEF SesGoal, Frame

LEMMA RegisterCatalogOK ==
    ASSUME Inv, NEW s \in Sessions, RegisterCatalog(s)
    PROVE  SesGoal(s) /\ MemGoal /\ DbGoal
  <1>1. DbGoal
    BY DbSame DEF RegisterCatalog
  <1>2. MemGoal
    BY DEF RegisterCatalog, Inv, MemGoal
  <1>3. PICK y : y = ses'[s]
    OBVIOUS
  <1>4. /\ Frame(s, y) /\ y.pc \in {"plan", "create", "file_to_table"} /\ y.snap = NoMap
        /\ y.pc # "plan" => Op(s) = "upload"
        /\ y.adds = ses[s].adds /\ y.rems = ses[s].rems
    BY <1>3 DEF RegisterCatalog, Inv, SesShape, SesFields, Frame
  <1>5. MapOK(NoMap)
    BY DEF MapOK, NoMap
  <1>6. SesOK(ses[s]) /\ ses[s].pc = "register"
    BY DEF Inv, RegisterCatalog, At
  <1>7. SesOK(y) /\ CtlOK(y.pc, y.st.op)
    BY <1>4, <1>6 DEF SesOK, CtlOK, Early, Creating, Reading, Op, Frame
  <1>8. y.st \in Workload.requests
    BY <1>4, <1>6 DEF Inv, SesShape, Frame
  <1>9. QED
    BY <1>1, <1>2, <1>4, <1>5, <1>7, <1>8 DEF SesGoal, Frame

LEMMA PlanOK ==
    ASSUME Inv, NEW s \in Sessions, Plan(s)
    PROVE  SesGoal(s) /\ MemGoal /\ DbGoal
  <1>1. DbGoal
    BY DbSame DEF Plan
  <1>2. PICK t : t = ses[s].st.t
    OBVIOUS
  <1>3. CASE End(s, FALSE) /\ UNCHANGED mem
    BY <1>1, <1>3, IdleOK, MemSame
  <1>4. CASE ~ PlanError(s) /\ ~ (End(s, FALSE) /\ UNCHANGED mem)
    <2>1. Op(s) \in {"select", "insert", "update", "delete", "rename"} => Found(t)
      BY <1>2, <1>4 DEF PlanError, Op
    <2>2. MemGoal
      BY <1>2, <1>4, <2>1, MemTouched, MemSame DEF Plan
    <2>3. ses[s].pc = "plan" /\ SesOK(ses[s])
      BY DEF Plan, At, Inv
    <2>4. CASE Op(s) = "select"
      <3>1. PICK u, v : u = UuidOf(t) /\ v = VersionOf(t)
        OBVIOUS
      <3>2. At_Version(u, v)
        BY <2>1, <2>4, <3>1, FoundIs
      <3>3. PICK y : y = ses'[s]
        OBVIOUS
      <3>4. /\ Frame(s, y) /\ y.pc = "etag" /\ y.snap = ses[s].snap
            /\ y.adds = Active(u, v) /\ y.uuid = u /\ y.base = v
        <4>1. ses' = [ses EXCEPT ![s].pc = "etag", ![s].uuid = u, ![s].base = v,
                                 ![s].adds = Active(u, v)]
          BY <1>2, <1>4, <2>4, <3>1 DEF Plan
        <4>2. QED
          BY <3>3, <4>1 DEF Inv, SesShape, SesFields, Frame
      <3>5. SesOK(y) /\ CtlOK(y.pc, y.st.op)
        BY <2>4, <3>2, <3>4 DEF SesOK, CtlOK, Early, Creating, Reading, Op, Frame
      <3>6. QED
        BY <1>1, <2>2, <2>3, <3>4, <3>5, MoveOK
    <2>5. CASE Op(s) # "select"
      <3>1. \/ Goto(s, "uuid") /\ Op(s) = "insert"
            \/ Goto(s, "exec")
        BY <1>4, <2>5 DEF Plan
      <3>2. ses[s].pc # "idle" /\ ses[s].pc \in Early
        BY <2>3 DEF Early
      <3>3. CASE Goto(s, "uuid") /\ Op(s) = "insert"
        <4>1. CtlOK("uuid", Op(s))
          BY <3>3 DEF CtlOK, Inserts
        <4>2. QED
          BY <1>1, <2>2, <3>2, <3>3, <4>1, GotoOK DEF Creating, Reading
      <3>4. CASE Goto(s, "exec")
        <4>1. CtlOK("exec", Op(s))
          BY DEF CtlOK
        <4>2. QED
          BY <1>1, <2>2, <3>2, <3>4, <4>1, GotoOK DEF Creating, Reading
      <3>5. QED
        BY <3>1, <3>3, <3>4
    <2>6. QED
      BY <2>4, <2>5
  <1>5. QED
    BY <1>3, <1>4 DEF Plan

\* A query goes on to read what it has planned.
LEMMA ToReadOK ==
    ASSUME Inv, NEW s \in Sessions, ses[s].pc \in Reading, Goto(s, "read")
    PROVE  SesGoal(s)
  <1>1. PICK y : y = ses'[s]
    OBVIOUS
  <1>2. /\ Frame(s, y) /\ y.pc = "read" /\ y.snap = ses[s].snap
        /\ y.adds = ses[s].adds /\ y.uuid = ses[s].uuid /\ y.base = ses[s].base
    BY <1>1 DEF Goto, Inv, SesShape, SesFields, Frame
  <1>3. SesOK(ses[s]) /\ CtlOK(ses[s].pc, ses[s].st.op) /\ ses[s].pc # "idle"
    BY DEF Inv, SesShape, Reading
  <1>4. SesOK(y)
    BY <1>2, <1>3 DEF SesOK, Early, Creating, Reading
  <1>5. CtlOK(y.pc, y.st.op)
    BY <1>2, <1>3 DEF CtlOK, Frame, Reading
  <1>6. QED
    BY <1>2, <1>3, <1>4, <1>5, MoveOK

LEMMA ReadsOK ==
    ASSUME Inv, NEW s \in Sessions,
           NotModified(s) \/ ExecuteQuery(s) \/ Read(s) \/ PlanTimeTravel(s) \/ Fail(s)
    PROVE  SesGoal(s) /\ MemGoal /\ DbGoal
  <1>1. MemGoal /\ DbGoal
    BY MemSame, DbSame DEF NotModified, ExecuteQuery, Read, PlanTimeTravel, Fail
  <1>2. CASE \E ok : End(s, ok)
    BY <1>1, <1>2, IdleOK
  <1>3. CASE ses[s].pc \in Reading /\ Goto(s, "read")
    BY <1>1, <1>3, ToReadOK
  <1>4. QED
    BY <1>2, <1>3 DEF NotModified, ExecuteQuery, Read, PlanTimeTravel, Fail, At, Reading

LEMMA RewriteTimeTravelOK ==
    ASSUME Inv, NEW s \in Sessions, RewriteTimeTravel(s)
    PROVE  SesGoal(s) /\ MemGoal /\ DbGoal
  <1>1. DbGoal
    BY DbSame DEF RewriteTimeTravel
  <1>2. PICK t, u : t = ses[s].st.t /\ u = UuidOf(t)
    OBVIOUS
  <1>3. CASE End(s, FALSE) /\ UNCHANGED mem
    BY <1>1, <1>3, IdleOK, MemSame
  <1>4. CASE End(s, FALSE) /\ Found(t) /\ mem' = Touched(t)
    BY <1>1, <1>4, IdleOK, MemTouched
  <1>5. ASSUME Found(t), NEW v \in DOMAIN log[u],
               mem' = [Touched(t) EXCEPT !.versioned = @ \cup {<<t, u, v>>}],
               ses' = [ses EXCEPT ![s].pc = "plan_travel", ![s].uuid = u,
                              ![s].base = v, ![s].adds = Active(u, v)]
        PROVE  SesGoal(s) /\ MemGoal
    <2>1. MapOK(Touched(t)) /\ Dir(u)
      BY <1>2, <1>5, FoundIs
    <2>2. MapOK(mem')
      <3>1. PICK m, x : m = Touched(t) /\ x = <<t, u, v>>
        OBVIOUS
      <3>2. /\ mem'.tables = m.tables /\ mem'.versioned = m.versioned \cup {x}
            /\ DOMAIN mem' = DOMAIN m
        BY <1>5, <2>1, <3>1 DEF MapOK
      <3>3. Asks("travel")
        BY DEF RewriteTimeTravel, At, Op, Asks, Inv, SesShape
      <3>4. Dir(x[2])
        BY <2>1, <3>1
      <3>5. QED
        BY <2>1, <3>1, <3>2, <3>3, <3>4 DEF MapOK
    <2>3. MemGoal
      BY <2>2 DEF MemGoal
    <2>4. PICK y : y = ses'[s]
      OBVIOUS
    <2>5. /\ Frame(s, y) /\ y.pc = "plan_travel" /\ y.snap = ses[s].snap
          /\ y.adds = Active(u, v) /\ y.uuid = u /\ y.base = v
      BY <1>5, <2>4 DEF Inv, SesShape, SesFields, Frame
    <2>6. At_Version(u, v)
      <3>1. log[u] \in Logs
        BY <2>1 DEF Dir, Inv, StoreShape
      <3>2. QED
        BY <1>5, <2>1, <3>1, LogIs DEF At_Version
    <2>7. SesOK(y)
      BY <2>5, <2>6 DEF SesOK, Early, Creating, Reading
    <2>8. CtlOK(y.pc, y.st.op) /\ ses[s].pc # "idle"
      BY <2>5 DEF CtlOK, Frame, RewriteTimeTravel, Op, At
    <2>9. QED
      BY <2>3, <2>5, <2>7, <2>8, MoveOK
  <1>6. QED
    BY <1>1, <1>2, <1>3, <1>4, <1>5 DEF RewriteTimeTravel

LEMMA GetTableUuidOK ==
    ASSUME Inv, NEW s \in Sessions, GetTableUuid(s)
    PROVE  SesGoal(s) /\ MemGoal /\ DbGoal
  <1>1. DbGoal
    BY DbSame DEF GetTableUuid
  <1>2. PICK t, u : t = ses[s].st.t /\ u = UuidOf(t)
    OBVIOUS
  <1>3. CASE End(s, FALSE) /\ UNCHANGED mem
    BY <1>1, <1>3, IdleOK, MemSame
  <1>4. CASE /\ Found(t) /\ mem' = Touched(t)
             /\ ses' = [ses EXCEPT ![s].pc = "upload", ![s].uuid = u, ![s].tab = u]
    <2>1. MemGoal /\ Dir(u)
      BY <1>2, <1>4, MemTouched, FoundIs
    <2>2. PICK y : y = ses'[s]
      OBVIOUS
    <2>3. /\ Frame(s, y) /\ y.pc = "upload" /\ y.snap = ses[s].snap /\ y.uuid = u /\ y.tab = u
          /\ y.adds = ses[s].adds /\ y.rems = ses[s].rems
      BY <1>4, <2>2 DEF Inv, SesShape, SesFields, Frame
    <2>4. SesOK(ses[s]) /\ ses[s].pc = "uuid" /\ Op(s) \in Inserts
      BY DEF Inv, SesShape, GetTableUuid, At, CtlOK, Op
    <2>5. SesOK(y)
      BY <2>1, <2>3, <2>4 DEF SesOK, Early, Creating, Reading, Op, Frame
    <2>6. CtlOK(y.pc, y.st.op)
      BY <2>3, <2>4 DEF CtlOK, Frame, Op
    <2>7. QED
      BY <1>1, <2>1, <2>3, <2>4, <2>5, <2>6, MoveOK
  <1>5. QED
    BY <1>2, <1>3, <1>4 DEF GetTableUuid

LEMMA ActiveInRows ==
    ASSUME StoreOK, NEW u \in DOMAIN log, NEW v
    PROVE  Active(u, v) \subseteq DOMAIN rows
  BY DEF StoreOK, DirOK, Active

LEMMA LoadTableOK ==
    ASSUME Inv, NEW s \in Sessions, LoadTable(s)
    PROVE  SesGoal(s) /\ MemGoal /\ DbGoal
  <1>1. MemGoal /\ DbGoal
    BY MemSame, DbSame DEF LoadTable
  <1>2. PICK u : u = ses[s].tab
    OBVIOUS
  <1>3. CASE End(s, FALSE)
    BY <1>1, <1>3, IdleOK
  <1>4. CASE Loadable(u) /\ ses' = [ses EXCEPT ![s].pc = "commit", ![s].base = Latest(u)]
    <2>1. PICK y : y = ses'[s]
      OBVIOUS
    <2>2. /\ Frame(s, y) /\ y.pc = "commit" /\ y.snap = ses[s].snap /\ y.tab = u
          /\ y.base = Latest(u) /\ y.adds = ses[s].adds /\ y.rems = ses[s].rems
      BY <1>2, <1>4, <2>1 DEF Inv, SesShape, SesFields, Frame
    <2>3. SesOK(ses[s]) /\ ses[s].pc = "load" /\ Op(s) \in Inserts
      BY DEF Inv, SesShape, LoadTable, At, CtlOK, Op
    <2>4. Dir(u) /\ ses[s].rems = {} /\ Filled(ses[s])
      BY <1>2, <2>3 DEF SesOK, Op
    <2>5. Latest(u) \in DOMAIN log[u] /\ Latest(u) \in Nat
      BY <1>4, <2>4, LatestThere DEF Inv, Dir
    <2>6. Loaded(y)
      BY <2>2, <2>4, <2>5 DEF Loaded, At_Version
    <2>7. Filled(y)
      BY <2>2, <2>4 DEF Filled, Frame
    <2>8. SesOK(y)
      BY <2>2, <2>3, <2>4, <2>6, <2>7 DEF SesOK, Early, Creating, Reading, Op, Frame
    <2>9. CtlOK(y.pc, y.st.op)
      BY <2>2, <2>3 DEF CtlOK, Frame, Op
    <2>10. QED
      BY <1>1, <2>2, <2>3, <2>8, <2>9, MoveOK
  <1>5. QED
    BY <1>2, <1>3, <1>4 DEF LoadTable

\* The session has loaded the table it is about to change.
LEMMA LoadedWithIs ==
    ASSUME Inv, NEW s \in Sessions, CanLoad(s), NEW hit, hit \in Hits(s) \/ hit = {}, NEW pc,
           ses[s].pc \in {"exec", "exec_delete"}, LoadedWith(s, hit, pc)
    PROVE  /\ MemGoal
           /\ \E y : /\ Frame(s, y) /\ y.pc = pc /\ y.snap = ses[s].snap /\ y.rems = hit
                     /\ y.adds = {} /\ y.uuid = ses[s].uuid
                     /\ Loaded(y) /\ Filled(y)
  <1>1. PICK t, u : t = ses[s].st.t /\ u = UuidOf(t)
    OBVIOUS
  <1>2. Found(t) /\ Loadable(u) /\ mem' = Touched(t)
    BY <1>1 DEF CanLoad, LoadedWith
  <1>3. MemGoal /\ Dir(u)
    BY <1>1, <1>2, MemTouched, FoundIs
  <1>4. Latest(u) \in DOMAIN log[u] /\ Latest(u) \in Nat
    BY <1>2, <1>3, LatestThere DEF Inv, Dir
  <1>5. hit \subseteq Active(u, Latest(u))
    BY <1>1 DEF Hits
  <1>6. hit \subseteq DOMAIN rows
    BY <1>3, <1>5, ActiveInRows DEF Inv, Dir
  <1>7. PICK y : y = ses'[s]
    OBVIOUS
  <1>8. ses[s].adds = {}
    BY DEF Inv, SesOK, Early
  <1>9. /\ Frame(s, y) /\ y.pc = pc /\ y.snap = ses[s].snap /\ y.rems = hit
        /\ y.adds = {} /\ y.uuid = ses[s].uuid /\ y.tab = u /\ y.base = Latest(u)
    <2>1. ses' = [ses EXCEPT ![s].tab = u, ![s].base = Latest(u), ![s].rems = hit, ![s].pc = pc]
      BY <1>1 DEF LoadedWith
    <2>2. QED
      BY <1>7, <1>8, <2>1 DEF Inv, SesShape, SesFields, Frame
  <1>10. Loaded(y)
    BY <1>3, <1>4, <1>5, <1>6, <1>9 DEF Loaded, At_Version
  <1>11. Filled(y)
    BY <1>9 DEF Filled
  <1>12. QED
    BY <1>3, <1>9, <1>10, <1>11

LEMMA ExecDmlOK ==
    ASSUME Inv, NEW s \in Sessions, ExecUpdate(s) \/ ExecDelete(s) \/ ExecTruncate(s)
    PROVE  SesGoal(s) /\ MemGoal /\ DbGoal
  <1>1. DbGoal
    BY DbSame DEF ExecUpdate, ExecDelete, ExecTruncate
  <1>2. CASE LoadError(s)
    BY <1>1, <1>2, IdleOK, MemSame DEF LoadError
  <1>3. ASSUME CanLoad(s), NEW hit \in Hits(s), NEW pc, LoadedWith(s, hit, pc),
               \/ pc = "dir" /\ At(s, "exec") /\ Op(s) = "update"
               \/ pc = "upload" /\ At(s, "exec_delete")
               \/ pc = "commit" /\ At(s, "exec_delete")
               \/ pc = "commit" /\ At(s, "exec") /\ Op(s) = "truncate"
        PROVE  SesGoal(s) /\ MemGoal
    <2>1. ses[s].pc \in {"exec", "exec_delete"}
      BY <1>3 DEF At
    <2>2. MemGoal
      BY <1>3, <2>1, LoadedWithIs
    <2>3. PICK y : /\ Frame(s, y) /\ y.pc = pc /\ y.snap = ses[s].snap /\ y.rems = hit
                   /\ y.adds = {} /\ y.uuid = ses[s].uuid
                   /\ Loaded(y) /\ Filled(y)
      BY <1>3, <2>1, LoadedWithIs
    <2>4. SesOK(ses[s]) /\ CtlOK(ses[s].pc, ses[s].st.op)
      BY DEF Inv, SesShape
    <2>5. At(s, "exec_delete") => y.st.op = "delete" /\ Dir(y.uuid)
      BY <2>3, <2>4 DEF At, CtlOK, SesOK, Frame
    <2>6. y.st.op = Op(s)
      BY <2>3 DEF Op, Frame
    <2>7. SesOK(y)
      BY <1>3, <2>3, <2>5, <2>6 DEF SesOK, Early, Creating, Reading, Inserts
    <2>8. CtlOK(y.pc, y.st.op)
      BY <1>3, <2>3, <2>5, <2>6 DEF CtlOK
    <2>9. QED
      BY <2>1, <2>2, <2>3, <2>7, <2>8, MoveOK
  <1>4. QED
    BY <1>1, <1>2, <1>3 DEF ExecUpdate, ExecDelete, ExecTruncate

LEMMA TableDirOK ==
    ASSUME Inv, NEW s \in Sessions, TableDir(s)
    PROVE  SesGoal(s) /\ MemGoal /\ DbGoal
  <1>1. DbGoal
    BY DbSame DEF TableDir
  <1>2. PICK t, u : t = ses[s].st.t /\ u = UuidOf(t)
    OBVIOUS
  <1>3. CASE End(s, FALSE) /\ UNCHANGED mem
    BY <1>1, <1>3, IdleOK, MemSame
  <1>4. ASSUME Found(t), mem' = Touched(t), NEW pc,
               ses' = [ses EXCEPT ![s].uuid = u, ![s].pc = pc],
               pc = CASE Op(s) = "delete" -> "exec_delete"
                      [] ses[s].rems # {} -> "upload"
                      [] OTHER -> "commit"
        PROVE  SesGoal(s) /\ MemGoal
    <2>1. MemGoal /\ Dir(u)
      BY <1>2, <1>4, MemTouched, FoundIs
    <2>2. PICK y : y = ses'[s]
      OBVIOUS
    <2>3. /\ Frame(s, y) /\ y.pc = pc /\ y.snap = ses[s].snap /\ y.uuid = u
          /\ y.tab = ses[s].tab /\ y.base = ses[s].base
          /\ y.adds = ses[s].adds /\ y.rems = ses[s].rems
      BY <1>4, <2>2 DEF Inv, SesShape, SesFields, Frame
    <2>4. SesOK(ses[s]) /\ CtlOK(ses[s].pc, ses[s].st.op) /\ ses[s].pc # "idle" /\ y.st.op = Op(s)
      BY <2>3 DEF Inv, SesShape, TableDir, At, Frame, Op
    <2>5. CASE Op(s) = "delete"
      <3>1. ses[s].pc = "exec" /\ pc = "exec_delete"
        <4>1. ses[s].pc \in {"dir", "exec"}
          BY DEF TableDir, At
        <4>2. ses[s].pc # "dir"
          BY <2>4, <2>5 DEF CtlOK, Op
        <4>3. ses[s].rems = {}
          BY <2>4, <4>1, <4>2 DEF SesOK, Early
        <4>4. QED
          BY <1>4, <2>5, <4>1, <4>2, <4>3
      <3>2. SesOK(y)
        BY <2>1, <2>3, <2>4, <3>1 DEF SesOK, Early, Creating, Reading
      <3>3. CtlOK(y.pc, y.st.op)
        BY <2>3, <2>4, <2>5, <3>1 DEF CtlOK
      <3>4. QED
        BY <2>1, <2>3, <2>4, <3>2, <3>3, MoveOK
    <2>6. CASE Op(s) # "delete"
      <3>1. ses[s].pc = "dir" /\ Op(s) = "update"
        BY <2>4, <2>6 DEF TableDir, At, CtlOK, Op
      <3>2. Loaded(y) /\ y.adds = {}
        BY <2>3, <2>4, <3>1 DEF SesOK, Loaded
      <3>3. \/ pc = "upload"
            \/ pc = "commit" /\ y.rems = {}
        BY <1>4, <2>3, <2>6
      <3>4. SesOK(y)
        BY <2>1, <2>3, <2>4, <3>1, <3>2, <3>3 DEF SesOK, Early, Creating, Reading, Inserts, Filled
      <3>5. CtlOK(y.pc, y.st.op)
        BY <2>3, <2>4, <3>1, <3>3 DEF CtlOK
      <3>6. QED
        BY <2>1, <2>3, <2>4, <3>4, <3>5, MoveOK
    <2>7. QED
      BY <2>5, <2>6
  <1>5. QED
    BY <1>1, <1>2, <1>3, <1>4 DEF TableDir

LEMMA ExecVacuumOK ==
    ASSUME Inv, NEW s \in Sessions, ExecVacuum(s)
    PROVE  SesGoal(s) /\ MemGoal /\ DbGoal
  <1>1. DbGoal
    BY DbSame DEF ExecVacuum
  <1>2. CASE LoadError(s)
    BY <1>1, <1>2, IdleOK, MemSame DEF LoadError
  <1>3. ses[s].pc = "exec" /\ Op(s) = "vacuum"
    BY DEF ExecVacuum, At
  <1>4. CASE Goto(s, "trim") /\ UNCHANGED mem
    <2>1. CtlOK("trim", Op(s))
      BY DEF CtlOK
    <2>2. QED
      BY <1>1, <1>3, <1>4, <2>1, MemSame, GotoOK DEF Early, Creating, Reading
  <1>5. CASE CanLoad(s) /\ LoadedWith(s, {}, "vacuum")
    <2>1. MemGoal
      BY <1>3, <1>5, LoadedWithIs
    <2>2. PICK y : /\ Frame(s, y) /\ y.pc = "vacuum" /\ y.snap = ses[s].snap
                   /\ Loaded(y)
      BY <1>3, <1>5, LoadedWithIs
    <2>3. SesOK(y)
      BY <2>2 DEF SesOK, Early, Creating, Reading, Loaded
    <2>4. CtlOK(y.pc, y.st.op) /\ ses[s].pc # "idle"
      BY <1>3, <2>2 DEF CtlOK, Frame, Op
    <2>5. QED
      BY <1>1, <2>1, <2>2, <2>3, <2>4, MoveOK
  <1>6. QED
    BY <1>2, <1>4, <1>5 DEF ExecVacuum

----------------------------------------------------------------------------
(* Rows of the database                                                    *)

LEMMA NextIdIs ==
    ASSUME NEW R, \A r \in R : r.id \in Nat, NEW n \in Nat, \A r \in R : r.id <= n
    PROVE  NextId(R) \in Nat /\ \A r \in R : r.id < NextId(R)
  <1> DEFINE S == {0} \cup {r.id : r \in R}
  <1>1. S \in SUBSET Nat /\ S # {} /\ \A y \in S : y <= n
    OBVIOUS
  <1>2. \A r \in R : r.id \in S
    OBVIOUS
  <1>3. NextId(R) = 1 + Max(S)
    BY DEF NextId
  <1> HIDE DEF S
  <1>4. Max(S) \in S /\ \A y \in S : y <= Max(S)
    BY <1>1, MaxOf
  <1>5. Max(S) \in Nat /\ \A y \in S : y \in Nat
    BY <1>1, <1>4
  <1>6. QED
    BY <1>2, <1>3, <1>4, <1>5

\* Fewer or other rows, with no larger ids and no other directories.
LEMMA DbLess ==
    ASSUME Inv, NEW d, d = db', DOMAIN d = {"schemas", "tables", "versions"},
           \A r \in d.tables : /\ r \in [id : Nat, name : Tables, uuid : Nat]
                               /\ \E q \in db.tables : q.id = r.id /\ q.uuid = r.uuid,
           \A v \in d.versions : /\ v \in [id : Nat, table : Nat, version : Nat, columns : BOOLEAN]
                                 /\ \E w \in db.versions : w.id = v.id
    PROVE  DbGoal
  BY DEF Inv, DbGoal, DbShape, DbOK

\* One more version.
LEMMA DbVersion ==
    ASSUME Inv, NEW t \in Nat, NEW v \in Nat, NEW c \in BOOLEAN,
           db' = [db EXCEPT !.versions =
                    @ \cup {[id |-> NextId(@), table |-> t, version |-> v, columns |-> c]}]
    PROVE  DbGoal
  <1>1. DbShape(db) /\ DbOK(db)
    BY DEF Inv
  <1>2. PICK n \in Nat : \A w \in db.versions : w.id <= n
    BY <1>1 DEF DbShape
  <1>3. \A w \in db.versions : w.id \in Nat
    BY <1>1 DEF DbShape
  <1>4. PICK i : i = NextId(db.versions)
    OBVIOUS
  <1>5. i \in Nat /\ \A w \in db.versions : w.id < i
    BY <1>2, <1>3, <1>4, NextIdIs
  <1>6. PICK d : d = db'
    OBVIOUS
  <1>7. /\ DOMAIN d = {"schemas", "tables", "versions"} /\ d.tables = db.tables
        /\ d.versions = db.versions \cup {[id |-> i, table |-> t, version |-> v, columns |-> c]}
    BY <1>1, <1>4, <1>6 DEF DbShape
  <1>8. \A w \in d.versions : w.id <= i
    BY <1>3, <1>5, <1>7
  <1>9. d.versions \subseteq [id : Nat, table : Nat, version : Nat, columns : BOOLEAN]
    BY <1>1, <1>5, <1>7 DEF DbShape
  <1>10. QED
    BY <1>1, <1>5, <1>6, <1>7, <1>8, <1>9 DEF DbGoal, DbShape, DbOK

LEMMA DbColumns ==
    ASSUME Inv, NEW i, db' = create_table_columns(db, i)
    PROVE  DbGoal
  <1>1. DbShape(db)
    BY DEF Inv
  <1>2. PICK d : d = db'
    OBVIOUS
  <1>3. /\ DOMAIN d = {"schemas", "tables", "versions"} /\ d.tables = db.tables
        /\ d.versions = {IF v.id = i THEN [v EXCEPT !.columns = TRUE] ELSE v : v \in db.versions}
    BY <1>1, <1>2 DEF DbShape, create_table_columns
  <1>4. ASSUME NEW v \in d.versions
        PROVE  /\ v \in [id : Nat, table : Nat, version : Nat, columns : BOOLEAN]
               /\ \E w \in db.versions : w.id = v.id
    BY <1>1, <1>3 DEF DbShape
  <1>5. ASSUME NEW r \in d.tables
        PROVE  /\ r \in [id : Nat, name : Tables, uuid : Nat]
               /\ \E q \in db.tables : q.id = r.id /\ q.uuid = r.uuid
    BY <1>1, <1>3 DEF DbShape
  <1>6. QED
    BY <1>2, <1>3, <1>4, <1>5, DbLess

LEMMA SelectLastVersionOK ==
    ASSUME Inv, NEW s \in Sessions, SelectLastVersion(s)
    PROVE  SesGoal(s) /\ MemGoal /\ DbGoal
  <1>1. MemGoal /\ DbGoal
    BY MemSame, DbSame DEF SelectLastVersion
  <1>2. CASE End(s, FALSE)
    BY <1>1, <1>2, IdleOK
  <1>3. ASSUME NEW id, ses' = [ses EXCEPT ![s].pc = "new_version", ![s].row = id]
        PROVE  SesGoal(s)
    <2>1. PICK y : y = ses'[s]
      OBVIOUS
    <2>2. /\ Frame(s, y) /\ y.pc = "new_version" /\ y.snap = ses[s].snap /\ y.base = ses[s].base
      BY <1>3, <2>1 DEF Inv, SesShape, SesFields, Frame
    <2>3. SesOK(ses[s]) /\ ses[s].pc = "last_version"
      BY DEF Inv, SelectLastVersion, At
    <2>4. SesOK(y) /\ CtlOK(y.pc, y.st.op)
      BY <2>2, <2>3 DEF SesOK, Early, Creating, Reading, CtlOK
    <2>5. QED
      BY <2>2, <2>3, <2>4, MoveOK
  <1>4. QED
    BY <1>1, <1>2, <1>3 DEF SelectLastVersion

\* A move to where nothing is asked of a session.
LEMMA FreeMoveOK ==
    ASSUME Inv, NEW s \in Sessions, NEW y, Frame(s, y), ses[s].pc # "idle",
           y.snap = ses[s].snap,
           y.pc \in {"new_columns", "trim", "drop_get", "drop_row", "drop_next", "rename_row"},
           y.pc \in {"drop_get", "drop_row", "drop_next"} => Op(s) \in {"drop", "drop_schema"},
           y.pc = "drop_next" => Op(s) = "drop_schema"
    PROVE  SesGoal(s)
  <1>1. SesOK(y)
    BY DEF SesOK, Early, Creating, Reading
  <1>2. CtlOK(y.pc, y.st.op)
    BY DEF CtlOK, Frame, Op
  <1>3. QED
    BY <1>1, <1>2, MoveOK

LEMMA InsertNewVersionOK ==
    ASSUME Inv, NEW s \in Sessions, InsertNewVersion(s)
    PROVE  SesGoal(s) /\ MemGoal /\ DbGoal
  <1>1. MemGoal
    BY MemSame DEF InsertNewVersion
  <1>2. CASE End(s, FALSE) /\ UNCHANGED db
    BY <1>1, <1>2, IdleOK, DbSame
  <1>3. CASE /\ ses[s].row \in {v.id : v \in db.versions}
             /\ db' = insert_version(db, ses[s].row, ses[s].base)
             /\ ses' = [ses EXCEPT ![s].pc = "new_columns", ![s].new = NextId(db.versions)]
    <2>1. PICK y : y = ses'[s]
      OBVIOUS
    <2>2. PICK i : i = NextId(db.versions)
      OBVIOUS
    <2>3. /\ Frame(s, y) /\ y.pc = "new_columns" /\ y.snap = ses[s].snap
      <3>1. ses' = [ses EXCEPT ![s].pc = "new_columns", ![s].new = i]
        BY <1>3, <2>2
      <3>2. QED
        BY <2>1, <3>1 DEF Inv, SesShape, SesFields, Frame
    <2>4. ses[s].base \in Nat /\ ses[s].pc = "new_version"
      BY DEF Inv, InsertNewVersion, At, SesOK
    <2>5. SesGoal(s)
      BY <2>3, <2>4, FreeMoveOK
    <2>6. PICK src : src = CHOOSE v \in db.versions : v.id = ses[s].row
      OBVIOUS
    <2>7. src \in db.versions
      BY <1>3, <2>6
    <2>8. src.table \in Nat
      BY <2>7 DEF Inv, DbShape
    <2>9. DbGoal
      BY <1>3, <2>4, <2>6, <2>8, DbVersion DEF insert_version
    <2>10. QED
      BY <1>1, <2>5, <2>9
  <1>4. QED
    BY <1>2, <1>3 DEF InsertNewVersion

LEMMA CopyColumnsOK ==
    ASSUME Inv, NEW s \in Sessions, CopyColumns(s)
    PROVE  SesGoal(s) /\ MemGoal /\ DbGoal
  <1>1. MemGoal
    BY MemSame DEF CopyColumns
  <1>2. SesGoal(s)
    BY IdleOK DEF CopyColumns
  <1>3. DbGoal
    BY DbSame, DbColumns DEF CopyColumns, copy_columns
  <1>4. QED
    BY <1>1, <1>2, <1>3

\* Fewer rows.
LEMMA DbFewer ==
    ASSUME Inv, NEW d, d = db', DOMAIN d = {"schemas", "tables", "versions"},
           d.tables \subseteq db.tables, d.versions \subseteq db.versions
    PROVE  DbGoal
  <1>1. DbShape(db)
    BY DEF Inv
  <1>2. ASSUME NEW v \in d.versions
        PROVE  /\ v \in [id : Nat, table : Nat, version : Nat, columns : BOOLEAN]
               /\ \E w \in db.versions : w.id = v.id
    BY <1>1 DEF DbShape
  <1>3. ASSUME NEW r \in d.tables
        PROVE  /\ r \in [id : Nat, name : Tables, uuid : Nat]
               /\ \E q \in db.tables : q.id = r.id /\ q.uuid = r.uuid
    BY <1>1 DEF DbShape
  <1>4. QED
    BY <1>2, <1>3, DbLess

LEMMA DbSchema ==
    ASSUME Inv, NEW c, db' = create_collection(db, c)
    PROVE  DbGoal
  <1>1. PICK d : d = db'
    OBVIOUS
  <1>2. DOMAIN d = {"schemas", "tables", "versions"} /\ d.tables = db.tables /\ d.versions = db.versions
    BY <1>1 DEF Inv, DbShape, create_collection
  <1>3. QED
    BY <1>1, <1>2, DbFewer

LEMMA TrimVersionsOK ==
    ASSUME Inv, NEW s \in Sessions, TrimVersions(s)
    PROVE  SesGoal(s) /\ MemGoal /\ DbGoal
  <1>1. MemGoal
    BY MemSame DEF TrimVersions
  <1>2. SesGoal(s)
    BY IdleOK DEF TrimVersions
  <1>3. ASSUME NEW id, db' = delete_old_versions(db, id)
        PROVE  DbGoal
    <2>1. PICK d : d = db'
      OBVIOUS
    <2>2. /\ DOMAIN d = {"schemas", "tables", "versions"} /\ d.tables = db.tables
          /\ d.versions \subseteq db.versions
      BY <1>3, <2>1 DEF Inv, DbShape, delete_old_versions
    <2>3. QED
      BY <2>1, <2>2, DbFewer
  <1>4. DbGoal
    BY <1>3, DbSame DEF TrimVersions
  <1>5. QED
    BY <1>1, <1>2, <1>4

----------------------------------------------------------------------------
(* CREATE, DROP and RENAME                                                 *)

LEMMA ExecCreateOK ==
    ASSUME Inv, NEW s \in Sessions, ExecCreate(s)
    PROVE  SesGoal(s) /\ MemGoal /\ DbGoal
  <1>1. DbGoal
    BY DbSame DEF ExecCreate
  <1>2. ses[s].pc = "exec" /\ Op(s) \in {"create", "ctas", "convert"}
    BY DEF ExecCreate, At
  <1>3. CASE End(s, TRUE) /\ Found(ses[s].st.t) /\ mem' = Touched(ses[s].st.t)
    BY <1>1, <1>3, IdleOK, MemTouched
  <1>4. CASE Goto(s, "convert") /\ UNCHANGED mem /\ Op(s) = "convert"
    <2>1. CtlOK("convert", Op(s))
      BY <1>4 DEF CtlOK
    <2>2. QED
      BY <1>1, <1>2, <1>4, <2>1, MemSame, GotoOK DEF Early, Creating, Reading
  <1>5. CASE Goto(s, "create") /\ UNCHANGED mem /\ Op(s) # "convert"
    <2>1. CtlOK("create", Op(s))
      BY <1>2, <1>5 DEF CtlOK
    <2>2. QED
      BY <1>1, <1>2, <1>5, <2>1, MemSame, GotoOK DEF Early, Creating, Reading
  <1>6. QED
    BY <1>3, <1>4, <1>5 DEF ExecCreate

\* From one step of a CREATE to the next.
LEMMA CreatingOK ==
    ASSUME Inv, NEW s \in Sessions, NEW y, Frame(s, y), ses[s].pc \in Creating,
           y.snap = ses[s].snap, y.uuid = ses[s].uuid, y.adds = ses[s].adds, y.rems = ses[s].rems,
           y.pc \in Creating
    PROVE  SesGoal(s)
  <1>1. SesOK(ses[s])
    BY DEF Inv
  <1>2. SesOK(y)
    BY <1>1 DEF SesOK, Early, Creating, Reading
  <1>3. CtlOK(y.pc, y.st.op) /\ ses[s].pc # "idle"
    BY DEF CtlOK, Creating
  <1>4. QED
    BY <1>2, <1>3, MoveOK

LEMMA RequestIs ==
    ASSUME Inv, NEW s \in Sessions, ses[s].pc # "idle"
    PROVE  ses[s].st.t \in Tables /\ ses[s].st.to \in Tables /\ ses[s].st \in Workload.requests
  BY StatementsAssumption DEF Inv, SesShape, StoreShape, Workload, IsWorkload

LEMMA InsertTableRowOK ==
    ASSUME Inv, NEW s \in Sessions, InsertTableRow(s)
    PROVE  SesGoal(s) /\ MemGoal /\ DbGoal
  <1>1. MemGoal
    BY MemSame DEF InsertTableRow
  <1>2. ses[s].pc = "table_row"
    BY DEF InsertTableRow, At
  <1>3. CASE End(s, FALSE) /\ UNCHANGED db
    BY <1>1, <1>3, IdleOK, DbSame
  <1>4. CASE /\ db' = create_table_row(db, ses[s].st.t, ses[s].uuid)
             /\ ses' = [ses EXCEPT ![s].pc = "version_row", ![s].row = NextId(db.tables)]
    <2>1. PICK y, i, t, u : y = ses'[s] /\ i = NextId(db.tables) /\ t = ses[s].st.t /\ u = ses[s].uuid
      OBVIOUS
    <2>2. /\ Frame(s, y) /\ y.pc = "version_row" /\ y.snap = ses[s].snap /\ y.uuid = ses[s].uuid
          /\ y.adds = ses[s].adds /\ y.rems = ses[s].rems
      <3>1. ses' = [ses EXCEPT ![s].pc = "version_row", ![s].row = i]
        BY <1>4, <2>1
      <3>2. QED
        BY <2>1, <3>1 DEF Inv, SesShape, SesFields, Frame
    <2>3. SesGoal(s)
      BY <1>2, <2>2, CreatingOK DEF Creating
    <2>4. t \in Tables
      BY <1>2, <2>1, RequestIs
    <2>5. Dir(u) /\ u \in Nat
      BY <1>2, <2>1 DEF Inv, SesOK, Creating, Dir, StoreShape
    <2>6. DbShape(db) /\ DbOK(db)
      BY DEF Inv
    <2>7. i \in Nat /\ \A r \in db.tables : r.id < i
      <3>1. \A r \in db.tables : r.id \in Nat
        BY <2>6 DEF DbShape
      <3>2. PICK n \in Nat : \A r \in db.tables : r.id <= n
        BY <2>6 DEF DbShape
      <3>3. QED
        BY <2>1, <3>1, <3>2, NextIdIs
    <2>8. PICK d : d = db'
      OBVIOUS
    <2>9. /\ DOMAIN d = {"schemas", "tables", "versions"} /\ d.versions = db.versions
          /\ d.tables = db.tables \cup {[id |-> i, name |-> t, uuid |-> u]}
      BY <1>4, <2>1, <2>6, <2>8 DEF DbShape, create_table_row
    <2>10. \A r \in d.tables : r.id <= i
      BY <2>6, <2>7, <2>9 DEF DbShape
    <2>11. d.tables \subseteq [id : Nat, name : Tables, uuid : Nat]
      BY <2>4, <2>5, <2>6, <2>7, <2>9 DEF DbShape
    <2>12. DbOK(d)
      BY <2>5, <2>6, <2>9 DEF DbOK
    <2>13. DbGoal
      BY <2>6, <2>7, <2>8, <2>9, <2>10, <2>11, <2>12 DEF DbGoal, DbShape
    <2>14. QED
      BY <1>1, <2>3, <2>13
  <1>5. QED
    BY <1>3, <1>4 DEF InsertTableRow

LEMMA InsertVersionRowOK ==
    ASSUME Inv, NEW s \in Sessions, InsertVersionRow(s)
    PROVE  SesGoal(s) /\ MemGoal /\ DbGoal
  <1>1. MemGoal
    BY MemSame DEF InsertVersionRow
  <1>2. ses[s].pc = "version_row"
    BY DEF InsertVersionRow, At
  <1>3. CASE End(s, FALSE) /\ UNCHANGED db
    BY <1>1, <1>3, IdleOK, DbSame
  <1>4. CASE /\ ses[s].row \in {r.id : r \in db.tables}
             /\ db' = create_table_version(db, ses[s].row)
             /\ ses' = [ses EXCEPT ![s].pc = "column_rows", ![s].new = NextId(db.versions)]
    <2>1. PICK y, i : y = ses'[s] /\ i = NextId(db.versions)
      OBVIOUS
    <2>2. /\ Frame(s, y) /\ y.pc = "column_rows" /\ y.snap = ses[s].snap /\ y.uuid = ses[s].uuid
          /\ y.adds = ses[s].adds /\ y.rems = ses[s].rems
      <3>1. ses' = [ses EXCEPT ![s].pc = "column_rows", ![s].new = i]
        BY <1>4, <2>1
      <3>2. QED
        BY <2>1, <3>1 DEF Inv, SesShape, SesFields, Frame
    <2>3. SesGoal(s)
      BY <1>2, <2>2, CreatingOK DEF Creating
    <2>4. ses[s].row \in Nat
      BY <1>4 DEF Inv, DbShape
    <2>5. DbGoal
      BY <1>4, <2>4, DbVersion DEF create_table_version
    <2>6. QED
      BY <1>1, <2>3, <2>5
  <1>5. QED
    BY <1>3, <1>4 DEF InsertVersionRow

LEMMA InsertColumnRowsOK ==
    ASSUME Inv, NEW s \in Sessions, InsertColumnRows(s)
    PROVE  SesGoal(s) /\ MemGoal /\ DbGoal
  <1>1. MemGoal
    BY MemSame DEF InsertColumnRows
  <1>2. ses[s].pc = "column_rows"
    BY DEF InsertColumnRows, At
  <1>3. CASE End(s, FALSE) /\ UNCHANGED db
    BY <1>1, <1>3, IdleOK, DbSame
  <1>4. CASE db' = create_table_columns(db, ses[s].new) /\ Goto(s, "register_table")
    <2>1. PICK y : y = ses'[s]
      OBVIOUS
    <2>2. /\ Frame(s, y) /\ y.pc = "register_table" /\ y.snap = ses[s].snap /\ y.uuid = ses[s].uuid
          /\ y.adds = ses[s].adds /\ y.rems = ses[s].rems
      BY <1>4, <2>1 DEF Goto, Inv, SesShape, SesFields, Frame
    <2>3. SesGoal(s)
      BY <1>2, <2>2, CreatingOK DEF Creating
    <2>4. QED
      BY <1>1, <1>4, <2>3, DbColumns
  <1>5. QED
    BY <1>3, <1>4 DEF InsertColumnRows

LEMMA RegisterTableOK ==
    ASSUME Inv, NEW s \in Sessions, RegisterTable(s)
    PROVE  SesGoal(s) /\ MemGoal /\ DbGoal
  <1>1. DbGoal
    BY DbSame DEF RegisterTable
  <1>2. ses[s].pc = "register_table"
    BY DEF RegisterTable, At
  <1>3. CASE End(s, FALSE) /\ UNCHANGED mem
    BY <1>1, <1>3, IdleOK, MemSame
  <1>4. CASE /\ mem' = [mem EXCEPT !.tables =
                         [n \in DOMAIN @ \cup {ses[s].st.t} |->
                            IF n = ses[s].st.t THEN [uuid |-> ses[s].uuid, version |-> 0] ELSE @[n]]]
             /\ IF Op(s) \in {"ctas", "upload"} THEN Goto(s, "uuid") ELSE End(s, TRUE)
    <2>1. PICK t, u, m : t = ses[s].st.t /\ u = ses[s].uuid /\ m = mem'
      OBVIOUS
    <2>2. t \in Tables /\ Dir(u) /\ MapOK(mem)
      BY <1>2, <2>1, RequestIs DEF Inv, SesOK, Creating
    <2>3. /\ DOMAIN m = {"schemas", "tables", "versioned"}
          /\ DOMAIN m.tables = DOMAIN mem.tables \cup {t}
          /\ m.tables[t] = [uuid |-> u, version |-> 0]
          /\ \A n \in DOMAIN mem.tables : n # t => m.tables[n] = mem.tables[n]
          /\ m.versioned = mem.versioned
      BY <1>4, <2>1, <2>2 DEF MapOK
    <2>4. EntryOK(m.tables[t])
      BY <2>2, <2>3 DEF EntryOK, Alive, Loadable, NotLoaded
    <2>5. MapOK(m)
      BY <2>2, <2>3, <2>4 DEF MapOK
    <2>6. MemGoal
      BY <2>1, <2>5 DEF MemGoal
    <2>7. CASE Op(s) \in {"ctas", "upload"}
      <3>1. CtlOK("uuid", Op(s)) /\ Goto(s, "uuid")
        BY <1>4, <2>7 DEF CtlOK, Inserts
      <3>2. QED
        BY <1>1, <1>2, <2>6, <3>1, GotoOK DEF Creating, Reading
    <2>8. QED
      BY <1>1, <1>4, <2>6, <2>7, IdleOK
  <1>5. QED
    BY <1>3, <1>4 DEF RegisterTable

LEMMA FileToTableOK ==
    ASSUME Inv, NEW s \in Sessions, FileToTable(s)
    PROVE  SesGoal(s) /\ MemGoal /\ DbGoal
  <1>1. PICK t : t = <<DefaultSchema, ses[s].st.t[2]>>
    OBVIOUS
  <1>2. ses[s].pc = "file_to_table" /\ Op(s) = "upload" /\ SesOK(ses[s])
    BY DEF FileToTable, At, Inv, SesShape, CtlOK, Op
  <1>3. CtlOK("uuid", Op(s)) /\ CtlOK("create", Op(s)) /\ CtlOK("reload", Op(s))
    BY <1>2 DEF CtlOK, Inserts
  <1>4. CASE /\ Goto(s, IF Found(t) THEN "uuid" ELSE "create")
             /\ mem' = IF Found(t) THEN Touched(t) ELSE mem
             /\ UNCHANGED db
    <2>1. MemGoal /\ DbGoal
      BY <1>4, MemTouched, MemSame, DbSame
    <2>2. SesGoal(s)
      BY <1>2, <1>3, <1>4, GotoOK DEF Early, Creating, Reading
    <2>3. QED
      BY <2>1, <2>2
  <1>5. CASE End(s, FALSE) /\ UNCHANGED <<db, mem>>
    BY <1>5, IdleOK, MemSame, DbSame
  <1>6. CASE /\ db' = create_collection(db, ses[s].st.t[1])
             /\ ses' = [ses EXCEPT ![s].pc = "reload", ![s].again = TRUE]
             /\ UNCHANGED mem
    <2>1. MemGoal /\ DbGoal
      BY <1>6, MemSame, DbSchema
    <2>2. PICK y : y = ses'[s]
      OBVIOUS
    <2>3. /\ Frame(s, y) /\ y.pc = "reload" /\ y.snap = ses[s].snap
          /\ y.adds = ses[s].adds /\ y.rems = ses[s].rems
      BY <1>6, <2>2 DEF Inv, SesShape, SesFields, Frame
    <2>4. SesOK(y) /\ CtlOK(y.pc, y.st.op)
      BY <1>2, <1>3, <2>3 DEF SesOK, Early, Creating, Reading, Op, Frame
    <2>5. QED
      BY <1>2, <2>1, <2>3, <2>4, MoveOK
  <1>7. QED
    BY <1>1, <1>4, <1>5, <1>6 DEF FileToTable

\* A DROP goes on to delete from a directory.
LEMMA PurgeMoveOK ==
    ASSUME Inv, NEW s \in Sessions, NEW y, Frame(s, y), ses[s].pc # "idle",
           y.snap = ses[s].snap, y.pc = "purge", Op(s) \in {"drop", "drop_schema"}, Dir(y.uuid)
    PROVE  SesGoal(s)
  <1>1. SesOK(y)
    BY DEF SesOK, Early, Creating, Reading
  <1>2. CtlOK(y.pc, y.st.op)
    BY DEF CtlOK, Frame, Op
  <1>3. QED
    BY <1>1, <1>2, MoveOK

LEMMA ExecDropOK ==
    ASSUME Inv, NEW s \in Sessions, ExecDrop(s)
    PROVE  SesGoal(s) /\ MemGoal /\ DbGoal
  <1>1. DbGoal
    BY DbSame DEF ExecDrop
  <1>2. PICK t, u : t = ses[s].st.t /\ u = UuidOf(t)
    OBVIOUS
  <1>3. ses[s].pc = "exec" /\ Op(s) = "drop"
    BY DEF ExecDrop, At
  <1>4. CASE End(s, TRUE) /\ UNCHANGED mem
    BY <1>1, <1>4, IdleOK, MemSame
  <1>5. CASE ses' = [ses EXCEPT ![s].pc = "drop_get", ![s].cur = t] /\ UNCHANGED mem
    <2>1. PICK y : y = ses'[s]
      OBVIOUS
    <2>2. Frame(s, y) /\ y.pc = "drop_get" /\ y.snap = ses[s].snap
      BY <1>5, <2>1 DEF Inv, SesShape, SesFields, Frame
    <2>3. QED
      BY <1>1, <1>3, <1>5, <2>2, FreeMoveOK, MemSame
  <1>6. CASE /\ Found(t) /\ mem' = Touched(t)
             /\ ses' = [ses EXCEPT ![s].pc = "purge", ![s].uuid = u, ![s].cur = t]
    <2>1. PICK y : y = ses'[s]
      OBVIOUS
    <2>2. Frame(s, y) /\ y.pc = "purge" /\ y.snap = ses[s].snap /\ y.uuid = u
      BY <1>6, <2>1 DEF Inv, SesShape, SesFields, Frame
    <2>3. Dir(y.uuid)
      BY <1>2, <1>6, <2>2, FoundIs
    <2>4. QED
      BY <1>1, <1>3, <1>6, <2>2, <2>3, PurgeMoveOK, MemTouched
  <1>7. QED
    BY <1>2, <1>4, <1>5, <1>6 DEF ExecDrop

LEMMA DropNextTableOK ==
    ASSUME Inv, NEW s \in Sessions, DropNextTable(s)
    PROVE  SesGoal(s) /\ MemGoal /\ DbGoal
  <1>1. DbGoal
    BY DbSame DEF DropNextTable
  <1>2. ses[s].pc = "drop_next" /\ Op(s) \in {"drop", "drop_schema"}
    BY DEF DropNextTable, At, Inv, SesShape, CtlOK, Op
  <1>3. CASE End(s, FALSE) /\ UNCHANGED mem
    BY <1>1, <1>3, IdleOK, MemSame
  <1>4. ASSUME NEW n, Found(n), mem' = Touched(n),
               ses' = [ses EXCEPT ![s].pc = "purge", ![s].uuid = UuidOf(n), ![s].cur = n,
                       ![s].left = @ \ {n}]
        PROVE  SesGoal(s) /\ MemGoal
    <2>1. PICK y, u, l : y = ses'[s] /\ u = UuidOf(n) /\ l = ses[s].left \ {n}
      OBVIOUS
    <2>2. Frame(s, y) /\ y.pc = "purge" /\ y.snap = ses[s].snap /\ y.uuid = u
      <3>1. ses' = [ses EXCEPT ![s].pc = "purge", ![s].uuid = u, ![s].cur = n,
                       ![s].left = @ \ {n}]
        BY <1>4, <2>1
      <3>2. QED
        BY <2>1, <3>1 DEF Inv, SesShape, SesFields, Frame
    <2>3. Dir(y.uuid)
      BY <1>4, <2>1, <2>2, FoundIs
    <2>4. QED
      BY <1>2, <1>4, <2>2, <2>3, PurgeMoveOK, MemTouched
  <1>5. QED
    BY <1>1, <1>3, <1>4 DEF DropNextTable

LEMMA DropNextVersionOK ==
    ASSUME Inv, NEW s \in Sessions, DropNextVersion(s)
    PROVE  SesGoal(s) /\ MemGoal /\ DbGoal
  <1>1. DbGoal /\ MemGoal
    BY DbSame, MemSame DEF DropNextVersion
  <1>2. ses[s].pc = "drop_next" /\ Op(s) \in {"drop", "drop_schema"}
    BY DEF DropNextVersion, At, Inv, SesShape, CtlOK, Op
  <1>3. PICK x, u : /\ x \in mem.versioned /\ u = x[2]
                   /\ ses' = [ses EXCEPT ![s].pc = "purge", ![s].uuid = u, ![s].cur = <<>>]
    BY DEF DropNextVersion
  <1>4. PICK y : y = ses'[s]
    OBVIOUS
  <1>5. Frame(s, y) /\ y.pc = "purge" /\ y.snap = ses[s].snap /\ y.uuid = u
    BY <1>3, <1>4 DEF Inv, SesShape, SesFields, Frame
  <1>6. Dir(y.uuid)
    BY <1>3, <1>5 DEF Inv, MapOK
  <1>7. QED
    BY <1>1, <1>2, <1>5, <1>6, PurgeMoveOK

LEMMA DropGetTableOK ==
    ASSUME Inv, NEW s \in Sessions, DropGetTable(s) \/ RenameGetTable(s) \/ ExecDropSchema(s)
    PROVE  SesGoal(s) /\ MemGoal /\ DbGoal
  <1>1. MemGoal /\ DbGoal
    BY MemSame, DbSame DEF DropGetTable, RenameGetTable, ExecDropSchema
  <1>2. CASE \E ok : End(s, ok)
    BY <1>1, <1>2, IdleOK
  <1>3. PICK y : y = ses'[s]
    OBVIOUS
  <1>4. ASSUME NEW id, DropGetTable(s), ses' = [ses EXCEPT ![s].pc = "drop_row", ![s].row = id]
        PROVE  SesGoal(s)
    <2>1. Frame(s, y) /\ y.pc = "drop_row" /\ y.snap = ses[s].snap
      BY <1>3, <1>4 DEF Inv, SesShape, SesFields, Frame
    <2>2. ses[s].pc = "drop_get" /\ Op(s) \in {"drop", "drop_schema"}
      BY <1>4 DEF DropGetTable, At, Inv, SesShape, CtlOK, Op
    <2>3. QED
      BY <2>1, <2>2, FreeMoveOK
  <1>5. ASSUME NEW id, RenameGetTable(s), ses' = [ses EXCEPT ![s].pc = "rename_row", ![s].row = id]
        PROVE  SesGoal(s)
    <2>1. Frame(s, y) /\ y.pc = "rename_row" /\ y.snap = ses[s].snap
      BY <1>3, <1>5 DEF Inv, SesShape, SesFields, Frame
    <2>2. ses[s].pc = "exec"
      BY <1>5 DEF RenameGetTable, At
    <2>3. QED
      BY <2>1, <2>2, FreeMoveOK
  <1>6. ASSUME NEW l, ExecDropSchema(s), ses' = [ses EXCEPT ![s].pc = "drop_next", ![s].left = l]
        PROVE  SesGoal(s)
    <2>1. Frame(s, y) /\ y.pc = "drop_next" /\ y.snap = ses[s].snap
      BY <1>3, <1>6 DEF Inv, SesShape, SesFields, Frame
    <2>2. ses[s].pc = "exec" /\ Op(s) = "drop_schema"
      BY <1>6 DEF ExecDropSchema, At
    <2>3. QED
      BY <2>1, <2>2, FreeMoveOK
  <1>7. CASE DropGetTable(s)
    BY <1>1, <1>2, <1>4, <1>7 DEF DropGetTable
  <1>8. CASE RenameGetTable(s)
    BY <1>1, <1>2, <1>5, <1>8 DEF RenameGetTable
  <1>9. CASE ExecDropSchema(s)
    <2>1. PICK l : l = {n \in DOMAIN mem.tables : n[1] = ses[s].st.t[1]}
                         \cup {x \in mem.versioned : x[1][1] = ses[s].st.t[1]}
      OBVIOUS
    <2>2. QED
      BY <1>1, <1>2, <1>6, <1>9, <2>1 DEF ExecDropSchema
  <1>10. QED
    BY <1>7, <1>8, <1>9

LEMMA DropRowsOK ==
    ASSUME Inv, NEW s \in Sessions,
           DropDeleteRow(s) \/ DropSchemaRow(s) \/ ExecCreateSchema(s) \/ RenameRow(s)
    PROVE  SesGoal(s) /\ MemGoal /\ DbGoal
  <1>1. MemGoal
    BY MemSame DEF DropDeleteRow, DropSchemaRow, ExecCreateSchema, RenameRow
  <1>2. SesGoal(s)
    <2>1. CASE \E ok : End(s, ok)
      BY <2>1, IdleOK
    <2>2. CASE DropDeleteRow(s) /\ Op(s) # "drop" /\ Goto(s, "drop_next")
      <3>1. ses[s].pc = "drop_row" /\ Op(s) = "drop_schema"
        BY <2>2 DEF DropDeleteRow, At, Inv, SesShape, CtlOK, Op
      <3>2. CtlOK("drop_next", Op(s))
        BY <3>1 DEF CtlOK
      <3>3. QED
        BY <2>2, <3>1, <3>2, GotoOK DEF Early, Creating, Reading
    <2>3. QED
      BY <2>1, <2>2 DEF DropDeleteRow, DropSchemaRow, ExecCreateSchema, RenameRow
  <1>3. DbShape(db)
    BY DEF Inv
  <1>4. PICK d : d = db'
    OBVIOUS
  <1>5. UNCHANGED db => DbGoal
    BY DbSame
  <1>6. ASSUME NEW id, db' = delete_table(db, id)
        PROVE  DbGoal
    <2>1. /\ DOMAIN d = {"schemas", "tables", "versions"}
          /\ d.tables \subseteq db.tables /\ d.versions \subseteq db.versions
      BY <1>3, <1>4, <1>6 DEF DbShape, delete_table
    <2>2. QED
      BY <1>4, <2>1, DbFewer
  <1>7. ASSUME NEW c, db' = delete_collection(db, c)
        PROVE  DbGoal
    <2>1. /\ DOMAIN d = {"schemas", "tables", "versions"}
          /\ d.tables \subseteq db.tables /\ d.versions \subseteq db.versions
      BY <1>3, <1>4, <1>7 DEF DbShape, delete_collection
    <2>2. QED
      BY <1>4, <2>1, DbFewer
  <1>8. ASSUME NEW id, NEW n \in Tables, db' = rename_table(db, id, n)
        PROVE  DbGoal
    <2>1. /\ DOMAIN d = {"schemas", "tables", "versions"} /\ d.versions = db.versions
          /\ d.tables = {IF r.id = id THEN [r EXCEPT !.name = n] ELSE r : r \in db.tables}
      BY <1>3, <1>4, <1>8 DEF DbShape, rename_table
    <2>2. ASSUME NEW r \in d.tables
          PROVE  /\ r \in [id : Nat, name : Tables, uuid : Nat]
                 /\ \E q \in db.tables : q.id = r.id /\ q.uuid = r.uuid
      BY <1>3, <2>1 DEF DbShape
    <2>3. ASSUME NEW v \in d.versions
          PROVE  /\ v \in [id : Nat, table : Nat, version : Nat, columns : BOOLEAN]
                 /\ \E w \in db.versions : w.id = v.id
      BY <1>3, <2>1 DEF DbShape
    <2>4. QED
      BY <1>4, <2>1, <2>2, <2>3, DbLess
  <1>9. DbGoal
    <2>1. CASE RenameRow(s)
      <3>1. ses[s].st.to \in Tables
        BY <2>1, RequestIs DEF RenameRow, At
      <3>2. QED
        BY <1>5, <1>8, <2>1, <3>1 DEF RenameRow
    <2>2. CASE DropDeleteRow(s)
      BY <1>5, <1>6, <2>2 DEF DropDeleteRow
    <2>3. CASE DropSchemaRow(s)
      BY <1>7, <2>3 DEF DropSchemaRow
    <2>4. CASE ExecCreateSchema(s)
      BY <2>4, DbSchema DEF ExecCreateSchema
    <2>5. QED
      BY <2>1, <2>2, <2>3, <2>4
  <1>10. QED
    BY <1>1, <1>2, <1>9

----------------------------------------------------------------------------
(* Steps that change the object store                                      *)

LEMMA StoreMovesOK ==
    ASSUME AtomicRename, Inv, NEW s \in Sessions,
           Commit(s) \/ Vacuum(s) \/ Purge(s) \/ PurgeFails(s)
    PROVE  SesGoal(s) /\ MemGoal /\ DbGoal
  <1>1. MemGoal /\ DbGoal
    BY MemSame, DbSame DEF Commit, Vacuum, Purge, PurgeFails
  <1>2. CASE \E ok : End(s, ok)
    BY <1>1, <1>2, IdleOK
  <1>3. CASE Vacuum(s)
    <2>1. ses[s].pc = "vacuum" /\ Goto(s, "trim") /\ CtlOK("trim", Op(s))
      BY <1>3 DEF Vacuum, At, CtlOK
    <2>2. QED
      BY <1>1, <2>1, GotoOK DEF Early, Creating, Reading
  <1>4. CASE (Purge(s) \/ PurgeFails(s)) /\ Goto(s, "drop_get")
    <2>1. ses[s].pc = "purge" /\ Op(s) \in {"drop", "drop_schema"}
      BY <1>4 DEF Purge, PurgeFails, At, Inv, SesShape, CtlOK, Op
    <2>2. CtlOK("drop_get", Op(s))
      BY <2>1 DEF CtlOK
    <2>3. QED
      BY <1>1, <1>4, <2>1, <2>2, GotoOK DEF Early, Creating, Reading
  <1>5. CASE /\ Commit(s)
             /\ ses' = [ses EXCEPT ![s].pc = "last_version",
                          ![s].base = NextVersion(log[ses[s].tab], CommitBase(s))]
    <2>1. PICK y, v : y = ses'[s] /\ v = NextVersion(log[ses[s].tab], ses[s].base)
      OBVIOUS
    <2>2. Frame(s, y) /\ y.pc = "last_version" /\ y.snap = ses[s].snap /\ y.base = v
      <3>1. ses' = [ses EXCEPT ![s].pc = "last_version", ![s].base = v]
        BY <1>5, <2>1 DEF CommitBase
      <3>2. QED
        BY <2>1, <3>1 DEF Inv, SesShape, SesFields, Frame
    <2>3. ses[s].pc = "commit" /\ Loaded(ses[s])
      BY <1>5 DEF Commit, At, Inv, SesOK
    <2>4. ses[s].base \in Nat /\ log[ses[s].tab] \in Logs
      BY <2>3 DEF Loaded, At_Version, Dir, Inv, StoreShape
    <2>5. v \in Nat
      BY <2>1, <2>4, NextVersionIs
    <2>6. SesOK(y) /\ CtlOK(y.pc, y.st.op)
      BY <2>2, <2>5 DEF SesOK, Early, Creating, Reading, CtlOK
    <2>7. QED
      BY <1>1, <2>2, <2>3, <2>6, MoveOK
  <1>6. CASE Commit(s)
    BY <1>2, <1>5, <1>6 DEF Commit
  <1>7. CASE Purge(s)
    BY <1>4, <1>7 DEF Purge
  <1>8. CASE PurgeFails(s)
    BY <1>2, <1>4, <1>8 DEF PurgeFails
  <1>9. QED
    BY <1>3, <1>6, <1>7, <1>8

\* A step whose acting session refers to what the step itself has written.
LEMMA WriteStep ==
    ASSUME Inv, StoreGoal, NEW s \in Sessions, UNCHANGED <<mem, db>>,
           NEW y, Frame(s, y), ses[s].pc # "idle", y.snap = ses[s].snap,
           CtlOK(y.pc, y.st.op), SesOK(y)'
    PROVE  Inv'
  <1>1. Grow /\ UNCHANGED work /\ StoreShape' /\ StoreOK' /\ StoreShape /\ StoreOK
    BY DEF StoreGoal, Grow, Inv
  <1>2. MapOK(mem)' /\ DbShape(db)' /\ DbOK(db)'
    <2>1. PICK m, d : m = mem /\ d = db
      OBVIOUS
    <2>2. MapOK(m)' /\ DbOK(d)'
      BY <1>1, <2>1, MapKept, DbKept DEF Inv
    <2>3. QED
      BY <2>1, <2>2 DEF DbShape, Inv
  <1>3. ASSUME NEW r \in Sessions
        PROVE  /\ DOMAIN ses'[r] = SesFields /\ CtlOK(ses'[r].pc, ses'[r].st.op)
               /\ ses'[r].pc # "idle" => ses'[r].st \in Workload.requests
               /\ MapOK(ses[r].snap)' /\ SesOK(ses[r])'
    <2>1. PICK z, m : z = ses'[r] /\ m = z.snap
      OBVIOUS
    <2>2. /\ DOMAIN z = SesFields /\ CtlOK(z.pc, z.st.op)
          /\ z.pc # "idle" => z.st \in Workload.requests
          /\ MapOK(m)
      BY <2>1 DEF Frame, Inv, SesShape
    <2>3. MapOK(m)'
      BY <1>1, <2>2, MapKept
    <2>4. CASE r = s
      BY <2>1, <2>2, <2>3, <2>4 DEF Frame
    <2>5. CASE r # s
      <3>1. SesOK(z)
        BY <2>1, <2>5 DEF Frame, Inv
      <3>2. SesOK(z)'
        BY <1>1, <2>2, <3>1, SesKept
      <3>3. QED
        BY <2>1, <2>2, <2>3, <3>2
    <2>6. QED
      BY <2>4, <2>5
  <1>4. Workload' = Workload
    BY <1>1, WorkKept
  <1>5. SesShape'
    BY <1>3, <1>4 DEF SesShape, Frame
  <1>6. QED
    BY <1>1, <1>2, <1>3, <1>5 DEF Inv

LEMMA CreateInv ==
    ASSUME Inv, NEW s \in Sessions, CreateDelta(s) \/ ConvertDelta(s), StoreGoal
    PROVE  Inv'
  <1>1. UNCHANGED <<mem, db, purged>> /\ MemGoal /\ DbGoal
    BY MemSame, DbSame DEF CreateDelta, ConvertDelta
  <1>2. CASE \E ok : End(s, ok)
    BY <1>1, <1>2, IdleOK, QuietStep
  <1>3. ASSUME NEW u, ses' = [ses EXCEPT ![s].pc = "table_row", ![s].uuid = u],
               Dir(u)'
        PROVE  Inv'
    <2>1. PICK y : y = ses'[s]
      OBVIOUS
    <2>2. /\ Frame(s, y) /\ y.pc = "table_row" /\ y.snap = ses[s].snap /\ y.uuid = u
          /\ y.adds = ses[s].adds /\ y.rems = ses[s].rems
      BY <1>3, <2>1 DEF Inv, SesShape, SesFields, Frame
    <2>3. ses[s].pc \in {"create", "convert"} /\ SesOK(ses[s])
      BY DEF CreateDelta, ConvertDelta, At, Inv
    <2>4. y.adds = {} /\ y.rems = {}
      BY <2>2, <2>3 DEF SesOK, Early
    <2>5. SesOK(y)'
      BY <1>3, <2>2, <2>4 DEF SesOK, Early, Creating, Reading
    <2>6. CtlOK(y.pc, y.st.op)
      BY <2>2 DEF CtlOK
    <2>7. QED
      BY <1>1, <2>2, <2>3, <2>5, <2>6, WriteStep
  <1>4. CASE CreateDelta(s) /\ ~ \E ok : End(s, ok)
    <2>1. PICK u : u = Len(log) + 1
      OBVIOUS
    <2>2. log' = Append(log, WithCommit(<<>>, 0, {}, {})) /\ ses' = [ses EXCEPT ![s].pc = "table_row", ![s].uuid = u]
      BY <1>4, <2>1 DEF CreateDelta
    <2>3. Dir(u)'
      <3>1. {} \in SUBSET Nat
        OBVIOUS
      <3>2. PICK l : l = WithCommit(<<>>, 0, {}, {})
        OBVIOUS
      <3>3. l \in Logs /\ DOMAIN l = 0 .. 0
        BY <3>1, <3>2, NewLog
      <3>4. u \in DOMAIN log' /\ log'[u] = l
        BY <2>1, <2>2, <3>2, <3>3, SeqAppend DEF Inv, StoreShape
      <3>5. QED
        BY <3>3, <3>4 DEF Dir, Loadable
    <2>4. QED
      BY <1>3, <2>2, <2>3
  <1>5. CASE ConvertDelta(s) /\ ~ \E ok : End(s, ok)
    <2>1. /\ log' = [log EXCEPT ![1] = WithCommit(<<>>, 0, objs[1], {})]
          /\ ses' = [ses EXCEPT ![s].pc = "table_row", ![s].uuid = 1]
      BY <1>5 DEF ConvertDelta
    <2>2. 1 \in DOMAIN log
      <3>1. Asks("convert")
        BY <1>5 DEF Inv, ConvertDelta, SesShape, CtlOK, At, Asks
      <3>2. Workload.imports = 1
        BY <3>1, StatementsAssumption DEF Asks, IsWorkload, Inv, StoreShape, Workload
      <3>3. QED
        BY <3>2 DEF Inv, StoreOK
    <2>3. Dir(1)'
      BY <2>1, <2>2 DEF Dir, Loadable, WithCommit
    <2>4. QED
      BY <1>3, <2>1, <2>3
  <1>6. QED
    BY <1>2, <1>4, <1>5

LEMMA UploadInv ==
    ASSUME Inv, NEW s \in Sessions, Upload(s), StoreGoal
    PROVE  Inv'
  <1>1. UNCHANGED <<mem, db, log, purged>>
    BY DEF Upload
  <1>2. PICK x, y, f : x = ses[s] /\ y = ses'[s] /\ f = Len(rows) + 1
    OBVIOUS
  <1>3. /\ Frame(s, y) /\ y.snap = ses[s].snap /\ y.uuid = x.uuid /\ y.tab = x.tab
        /\ y.adds = {f} /\ y.rems = x.rems /\ y.base = x.base
        /\ y.pc = IF Op(s) \in {"update", "delete"} THEN "commit" ELSE "load"
    <2>1. PICK pc : pc = IF Op(s) \in {"update", "delete"} THEN "commit" ELSE "load"
      OBVIOUS
    <2>2. ses' = [ses EXCEPT ![s].adds = {f}, ![s].pc = pc]
      BY <1>2, <2>1 DEF Upload
    <2>3. QED
      BY <1>2, <2>1, <2>2 DEF Inv, SesShape, SesFields, Frame
  <1>4. ses[s].pc = "upload" /\ SesOK(x) /\ CtlOK("upload", x.st.op) /\ y.st = x.st /\ x.st.op = Op(s)
    BY <1>2, <1>3 DEF Upload, At, Inv, SesShape, Frame, Op
  <1>5. SesOK(x)'
    BY <1>2, <1>4, SesKept DEF Inv
  <1>6. x.st.op \in {"update", "delete"} => x.rems \in SUBSET DOMAIN rows
    BY <1>2, <1>4 DEF SesOK, Loaded, Inserts
  <1>7. x.st.op \in {"update", "delete"} => RowsIn(x.rems)' = RowsIn(x.rems)
    BY <1>6, RowsKept DEF StoreGoal
  <1>8. /\ f \in DOMAIN rows'
        /\ x.st.op = "update" => rows'[f] = RowsIn(x.rems)
        /\ x.st.op = "delete" => rows'[f] \subseteq RowsIn(x.rems)
    BY <1>2, <1>4 DEF Upload, Inv, StoreShape
  <1>9. Filled(y)'
    <2>1. RowsIn(y.rems)' = RowsIn(x.rems)'
      BY <1>3
    <2>2. QED
      BY <1>3, <1>4, <1>7, <1>8, <2>1 DEF Filled
  <1>10. x.st.op \notin Inserts => Loaded(y)'
    <2>1. x.st.op \notin Inserts => Loaded(x)'
      BY <1>2, <1>4, <1>5 DEF SesOK
    <2>2. QED
      BY <1>3, <2>1 DEF Loaded
  <1>11. Dir(y.uuid)' /\ (x.st.op \in Inserts => y.tab = y.uuid /\ y.rems = {})
    BY <1>2, <1>3, <1>4, <1>5 DEF SesOK
  <1>12. SesOK(y)'
    <2>1. CASE Op(s) \in {"update", "delete"}
      <3>1. y.pc = "commit" /\ y.st.op \notin Inserts /\ y.adds # {}
        BY <1>3, <1>4, <2>1 DEF Inserts
      <3>2. QED
        BY <1>4, <1>9, <1>10, <1>11, <3>1 DEF SesOK, Early, Creating, Reading
    <2>2. CASE Op(s) \notin {"update", "delete"}
      <3>1. y.pc = "load" /\ y.st.op \in Inserts
        BY <1>3, <1>4, <2>2 DEF CtlOK
      <3>2. QED
        BY <1>4, <1>9, <1>11, <3>1 DEF SesOK, Early, Creating, Reading
    <2>3. QED
      BY <2>1, <2>2
  <1>13. CtlOK(y.pc, y.st.op)
    BY <1>3, <1>4 DEF CtlOK, Inserts
  <1>14. QED
    BY <1>1, <1>3, <1>4, <1>12, <1>13, WriteStep

----------------------------------------------------------------------------
(* The invariant                                                           *)

\* The log of a table of the start.
LEMMA SetupLog ==
    ASSUME NEW u \in Nat, NEW l, l = WithCommit(WithCommit(<<>>, 0, {}, {}), 1, {u}, {})
    PROVE  /\ l \in Logs /\ DOMAIN l = 0 .. 1
           /\ l[0].add = {} /\ l[0].rem = {} /\ l[1].add = {u} /\ l[1].rem = {}
  <1>1. PICK k : k = WithCommit(<<>>, 0, {}, {})
    OBVIOUS
  <1>2. {} \in SUBSET Nat /\ {u} \in SUBSET Nat /\ 1 \in Nat
    OBVIOUS
  <1>3. k \in Logs /\ DOMAIN k = 0 .. 0 /\ k[0].add = {} /\ k[0].rem = {}
    BY <1>1, <1>2, NewLog
  <1>4. l = WithCommit(k, 1, {u}, {})
    BY <1>1
  <1>5. l \in Logs
    <2>1. k \in Logs
      BY <1>3
    <2>2. QED
      BY <1>2, <1>4, <2>1, CommitLog
  <1>6. /\ DOMAIN l = DOMAIN k \cup {1} /\ l[1].add = {u} /\ l[1].rem = {}
        /\ \A w \in DOMAIN k : w # 1 => l[w] = k[w]
    BY <1>4 DEF WithCommit
  <1>7. DOMAIN l = 0 .. 1 /\ 0 \in DOMAIN k
    BY <1>3, <1>6
  <1>8. l[0] = k[0]
    BY <1>6, <1>7
  <1>9. QED
    BY <1>3, <1>5, <1>6, <1>7, <1>8

LEMMA SetupIs ==
    ASSUME Init
    PROVE  /\ Cardinality(Workload.tables) \in Nat /\ Workload.imports \in {0, 1}
           /\ SetupDirs \in Nat /\ SetupDirs = Workload.imports + Cardinality(Workload.tables)
           /\ Workload.tables \subseteq Tables
  <1>1. IsWorkload(Workload)
    BY StatementsAssumption DEF Init, Workload
  <1>2. QED
    BY <1>1, FS_CardinalityType DEF IsWorkload, SetupDirs

LEMMA InitInv ==
    ASSUME Init
    PROVE  Inv
  <1>1. PICK N, i, c : N = SetupDirs /\ i = Workload.imports /\ c = Cardinality(Workload.tables)
    OBVIOUS
  <1>2. N \in Nat /\ i \in {0, 1} /\ c \in Nat /\ N = i + c
    BY <1>1, SetupIs
  <1>3. /\ log = [u \in 1 .. N |-> IF u <= i THEN <<>>
                     ELSE WithCommit(WithCommit(<<>>, 0, {}, {}), 1, {u}, {})]
        /\ objs = [u \in 1 .. N |-> {u}] /\ rows = [f \in 1 .. N |-> {f}] /\ purged = {}
        /\ work \in DOMAIN Workloads /\ mem = NoMap /\ ses = [s \in Sessions |-> Idle]
    BY <1>1 DEF Init
  <1>4. ASSUME NEW u \in 1 .. N
        PROVE  /\ u <= i => log[u] = <<>> /\ DOMAIN log[u] = {} /\ log[u] \in Logs
               /\ u > i => /\ log[u] \in Logs /\ DOMAIN log[u] = 0 .. 1
                           /\ log[u][0].add = {} /\ log[u][0].rem = {}
                           /\ log[u][1].add = {u} /\ log[u][1].rem = {}
    <2>1. CASE u <= i
      BY <1>2, <1>3, <2>1, EmptyLog
    <2>2. CASE ~ (u <= i)
      <3>1. log[u] = WithCommit(WithCommit(<<>>, 0, {}, {}), 1, {u}, {}) /\ u \in Nat
        BY <1>2, <1>3, <2>2
      <3>2. QED
        BY <2>2, <3>1, SetupLog
    <2>3. QED
      BY <2>1, <2>2
  <1>5. log \in [1 .. N -> Logs]
    <2>1. \A u \in 1 .. N : log[u] \in Logs
      BY <1>2, <1>4
    <2>2. QED
      BY <1>3, <2>1
  <1>6. StoreShape
    <2>1. log \in Seq(Logs) /\ Len(log) = N
      BY <1>2, <1>5
    <2>2. objs \in Seq(SUBSET Nat) /\ Len(objs) = N /\ rows \in Seq(SUBSET Nat)
      <3>1. objs \in [1 .. N -> SUBSET Nat] /\ rows \in [1 .. N -> SUBSET Nat]
        BY <1>2, <1>3
      <3>2. QED
        BY <1>2, <3>1
    <2>3. QED
      BY <1>3, <2>1, <2>2 DEF StoreShape
  <1>7. StoreOK
    <2>1. DOMAIN log = 1 .. N /\ DOMAIN rows = 1 .. N
      BY <1>3
    <2>2. ASSUME NEW u \in 1 .. N
          PROVE  DirOK(u)
      <3>1. objs[u] \subseteq DOMAIN rows
        BY <1>3
      <3>2. CASE u <= i
        BY <1>4, <2>1, <3>1, <3>2 DEF DirOK, Alive, Loadable
      <3>3. CASE ~ (u <= i)
        <4>1. DOMAIN log[u] = 0 .. 1 /\ log[u][0].add = {} /\ log[u][0].rem = {}
              /\ log[u][1].add = {u} /\ log[u][1].rem = {}
          BY <1>2, <1>4, <3>3
        <4>2. \A v \in DOMAIN log[u] : v = 0 \/ v = 1
          BY <4>1
        <4>3. \A v \in DOMAIN log[u] : log[u][v].add \subseteq DOMAIN rows /\ log[u][v].rem \subseteq DOMAIN rows
          BY <2>1, <4>1, <4>2
        <4>4. 0 \in DOMAIN log[u] /\ 1 \in Nat
          BY <4>1
        <4>5. QED
          BY <3>1, <4>1, <4>3, <4>4 DEF DirOK, Loadable
      <3>4. QED
        BY <3>2, <3>3
    <2>3. QED
      BY <1>1, <1>2, <1>3, <2>1, <2>2 DEF StoreOK
  <1>8. DbShape(db) /\ DbOK(db)
    <2>0. PICK order \in [Workload.tables -> 1 .. Cardinality(Workload.tables)] :
            IsInjective(order) /\ db = SetupDb(order)
      BY DEF Init
    <2>1. /\ order \in [Workload.tables -> 1 .. c]
          /\ db = [schemas  |-> {DefaultSchema} \cup {n[1] : n \in Workload.tables},
                  tables   |-> {[id |-> order[n], name |-> n, uuid |-> i + order[n]] :
                                  n \in Workload.tables},
                  versions |-> {[id |-> 2 * order[n] - k, table |-> order[n], version |-> 1 - k,
                                 columns |-> TRUE] : n \in Workload.tables, k \in {0, 1}}]
      BY <1>1, <2>0 DEF SetupDb
    <2>2. DOMAIN db = {"schemas", "tables", "versions"}
      BY <2>1
    <2>3. ASSUME NEW r \in db.tables
          PROVE  /\ r \in [id : Nat, name : Tables, uuid : Nat] /\ r.id <= c /\ Dir(r.uuid)
      <3>1. PICK n \in Workload.tables : r = [id |-> order[n], name |-> n, uuid |-> i + order[n]]
        BY <2>1
      <3>2. order[n] \in 1 .. c /\ n \in Tables
        BY <2>1, SetupIs
      <3>3. r \in [id : Nat, name : Tables, uuid : Nat] /\ r.id <= c
        BY <1>2, <3>1, <3>2
      <3>4. r.uuid \in 1 .. N /\ r.uuid > i
        BY <1>2, <3>1, <3>2
      <3>5. 0 \in DOMAIN log[r.uuid]
        BY <1>4, <3>4
      <3>6. QED
        BY <1>3, <3>3, <3>4, <3>5 DEF Dir, Loadable
    <2>4. ASSUME NEW v \in db.versions
          PROVE  /\ v \in [id : Nat, table : Nat, version : Nat, columns : BOOLEAN] /\ v.id <= 2 * c
      <3>1. PICK n \in Workload.tables, k \in {0, 1} :
              v = [id |-> 2 * order[n] - k, table |-> order[n], version |-> 1 - k, columns |-> TRUE]
        BY <2>1
      <3>2. order[n] \in 1 .. c
        BY <2>1
      <3>3. QED
        BY <1>2, <3>1, <3>2
    <2>5. 2 * c \in Nat
      BY <1>2
    <2>6. QED
      BY <1>2, <2>2, <2>3, <2>4, <2>5 DEF DbShape, DbOK
  <1>9. MapOK(NoMap)
    BY DEF MapOK, NoMap
  <1>10. SesShape /\ \A s \in Sessions : MapOK(ses[s].snap) /\ SesOK(ses[s])
    <2>1. DOMAIN Idle = SesFields /\ Idle.pc = "idle" /\ Idle.snap = NoMap
      BY DEF Idle, SesFields
    <2>2. SesOK(Idle) /\ CtlOK(Idle.pc, Idle.st.op)
      BY <2>1 DEF SesOK, CtlOK, Early, Creating, Reading
    <2>3. QED
      BY <1>3, <1>9, <2>1, <2>2 DEF SesShape
  <1>11. QED
    BY <1>3, <1>6, <1>7, <1>8, <1>9, <1>10 DEF Inv

LEMMA StutterInv ==
    ASSUME Inv, UNCHANGED vars
    PROVE  Inv'
  <1>1. StoreGoal /\ StoreShape /\ StoreOK
    BY StoreSame DEF vars, storeVars, Inv
  <1>2. Grow /\ StoreShape' /\ StoreOK' /\ Workload' = Workload
    BY <1>1, WorkKept DEF StoreGoal, Grow
  <1>3. MapOK(mem)' /\ DbShape(db)' /\ DbOK(db)'
    <2>1. PICK m, d : m = mem /\ d = db
      OBVIOUS
    <2>2. MapOK(m)' /\ DbOK(d)'
      BY <1>2, <2>1, MapKept, DbKept DEF Inv
    <2>3. QED
      BY <2>1, <2>2 DEF DbShape, Inv, vars
  <1>4. ASSUME NEW r \in Sessions
        PROVE  MapOK(ses[r].snap)' /\ SesOK(ses[r])'
    <2>1. PICK z, m : z = ses[r] /\ m = z.snap
      OBVIOUS
    <2>2. MapOK(m)'
      BY <1>2, <2>1, MapKept DEF Inv
    <2>3. SesOK(z)'
      BY <1>1, <2>1, SesKept DEF Inv, SesShape
    <2>4. QED
      BY <2>1, <2>2, <2>3 DEF vars
  <1>5. SesShape'
    BY <1>2 DEF Inv, SesShape, vars
  <1>6. QED
    BY <1>2, <1>3, <1>4, <1>5 DEF Inv

LEMMA NextInv ==
    ASSUME AtomicRename, Inv, [Next]_vars
    PROVE  Inv'
  <1>1. StoreGoal
    BY StoreStep
  <1>2. CASE UNCHANGED vars
    BY <1>2, StutterInv
  <1>3. ASSUME NEW s \in Sessions, SesGoal(s) /\ MemGoal /\ DbGoal
        PROVE  Inv'
    BY <1>1, <1>3, QuietStep
  <1>4. ASSUME NEW s \in Sessions, Query(s)
        PROVE  Inv'
    BY <1>3, <1>4, BeginOK, BuildCatalogOK, RegisterCatalogOK, PlanOK, ReadsOK,
       RewriteTimeTravelOK DEF Query
  <1>5. ASSUME NEW s \in Sessions, Dml(s)
        PROVE  Inv'
    BY <1>1, <1>3, <1>5, GetTableUuidOK, UploadInv, LoadTableOK, ExecDmlOK, TableDirOK,
       StoreMovesOK, SelectLastVersionOK, InsertNewVersionOK, CopyColumnsOK, ExecVacuumOK,
       TrimVersionsOK DEF Dml
  <1>6. ASSUME NEW s \in Sessions, Ddl(s)
        PROVE  Inv'
    BY <1>1, <1>3, <1>6, ExecCreateOK, CreateInv, InsertTableRowOK, InsertVersionRowOK,
       InsertColumnRowsOK, RegisterTableOK, FileToTableOK, ExecDropOK, StoreMovesOK,
       DropGetTableOK, DropRowsOK, DropNextTableOK, DropNextVersionOK DEF Ddl
  <1>7. ASSUME NEW s \in Sessions, Fail(s)
        PROVE  Inv'
    BY <1>3, <1>7, ReadsOK
  <1>8. QED
    BY <1>2, <1>4, <1>5, <1>6, <1>7 DEF Next

\* Whatever statements run side by side, a Delta log that nobody has dropped
\* has no gaps, and the tables, versions and files that the catalogs and the
\* sessions refer to are there.
THEOREM Invariance == ASSUME AtomicRename PROVE Spec => []Inv
  <1>1. Init => Inv
    BY InitInv
  <1>2. Inv /\ [Next]_vars => Inv'
    BY NextInv
  <1>3. QED
    BY <1>1, <1>2, PTL DEF Spec

----------------------------------------------------------------------------
(* ETags                                                                   *)

\* What a client keeps is the version its ETag stands for, or an error.
TagOK(c) ==
    c = NoTag \/ /\ At_Version(c.uuid, c.version)
                 /\ Alive(c.uuid) /\ c.body # ErrorBody => c.body = Body(c.uuid, c.version)

CacheOK == DOMAIN cache = Sessions /\ \A s \in Sessions : TagOK(cache[s])

LEMMA BodyKept ==
    ASSUME StoreShape, StoreOK, StoreGoal, NEW u, Dir(u), Alive(u)', NEW v \in DOMAIN log[u]
    PROVE  Body(u, v)' = Body(u, v)
  <1>1. PICK F : F = Active(u, v)
    OBVIOUS
  <1>2. Active(u, v)' = F
    BY <1>1, ActiveKept DEF StoreGoal
  <1>3. F \in SUBSET DOMAIN rows
    BY <1>1, ActiveInRows DEF Dir
  <1>4. RowsIn(F)' = RowsIn(F)
    BY <1>3, RowsKept DEF StoreGoal
  <1>5. QED
    BY <1>1, <1>2, <1>4 DEF Body

LEMMA TagKept ==
    ASSUME StoreShape, StoreOK, StoreGoal, NEW c, TagOK(c)
    PROVE  TagOK(c)'
  <1>1. CASE c = NoTag
    BY <1>1 DEF TagOK, NoTag
  <1>2. CASE c # NoTag
    <2>1. At_Version(c.uuid, c.version) /\ Grow
      BY <1>2 DEF TagOK, StoreGoal
    <2>2. At_Version(c.uuid, c.version)'
      BY <2>1, VersionKept
    <2>3. ASSUME Alive(c.uuid)'
          PROVE  Alive(c.uuid) /\ Body(c.uuid, c.version)' = Body(c.uuid, c.version)
      <3>1. Dir(c.uuid) /\ Alive(c.uuid) /\ c.version \in DOMAIN log[c.uuid]
        BY <2>1, <2>3 DEF At_Version, Grow, Dir
      <3>2. QED
        BY <2>3, <3>1, BodyKept
    <2>4. QED
      BY <1>2, <2>2, <2>3 DEF TagOK, ErrorBody
  <1>3. QED
    BY <1>1, <1>2

\* Only the end of a read changes what a client keeps.
LEMMA CacheActions ==
    ASSUME [Next]_vars
    PROVE  UNCHANGED cache \/ \E s \in Sessions : Read(s)
  <1> USE DEF envVars
  <1>1. ASSUME NEW s \in Sessions, Query(s)
        PROVE  UNCHANGED cache \/ Read(s)
    BY <1>1 DEF Query, Begin, BuildCatalog, RegisterCatalog, Plan, NotModified,
                ExecuteQuery, RewriteTimeTravel, PlanTimeTravel
  <1>2. ASSUME NEW s \in Sessions, Dml(s)
        PROVE  UNCHANGED cache
    BY <1>2 DEF Dml, GetTableUuid, Upload, LoadTable, ExecUpdate, ExecDelete,
                ExecTruncate, TableDir, Commit, SelectLastVersion, InsertNewVersion,
                CopyColumns, ExecVacuum, Vacuum, TrimVersions
  <1>3. ASSUME NEW s \in Sessions, Ddl(s)
        PROVE  UNCHANGED cache
    BY <1>3 DEF Ddl, ExecCreate, CreateDelta, ConvertDelta, InsertTableRow, InsertVersionRow,
                InsertColumnRows, RegisterTable, FileToTable, ExecDrop, Purge, PurgeFails,
                DropGetTable, DropDeleteRow, ExecDropSchema, DropNextTable, DropNextVersion, DropSchemaRow,
                ExecCreateSchema, RenameGetTable, RenameRow
  <1>4. ASSUME NEW s \in Sessions, Fail(s)
        PROVE  UNCHANGED cache
    BY <1>4 DEF Fail
  <1>5. CASE UNCHANGED vars
    BY <1>5 DEF vars
  <1>6. QED
    BY <1>1, <1>2, <1>3, <1>4, <1>5 DEF Next

LEMMA CacheStep ==
    ASSUME AtomicRename, Inv, CacheOK, [Next]_vars
    PROVE  CacheOK'
  <1>1. StoreGoal /\ StoreShape /\ StoreOK
    BY StoreStep DEF Inv
  <1>2. CASE UNCHANGED cache
    <2>1. ASSUME NEW s \in Sessions
          PROVE  TagOK(cache[s])'
      <3>1. PICK c : c = cache[s]
        OBVIOUS
      <3>2. TagOK(c)'
        BY <1>1, <3>1, TagKept DEF CacheOK
      <3>3. QED
        BY <1>2, <3>1, <3>2
    <2>2. QED
      BY <1>2, <2>1 DEF CacheOK
  <1>3. ASSUME NEW s \in Sessions, Read(s)
        PROVE  CacheOK'
    <2>1. PICK x, c : x = ses[s] /\ c = cache'[s]
      OBVIOUS
    <2>2. At_Version(x.uuid, x.base) /\ (Alive(x.uuid) => x.adds = Active(x.uuid, x.base))
      BY <1>3, <2>1 DEF Read, At, Inv, SesOK, Reading
    <2>3. /\ DOMAIN cache' = Sessions /\ \A r \in Sessions \ {s} : cache'[r] = cache[r]
          /\ \/ c = cache[s]
             \/ /\ c.uuid = x.uuid /\ c.version = x.base
                /\ c.body \in {RowsIn(x.adds), ErrorBody}
      BY <1>3, <2>1 DEF Read, CacheOK
    <2>4. TagOK(c)
      BY <2>2, <2>3 DEF TagOK, CacheOK, Body
    <2>5. ASSUME NEW r \in Sessions
          PROVE  TagOK(cache[r])'
      <3>1. PICK d : d = cache'[r]
        OBVIOUS
      <3>2. TagOK(d)
        BY <2>1, <2>3, <2>4, <3>1 DEF CacheOK
      <3>3. TagOK(d)'
        BY <1>1, <3>2, TagKept
      <3>4. QED
        BY <3>1, <3>3
    <2>6. QED
      BY <2>3, <2>5 DEF CacheOK
  <1>4. QED
    BY <1>2, <1>3, CacheActions

\* The rows a client keeps under an ETag are those of the version the ETag
\* stands for, whatever is committed between the planning of its query and the
\* reading of the files (cached_read_query).
THEOREM TagsAreExact == ASSUME AtomicRename PROVE Spec => []CacheMatchesTag
  <1>1. Init => CacheOK
    BY DEF Init, CacheOK, TagOK
  <1>2. Inv /\ CacheOK /\ [Next]_vars => CacheOK'
    BY CacheStep
  <1>3. ASSUME Inv, CacheOK
        PROVE  CacheMatchesTag
    <2> SUFFICES ASSUME NEW s \in Sessions, cache[s] # NoTag, cache[s].uuid \notin purged,
                        cache[s].body # ErrorBody
                 PROVE  cache[s].body = Body(cache[s].uuid, cache[s].version)
      BY DEF CacheMatchesTag
    <2>1. At_Version(cache[s].uuid, cache[s].version)
      BY <1>3 DEF CacheOK, TagOK
    <2>2. Alive(cache[s].uuid)
      BY <2>1 DEF At_Version, Dir, Alive
    <2>3. QED
      BY <1>3, <2>2 DEF CacheOK, TagOK
  <1>4. QED
    BY <1>1, <1>2, <1>3, Invariance, PTL DEF Spec

----------------------------------------------------------------------------
(***************************************************************************)
(* What concurrent statements do to the files and the rows of a table: no   *)
(* row is lost, none is doubled, and no file that is needed is deleted.     *)
(***************************************************************************)

----------------------------------------------------------------------------
(* Files that are written and not yet committed                            *)

Staged(x) == IF x.pc \in {"load", "commit"} THEN x.adds ELSE {}

\* No log mentions the file, nor would a CONVERT find it.
Fresh(f) ==
    \A u \in DOMAIN log :
      /\ Alive(u) => \A v \in DOMAIN log[u] : f \notin log[u][v].add /\ f \notin log[u][v].rem
      /\ u \notin purged /\ ~Loadable(u) => f \notin objs[u]

StageOK ==
    /\ \A s \in Sessions : \A f \in Staged(ses[s]) : Fresh(f)
    /\ \A r, s \in Sessions : r # s => Staged(ses[r]) \cap Staged(ses[s]) = {}

----------------------------------------------------------------------------
(* The last version of a table, before and after a step                    *)

\* The session makes a commit to a directory.
CommitsTo(s, u) ==
    /\ Commit(s) /\ ses[s].pc = "commit" /\ ses'[s].pc # "commit" /\ ses[s].tab = u
    /\ ~ Conflict(u, ses[s].base, ses[s].rems)

LEMMA ActiveIsNext ==
    ASSUME NEW u, NEW v, NEW f
    PROVE  f \in Active(u, v)' <=>
             /\ \E w \in DOMAIN log'[u] : w <= v /\ f \in log'[u][w].add
             /\ ~ \E w \in DOMAIN log'[u] : w <= v /\ f \in log'[u][w].rem
  BY DEF Active

LEMMA LastVersion ==
    ASSUME StoreOK, NEW u \in DOMAIN log, Alive(u)
    PROVE  \E n \in Nat : DOMAIN log[u] = 0 .. n /\ Latest(u) = n
  <1>1. PICK n \in Nat : DOMAIN log[u] = 0 .. n
    BY DEF StoreOK, DirOK
  <1>2. QED
    BY <1>1, LatestWhole DEF Latest

LEMMA LastSame ==
    ASSUME NEW u, log'[u] = log[u]
    PROVE  Active(u, Latest(u))' = Active(u, Latest(u))
  BY DEF Active, Latest

\* A commit to a log without gaps adds one version after the last.
Committed(s, u, n) ==
    /\ DOMAIN log[u] = 0 .. n /\ Latest(u) = n
    /\ DOMAIN log'[u] = 0 .. n + 1 /\ Latest(u)' = n + 1
    /\ log'[u][n + 1].add = ses[s].adds /\ log'[u][n + 1].rem = ses[s].rems
    /\ \A w \in DOMAIN log[u] : log'[u][w] = log[u][w]

LEMMA CommitEffect ==
    ASSUME AtomicRename, Inv, NEW s \in Sessions, Commit(s), log' # log,
           NEW u, u = ses[s].tab, Alive(u)
    PROVE  CommitsTo(s, u) /\ \E n \in Nat : Committed(s, u, n)
  <1>1. PICK b, adds, rems : b = ses[s].base /\ adds = ses[s].adds /\ rems = ses[s].rems
    OBVIOUS
  <1>2. PICK v : v = NextVersion(log[u], b)
    OBVIOUS
  <1>3. ~ Conflict(u, b, rems) /\ log' = [log EXCEPT ![u] = WithCommit(@, v, adds, rems)]
    BY <1>1, <1>2 DEF Commit, CommitBase
  <1>4. CommitsTo(s, u)
    <2>1. ses'[s].pc # "commit"
      BY DEF Commit, End, Idle, Inv, SesShape, SesFields
    <2>2. QED
      BY <1>1, <1>3, <2>1 DEF CommitsTo, Commit, At
  <1>5. Loaded(ses[s])
    BY DEF Commit, At, Inv, SesOK
  <1>6. u \in DOMAIN log /\ b \in DOMAIN log[u] /\ b \in Nat /\ log[u] \in Logs
    BY <1>1, <1>5 DEF Loaded, At_Version, Dir, Inv, StoreShape
  <1>7. PICK n \in Nat : DOMAIN log[u] = 0 .. n /\ Latest(u) = n
    BY <1>6, LastVersion DEF Inv
  <1>8. v = n + 1
    BY <1>2, <1>6, <1>7, NextVersionIs
  <1>9. PICK l : l = WithCommit(log[u], v, adds, rems)
    OBVIOUS
  <1>10. log'[u] = l
    BY <1>3, <1>6, <1>9
  <1>11. /\ DOMAIN l = DOMAIN log[u] \cup {v} /\ l[v].add = adds /\ l[v].rem = rems
         /\ \A w \in DOMAIN log[u] : w # v => l[w] = log[u][w]
    BY <1>9 DEF WithCommit
  <1>12. DOMAIN l = 0 .. n + 1 /\ n + 1 \in Nat
    BY <1>7, <1>8, <1>11
  <1>13. Latest(u)' = n + 1
    BY <1>10, <1>12, LatestWhole DEF Latest
  <1>14. \A w \in DOMAIN log[u] : w # v
    BY <1>7, <1>8
  <1>15. QED
    BY <1>1, <1>4, <1>7, <1>8, <1>10, <1>11, <1>12, <1>13, <1>14 DEF Committed

\* What a commit removes is still there, and what it adds was not.
LEMMA CommitFiles ==
    ASSUME AtomicRename, Inv, StageOK, NEW s \in Sessions, Commit(s), log' # log,
           NEW u, u = ses[s].tab, Alive(u)
    PROVE  /\ ses[s].rems \subseteq Active(u, Latest(u))
           /\ Active(u, Latest(u))' = (Active(u, Latest(u)) \ ses[s].rems) \cup ses[s].adds
  <1>1. PICK b, adds, rems : b = ses[s].base /\ adds = ses[s].adds /\ rems = ses[s].rems
    OBVIOUS
  <1>0. PICK n \in Nat : Committed(s, u, n)
    BY CommitEffect
  <1>2. /\ DOMAIN log[u] = 0 .. n /\ Latest(u) = n
        /\ DOMAIN log'[u] = 0 .. n + 1 /\ Latest(u)' = n + 1
        /\ log'[u][n + 1].add = adds /\ log'[u][n + 1].rem = rems
        /\ \A w \in 0 .. n : log'[u][w] = log[u][w]
    BY <1>0, <1>1 DEF Committed
  <1>3. At(s, "commit") /\ Loaded(ses[s]) /\ ~ Conflict(u, b, rems)
    BY <1>1, CommitEffect DEF Commit, At, Inv, SesOK, CommitsTo
  <1>4. u \in DOMAIN log /\ b \in 0 .. n /\ rems \subseteq Active(u, b)
    BY <1>1, <1>2, <1>3 DEF Loaded, At_Version, Dir
  <1>5. \A w \in 0 .. n : w > b => log[u][w].rem \cap rems = {}
    BY <1>2, <1>3 DEF Conflict
  <1>6. ASSUME NEW f \in rems
        PROVE  f \in Active(u, n)
    <2>1. PICK w \in 0 .. n : w <= b /\ f \in log[u][w].add
      BY <1>2, <1>4 DEF Active
    <2>2. \A x \in 0 .. n : x <= b => f \notin log[u][x].rem
      BY <1>2, <1>4 DEF Active
    <2>3. \A x \in 0 .. n : f \notin log[u][x].rem
      BY <1>4, <1>5, <2>2
    <2>4. QED
      BY <1>2, <2>1, <2>3 DEF Active
  <1>7. \A f \in adds : Fresh(f)
    BY <1>1, <1>3 DEF StageOK, Staged, At
  <1>8. ASSUME NEW f \in adds
        PROVE  f \notin rems /\ \A w \in 0 .. n : f \notin log[u][w].add /\ f \notin log[u][w].rem
    <2>1. \A w \in 0 .. n : f \notin log[u][w].add /\ f \notin log[u][w].rem
      BY <1>2, <1>4, <1>7 DEF Fresh
    <2>2. QED
      BY <1>2, <1>6, <2>1, ActiveIs
  <1>9. Active(u, n + 1)' = (Active(u, n) \ rems) \cup adds
    <2>1. ASSUME NEW f
          PROVE  f \in Active(u, n + 1)' <=> /\ f \in adds \/ \E w \in 0 .. n : f \in log[u][w].add
                                             /\ f \notin rems
                                             /\ \A w \in 0 .. n : f \notin log[u][w].rem
      <3>1. \A w : w \in 0 .. n + 1 <=> w \in 0 .. n \/ w = n + 1
        OBVIOUS
      <3>2. \A w \in 0 .. n + 1 : w <= n + 1
        OBVIOUS
      <3>3. f \in Active(u, n + 1)' <=> /\ \E w \in 0 .. n + 1 : f \in log'[u][w].add
                                       /\ \A w \in 0 .. n + 1 : f \notin log'[u][w].rem
        BY <1>2, <3>2, ActiveIsNext
      <3>4. (\E w \in 0 .. n + 1 : f \in log'[u][w].add)
              <=> (f \in adds \/ \E w \in 0 .. n : f \in log[u][w].add)
        <4>1. ASSUME NEW w \in 0 .. n + 1, f \in log'[u][w].add
              PROVE  f \in adds \/ \E x \in 0 .. n : f \in log[u][x].add
          BY <1>2, <3>1, <4>1
        <4>2. ASSUME f \in adds
              PROVE  \E w \in 0 .. n + 1 : f \in log'[u][w].add
          BY <1>2, <3>1, <4>2
        <4>3. ASSUME NEW x \in 0 .. n, f \in log[u][x].add
              PROVE  \E w \in 0 .. n + 1 : f \in log'[u][w].add
          BY <1>2, <3>1, <4>3
        <4>4. QED
          BY <4>1, <4>2, <4>3
      <3>5. (\A w \in 0 .. n + 1 : f \notin log'[u][w].rem)
              <=> (f \notin rems /\ \A w \in 0 .. n : f \notin log[u][w].rem)
        <4>1. ASSUME \A w \in 0 .. n + 1 : f \notin log'[u][w].rem
              PROVE  f \notin rems /\ \A w \in 0 .. n : f \notin log[u][w].rem
          BY <1>2, <3>1, <4>1
        <4>2. ASSUME f \notin rems, \A w \in 0 .. n : f \notin log[u][w].rem, NEW w \in 0 .. n + 1
              PROVE  f \notin log'[u][w].rem
          BY <1>2, <3>1, <4>2
        <4>3. QED
          BY <4>1, <4>2
      <3>6. QED
        BY <3>3, <3>4, <3>5
    <2>2. ASSUME NEW f
          PROVE  f \in Active(u, n) <=> /\ \E w \in 0 .. n : f \in log[u][w].add
                                        /\ \A w \in 0 .. n : f \notin log[u][w].rem
      <3>1. \A w \in 0 .. n : w <= n
        OBVIOUS
      <3>2. QED
        BY <1>2, <3>1, ActiveIs
    <2>3. QED
      BY <1>8, <2>1, <2>2
  <1>10. QED
    BY <1>1, <1>2, <1>6, <1>9

\* VACUUM adds two versions that change nothing.
Vacuumed(u, n) ==
    /\ DOMAIN log[u] = 0 .. n /\ Latest(u) = n
    /\ DOMAIN log'[u] = 0 .. n + 2 /\ Latest(u)' = n + 2
    /\ \A w \in 0 .. n : log'[u][w] = log[u][w]
    /\ \A w \in {n + 1, n + 2} : \A f : f \notin log'[u][w].add /\ f \notin log'[u][w].rem

LEMMA VacuumEffect ==
    ASSUME AtomicRename, Inv, NEW s \in Sessions, Vacuum(s), log' # log,
           NEW u, u = ses[s].tab, Alive(u)
    PROVE  \E n \in Nat : Vacuumed(u, n)
  <1>1. PICK b : b = ses[s].base
    OBVIOUS
  <1>2. PICK v : v = NextVersion(log[u], b)
    OBVIOUS
  <1>3. PICK k : k = WithCommit(log[u], v, {}, {})
    OBVIOUS
  <1>4. PICK x : x = NextVersion(k, b)
    OBVIOUS
  <1>5. PICK l : l = WithCommit(k, x, {}, {})
    OBVIOUS
  <1>6. log' = [log EXCEPT ![u] = l]
    BY <1>1, <1>2, <1>3, <1>4, <1>5 DEF Vacuum
  <1>7. u \in DOMAIN log /\ b \in DOMAIN log[u] /\ b \in Nat /\ log[u] \in Logs
    BY <1>1 DEF Vacuum, At, Inv, SesOK, At_Version, Dir, StoreShape
  <1>8. PICK n \in Nat : DOMAIN log[u] = 0 .. n /\ Latest(u) = n
    BY <1>7, LastVersion DEF Inv
  <1>9. v = n + 1
    BY <1>2, <1>7, <1>8, NextVersionIs
  <1>10. k \in Logs
    <2>1. {} \in SUBSET Nat /\ v \in Nat
      BY <1>9
    <2>2. QED
      BY <1>3, <1>7, <2>1, CommitLog
  <1>11. /\ DOMAIN k = DOMAIN log[u] \cup {v} /\ k[v].add = {} /\ k[v].rem = {}
         /\ \A w \in DOMAIN log[u] : w # v => k[w] = log[u][w]
    BY <1>3 DEF WithCommit
  <1>12. DOMAIN k = 0 .. n + 1 /\ n + 1 \in Nat /\ b <= n + 1
    BY <1>7, <1>8, <1>9, <1>11
  <1>13. x = n + 2
    <2>1. x = (n + 1) + 1
      BY <1>4, <1>7, <1>10, <1>12, NextVersionIs
    <2>2. QED
      BY <2>1
  <1>14. /\ DOMAIN l = DOMAIN k \cup {x} /\ l[x].add = {} /\ l[x].rem = {}
         /\ \A w \in DOMAIN k : w # x => l[w] = k[w]
    BY <1>5 DEF WithCommit
  <1>15. DOMAIN l = 0 .. n + 2 /\ n + 2 \in Nat
    BY <1>12, <1>13, <1>14
  <1>16. log'[u] = l
    BY <1>6, <1>7
  <1>17. Latest(u)' = n + 2
    BY <1>15, <1>16, LatestWhole DEF Latest
  <1>18. \A w \in 0 .. n : w # v /\ w # x /\ w \in DOMAIN k /\ w \in DOMAIN log[u]
    BY <1>8, <1>9, <1>12, <1>13
  <1>19. \A w \in 0 .. n : l[w] = log[u][w]
    BY <1>11, <1>14, <1>18
  <1>20. l[n + 1] = k[v] /\ n + 1 \in DOMAIN k
    BY <1>9, <1>12, <1>13, <1>14
  <1>21. QED
    BY <1>8, <1>11, <1>13, <1>14, <1>15, <1>16, <1>17, <1>19, <1>20 DEF Vacuumed

LEMMA VacuumFiles ==
    ASSUME AtomicRename, Inv, NEW s \in Sessions, Vacuum(s), log' # log,
           NEW u, u = ses[s].tab, Alive(u)
    PROVE  Active(u, Latest(u))' = Active(u, Latest(u))
  <1>0. PICK n \in Nat : Vacuumed(u, n)
    BY VacuumEffect
  <1>1. /\ DOMAIN log[u] = 0 .. n /\ Latest(u) = n
        /\ DOMAIN log'[u] = 0 .. n + 2 /\ Latest(u)' = n + 2
        /\ \A w \in 0 .. n : log'[u][w] = log[u][w]
        /\ \A w \in {n + 1, n + 2} : \A f : f \notin log'[u][w].add /\ f \notin log'[u][w].rem
    BY <1>0 DEF Vacuumed
  <1>2. \A w : w \in 0 .. n + 2 <=> w \in 0 .. n \/ w \in {n + 1, n + 2}
    OBVIOUS
  <1>3. (\A w \in 0 .. n + 2 : w <= n + 2) /\ (\A w \in 0 .. n : w <= n)
    OBVIOUS
  <1>4. ASSUME NEW f
        PROVE  f \in Active(u, n + 2)' <=> f \in Active(u, n)
    <2>1. f \in Active(u, n + 2)' <=> /\ \E w \in 0 .. n + 2 : f \in log'[u][w].add
                                     /\ \A w \in 0 .. n + 2 : f \notin log'[u][w].rem
      BY <1>1, <1>3, ActiveIsNext
    <2>2. f \in Active(u, n) <=> /\ \E w \in 0 .. n : f \in log[u][w].add
                                 /\ \A w \in 0 .. n : f \notin log[u][w].rem
      BY <1>1, <1>3, ActiveIs
    <2>3. /\ (\E w \in 0 .. n + 2 : f \in log'[u][w].add) <=> \E w \in 0 .. n : f \in log[u][w].add
          /\ (\A w \in 0 .. n + 2 : f \notin log'[u][w].rem) <=> \A w \in 0 .. n : f \notin log[u][w].rem
      <3>1. ASSUME NEW w \in 0 .. n
            PROVE  w \in 0 .. n + 2 /\ log'[u][w] = log[u][w]
        BY <1>1, <1>2
      <3>2. ASSUME NEW w \in 0 .. n + 2, w \notin 0 .. n
            PROVE  f \notin log'[u][w].add /\ f \notin log'[u][w].rem
        BY <1>1, <1>2, <3>2
      <3>3. QED
        BY <3>1, <3>2
    <2>4. QED
      BY <2>1, <2>2, <2>3
  <1>5. Active(u, n + 2)' = Active(u, n)
    BY <1>4
  <1>6. QED
    BY <1>1, <1>5

----------------------------------------------------------------------------
(* What a step does to a log                                               *)

Created(u) ==
    /\ u \notin DOMAIN log /\ DOMAIN log'[u] = 0 .. 0
    /\ log'[u][0].add = {} /\ log'[u][0].rem = {}

Converted(u) ==
    /\ u \in DOMAIN log /\ u \notin purged /\ ~Loadable(u)
    /\ DOMAIN log'[u] = 0 .. 0 /\ log'[u][0].add = objs[u] /\ log'[u][0].rem = {}
    /\ UNCHANGED objs

LEMMA LogStep ==
    ASSUME AtomicRename, Inv, [Next]_vars, NEW u \in DOMAIN log', Alive(u)'
    PROVE  \/ u \in DOMAIN log /\ Alive(u) /\ log'[u] = log[u]
           \/ Created(u)
           \/ Converted(u)
           \/ /\ u \in DOMAIN log /\ Alive(u) /\ log' # log
              /\ \E s \in Sessions : (Commit(s) \/ Vacuum(s)) /\ u = ses[s].tab
  <1>1. StoreGoal /\ Grow /\ purged \subseteq purged' /\ UNCHANGED work
    BY StoreStep DEF StoreGoal, Grow
  <1>2. ASSUME u \in DOMAIN log, log'[u] = log[u]
        PROVE  Alive(u)
    BY <1>1, <1>2, WorkKept DEF Alive, Loadable
  <1>3. CASE UNCHANGED <<storeVars, work>>
    BY <1>2, <1>3 DEF storeVars
  <1>4. ASSUME NEW s \in Sessions, CreateDelta(s)
        PROVE  (u \in DOMAIN log /\ log'[u] = log[u]) \/ Created(u)
    <2>1. CASE UNCHANGED log
      BY <2>1
    <2>2. CASE log' = Append(log, WithCommit(<<>>, 0, {}, {}))
      <3>1. PICK l : l = WithCommit(<<>>, 0, {}, {})
        OBVIOUS
      <3>2. {} \in SUBSET Nat
        OBVIOUS
      <3>3. l \in Logs /\ DOMAIN l = 0 .. 0 /\ l[0].add = {} /\ l[0].rem = {}
        BY <3>1, <3>2, NewLog
      <3>4. /\ log' = Append(log, l) /\ log \in Seq(Logs)
        BY <2>2, <3>1 DEF Inv, StoreShape
      <3>5. /\ DOMAIN log' = DOMAIN log \cup {Len(log) + 1} /\ log'[Len(log) + 1] = l
            /\ DOMAIN log = 1 .. Len(log) /\ Len(log) \in Nat
            /\ \A w \in DOMAIN log : log'[w] = log[w]
        BY <3>3, <3>4, SeqAppend
      <3>6. QED
        BY <3>3, <3>5 DEF Created
    <2>3. QED
      BY <1>4, <2>1, <2>2 DEF CreateDelta
  <1>5. ASSUME NEW s \in Sessions, ConvertDelta(s)
        PROVE  (u \in DOMAIN log /\ log'[u] = log[u]) \/ Converted(u)
    <2>1. CASE UNCHANGED log
      BY <2>1
    <2>2. CASE ~ Loadable(1) /\ log' = [log EXCEPT ![1] = WithCommit(<<>>, 0, objs[1], {})]
      <3>1. DOMAIN log' = DOMAIN log /\ \A w \in DOMAIN log : w # 1 => log'[w] = log[w]
        BY <2>2
      <3>2. CASE u = 1
        <4>1. log'[1] = WithCommit(<<>>, 0, objs[1], {}) /\ 1 \in DOMAIN log
          BY <2>2, <3>1, <3>2
        <4>2. objs[1] \in SUBSET Nat
          BY <4>1 DEF Inv, StoreShape
        <4>3. DOMAIN log'[1] = 0 .. 0 /\ log'[1][0].add = objs[1] /\ log'[1][0].rem = {}
          BY <4>1, <4>2, NewLog
        <4>4. Asks("convert") /\ UNCHANGED objs /\ purged' = purged
          BY <1>5 DEF Inv, ConvertDelta, SesShape, CtlOK, At, Asks
        <4>5. 1 \notin purged
          BY <1>1, <3>2, <4>4, WorkKept DEF Alive, Inv, StoreOK, TakesOver
        <4>6. QED
          BY <2>2, <3>2, <4>1, <4>3, <4>4, <4>5 DEF Converted
      <3>3. QED
        BY <3>1, <3>2
    <2>3. QED
      BY <1>5, <2>1, <2>2 DEF ConvertDelta
  <1>6. ASSUME NEW s \in Sessions, Upload(s)
        PROVE  u \in DOMAIN log /\ log'[u] = log[u]
    BY <1>6 DEF Upload
  <1>7. ASSUME NEW s \in Sessions, Purge(s) \/ PurgeFails(s)
        PROVE  u \in DOMAIN log /\ log'[u] = log[u]
    <2>1. CASE UNCHANGED log
      BY <2>1
    <2>2. CASE log' = [log EXCEPT ![ses[s].uuid] = <<>>]
      <3>1. DOMAIN log' = DOMAIN log
        BY <2>2
      <3>2. CASE u = ses[s].uuid
        <4>1. log'[u] = <<>>
          BY <2>2, <3>1, <3>2
        <4>2. QED
          BY <4>1, EmptyLog DEF Alive, Loadable
      <3>3. CASE u # ses[s].uuid
        BY <2>2, <3>1, <3>3
      <3>4. QED
        BY <3>2, <3>3
    <2>3. QED
      BY <1>7, <2>1, <2>2 DEF Purge, PurgeFails
  <1>8. ASSUME NEW s \in Sessions, Commit(s) \/ Vacuum(s)
        PROVE  \/ u \in DOMAIN log /\ log'[u] = log[u]
               \/ u \in DOMAIN log /\ Alive(u) /\ log' # log /\ u = ses[s].tab
    <2>1. CASE UNCHANGED log
      BY <2>1
    <2>2. PICK t : t = ses[s].tab
      OBVIOUS
    <2>3. Dir(t)
      BY <1>8, <2>2 DEF Commit, Vacuum, At, Inv, SesOK, Loaded, At_Version
    <2>4. DOMAIN log' = DOMAIN log /\ \A w \in DOMAIN log : w # t => log'[w] = log[w]
      BY <1>8, <2>2 DEF Commit, Vacuum
    <2>5. CASE u = t
      BY <1>1, <2>1, <2>2, <2>3, <2>4, <2>5 DEF Grow
    <2>6. QED
      BY <2>4, <2>5
  <1>9. ASSUME NEW s \in Sessions, StoreAction(s)
        PROVE  \/ u \in DOMAIN log /\ log'[u] = log[u]
               \/ Created(u)
               \/ Converted(u)
               \/ /\ u \in DOMAIN log /\ Alive(u) /\ log' # log
                  /\ (Commit(s) \/ Vacuum(s)) /\ u = ses[s].tab
    BY <1>4, <1>5, <1>6, <1>7, <1>8, <1>9 DEF StoreAction
  <1>10. QED
    BY <1>2, <1>3, <1>9, StoreActions

----------------------------------------------------------------------------
(* What a step does to the sessions                                        *)

\* A file is staged by an upload and stays so until it is committed; the files
\* a session wants to remove are those of a last version.
StageMove(s) ==
    /\ \A r \in Sessions \ {s} : ses'[r] = ses[r]
    /\ \/ ses'[s].pc \notin {"load", "commit"}
       \/ ses'[s].adds \subseteq Staged(ses[s]) /\ ses'[s].st = ses[s].st
       \/ Upload(s) /\ ses'[s].adds = {Len(rows) + 1} /\ ses'[s].st = ses[s].st
    /\ \/ ses'[s].rems \in {ses[s].rems, {}}
       \/ \E u : Dir(u) /\ Loadable(u) /\ ses'[s].rems \subseteq Active(u, Latest(u))

LEMMA EndMove ==
    ASSUME SesShape, NEW s \in Sessions, NEW ok, End(s, ok)
    PROVE  StageMove(s)
  BY DEF End, Idle, SesShape, StageMove

LEMMA GotoMove ==
    ASSUME SesShape, NEW s \in Sessions, NEW pc, Goto(s, pc), pc \notin {"load", "commit"}
    PROVE  StageMove(s)
  BY DEF Goto, SesShape, SesFields, StageMove

LEMMA QueryMoves ==
    ASSUME Inv, NEW s \in Sessions, Query(s)
    PROVE  StageMove(s)
  <1>1. SesShape /\ SesOK(ses[s]) /\ DOMAIN ses = Sessions /\ DOMAIN ses[s] = SesFields
    BY DEF Inv, SesShape
  <1>2. ASSUME NEW r \in Workload.requests, Begin(s, r)
        PROVE  StageMove(s)
    BY <1>1, <1>2 DEF Begin, StageMove, Idle
  <1>3. CASE BuildCatalog(s)
    BY <1>1, <1>3, EndMove, GotoMove DEF BuildCatalog, StageMove, SesFields
  <1>4. CASE RegisterCatalog(s)
    BY <1>1, <1>4, EndMove, GotoMove DEF RegisterCatalog, StageMove, SesFields
  <1>5. CASE Plan(s)
    <2>1. PICK u, v : u = UuidOf(ses[s].st.t) /\ v = VersionOf(ses[s].st.t)
      OBVIOUS
    <2>2. PICK a : a = Active(u, v)
      OBVIOUS
    <2>3. \/ End(s, FALSE) \/ Goto(s, "uuid") \/ Goto(s, "exec")
          \/ ses' = [ses EXCEPT ![s].pc = "etag", ![s].uuid = u, ![s].base = v, ![s].adds = a]
      BY <1>5, <2>1, <2>2 DEF Plan
    <2>4. CASE ses' = [ses EXCEPT ![s].pc = "etag", ![s].uuid = u, ![s].base = v, ![s].adds = a]
      BY <1>1, <2>4 DEF StageMove, SesFields
    <2>5. QED
      BY <1>1, <2>3, <2>4, EndMove, GotoMove
  <1>6. CASE NotModified(s)
    BY <1>1, <1>6, EndMove, GotoMove DEF NotModified, StageMove, SesFields
  <1>7. CASE ExecuteQuery(s)
    BY <1>1, <1>7, EndMove, GotoMove DEF ExecuteQuery, StageMove, SesFields
  <1>8. CASE Read(s)
    BY <1>1, <1>8, EndMove, GotoMove DEF Read, StageMove, SesFields
  <1>9. CASE RewriteTimeTravel(s)
    <2>1. PICK u : u = UuidOf(ses[s].st.t)
      OBVIOUS
    <2>2. \/ End(s, FALSE)
          \/ \E v : ses' = [ses EXCEPT ![s].pc = "plan_travel", ![s].uuid = u,
                              ![s].base = v, ![s].adds = Active(u, v)]
      BY <1>9, <2>1 DEF RewriteTimeTravel
    <2>3. ASSUME NEW v, ses' = [ses EXCEPT ![s].pc = "plan_travel", ![s].uuid = u,
                              ![s].base = v, ![s].adds = Active(u, v)]
          PROVE  StageMove(s)
      <3>1. PICK a : a = Active(u, v)
        OBVIOUS
      <3>2. ses' = [ses EXCEPT ![s].pc = "plan_travel", ![s].uuid = u, ![s].base = v, ![s].adds = a]
        BY <2>3, <3>1
      <3>3. QED
        BY <1>1, <3>2 DEF StageMove, SesFields
    <2>4. QED
      BY <1>1, <2>2, <2>3, EndMove
  <1>10. CASE PlanTimeTravel(s)
    BY <1>1, <1>10, EndMove, GotoMove DEF PlanTimeTravel, StageMove, SesFields
  <1>11. QED
    BY <1>2, <1>3, <1>4, <1>5, <1>6, <1>7, <1>8, <1>9, <1>10 DEF Query

LEMMA DmlMoves ==
    ASSUME Inv, NEW s \in Sessions, Dml(s)
    PROVE  StageMove(s)
  <1>1. SesShape /\ SesOK(ses[s]) /\ DOMAIN ses = Sessions /\ DOMAIN ses[s] = SesFields
    BY DEF Inv, SesShape
  <1>2. CASE GetTableUuid(s)
    <2>1. ASSUME NEW u, ses' = [ses EXCEPT ![s].pc = "upload", ![s].uuid = u, ![s].tab = u]
          PROVE  StageMove(s)
      BY <1>1, <2>1 DEF StageMove, SesFields
    <2>2. QED
      BY <1>1, <1>2, <2>1, EndMove, GotoMove DEF GetTableUuid
  <1>3. CASE LoadTable(s)
    <2>1. ASSUME NEW v, ses' = [ses EXCEPT ![s].pc = "commit", ![s].base = v]
          PROVE  StageMove(s)
      <3>1. /\ \A r \in Sessions \ {s} : ses'[r] = ses[r]
            /\ ses'[s].adds = ses[s].adds /\ ses'[s].st = ses[s].st /\ ses'[s].rems = ses[s].rems
        BY <1>1, <2>1 DEF SesFields
      <3>2. Staged(ses[s]) = ses[s].adds
        BY <1>3 DEF LoadTable, At, Staged
      <3>3. QED
        BY <3>1, <3>2 DEF StageMove
    <2>2. PICK v : v = Latest(ses[s].tab)
      OBVIOUS
    <2>3. End(s, FALSE) \/ ses' = [ses EXCEPT ![s].pc = "commit", ![s].base = v]
      BY <1>3, <2>2 DEF LoadTable
    <2>4. QED
      BY <1>1, <2>1, <2>3, EndMove
  <1>4. CASE TableDir(s)
    <2>1. ses[s].adds = {}
      BY <1>1, <1>4 DEF TableDir, At, SesOK, Early
    <2>2. ASSUME NEW u, NEW pc, ses' = [ses EXCEPT ![s].uuid = u, ![s].pc = pc]
          PROVE  StageMove(s)
      BY <1>1, <2>1, <2>2 DEF StageMove, SesFields
    <2>3. PICK u : u = UuidOf(ses[s].st.t)
      OBVIOUS
    <2>4. PICK pc : pc = CASE Op(s) = "delete" -> "exec_delete"
                           [] ses[s].rems # {} -> "upload"
                           [] OTHER -> "commit"
      OBVIOUS
    <2>5. End(s, FALSE) \/ ses' = [ses EXCEPT ![s].uuid = u, ![s].pc = pc]
      BY <1>4, <2>3, <2>4 DEF TableDir
    <2>6. QED
      BY <1>1, <2>2, <2>5, EndMove
  <1>5. CASE Commit(s)
    <2>1. ASSUME NEW v, ses' = [ses EXCEPT ![s].pc = "last_version", ![s].base = v]
          PROVE  StageMove(s)
      BY <1>1, <2>1 DEF StageMove, SesFields
    <2>2. QED
      BY <1>1, <1>5, <2>1, EndMove, GotoMove DEF Commit
  <1>6. CASE SelectLastVersion(s)
    BY <1>1, <1>6, EndMove, GotoMove DEF SelectLastVersion, StageMove, SesFields
  <1>7. CASE InsertNewVersion(s)
    BY <1>1, <1>7, EndMove, GotoMove DEF InsertNewVersion, StageMove, SesFields
  <1>8. CASE CopyColumns(s)
    BY <1>1, <1>8, EndMove, GotoMove DEF CopyColumns, StageMove, SesFields
  <1>9. CASE Vacuum(s)
    BY <1>1, <1>9, EndMove, GotoMove DEF Vacuum, StageMove, SesFields
  <1>10. CASE TrimVersions(s)
    BY <1>1, <1>10, EndMove, GotoMove DEF TrimVersions, StageMove, SesFields
  <1>11. CASE Upload(s)
    BY <1>1, <1>11 DEF Upload, StageMove, SesFields
  <1>12. CASE ExecUpdate(s) \/ ExecDelete(s) \/ ExecTruncate(s) \/ ExecVacuum(s)
    <2>1. CASE LoadError(s)
      BY <1>1, <2>1, EndMove DEF LoadError
    <2>2. CASE Goto(s, "trim")
      BY <1>1, <2>2, GotoMove
    <2>3. ASSUME CanLoad(s), NEW hit, hit \in Hits(s) \/ hit = {}, NEW pc, LoadedWith(s, hit, pc)
          PROVE  StageMove(s)
      <3>1. ses[s].pc \in {"exec", "exec_delete"} /\ ses[s].adds = {}
        BY <1>1, <1>12 DEF ExecUpdate, ExecDelete, ExecTruncate, ExecVacuum, At, SesOK, Early
      <3>2. PICK u : u = UuidOf(ses[s].st.t)
        OBVIOUS
      <3>3. Dir(u) /\ Loadable(u) /\ hit \subseteq Active(u, Latest(u))
        BY <2>3, <3>2, FoundIs DEF CanLoad, Hits
      <3>4. ses' = [ses EXCEPT ![s].tab = u, ![s].base = Latest(u), ![s].rems = hit, ![s].pc = pc]
        BY <2>3, <3>2 DEF LoadedWith
      <3>5. /\ ses'[s].rems = hit /\ ses'[s].adds = {} /\ ses'[s].st = ses[s].st
            /\ \A r \in Sessions \ {s} : ses'[r] = ses[r]
        BY <1>1, <3>1, <3>4 DEF SesFields
      <3>6. QED
        BY <3>3, <3>5 DEF StageMove
    <2>4. QED
      BY <1>12, <2>1, <2>2, <2>3 DEF ExecUpdate, ExecDelete, ExecTruncate, ExecVacuum
  <1>13. QED
    BY <1>2, <1>3, <1>4, <1>5, <1>6, <1>7, <1>8, <1>9, <1>10, <1>11, <1>12 DEF Dml

LEMMA DdlMoves ==
    ASSUME Inv, NEW s \in Sessions, Ddl(s)
    PROVE  StageMove(s)
  <1>1. SesShape /\ SesOK(ses[s]) /\ DOMAIN ses = Sessions /\ DOMAIN ses[s] = SesFields
    BY DEF Inv, SesShape
  <1>2. CASE ExecCreate(s)
    BY <1>1, <1>2, EndMove, GotoMove DEF ExecCreate, StageMove, SesFields
  <1>3. CASE CreateDelta(s)
    BY <1>1, <1>3, EndMove, GotoMove DEF CreateDelta, StageMove, SesFields
  <1>4. CASE ConvertDelta(s)
    <2>1. ASSUME NEW u, ses' = [ses EXCEPT ![s].pc = "table_row", ![s].uuid = u]
          PROVE  StageMove(s)
      BY <1>1, <2>1 DEF StageMove, SesFields
    <2>2. QED
      BY <1>1, <1>4, <2>1, EndMove, GotoMove DEF ConvertDelta
  <1>5. CASE InsertTableRow(s)
    BY <1>1, <1>5, EndMove, GotoMove DEF InsertTableRow, StageMove, SesFields
  <1>6. CASE InsertVersionRow(s)
    BY <1>1, <1>6, EndMove, GotoMove DEF InsertVersionRow, StageMove, SesFields
  <1>7. CASE InsertColumnRows(s)
    BY <1>1, <1>7, EndMove, GotoMove DEF InsertColumnRows, StageMove, SesFields
  <1>8. CASE RegisterTable(s)
    BY <1>1, <1>8, EndMove, GotoMove DEF RegisterTable, StageMove, SesFields
  <1>9. CASE FileToTable(s)
    BY <1>1, <1>9, EndMove, GotoMove DEF FileToTable, StageMove, SesFields
  <1>10. CASE ExecDrop(s)
    <2>1. PICK u, t : u = UuidOf(ses[s].st.t) /\ t = ses[s].st.t
      OBVIOUS
    <2>2. \/ End(s, TRUE)
          \/ ses' = [ses EXCEPT ![s].pc = "drop_get", ![s].cur = t]
          \/ ses' = [ses EXCEPT ![s].pc = "purge", ![s].uuid = u, ![s].cur = t]
      BY <1>10, <2>1 DEF ExecDrop
    <2>3. CASE ses' = [ses EXCEPT ![s].pc = "drop_get", ![s].cur = t]
      BY <1>1, <2>3 DEF StageMove, SesFields
    <2>4. CASE ses' = [ses EXCEPT ![s].pc = "purge", ![s].uuid = u, ![s].cur = t]
      BY <1>1, <2>4 DEF StageMove, SesFields
    <2>5. QED
      BY <1>1, <2>2, <2>3, <2>4, EndMove
  <1>11. CASE Purge(s)
    BY <1>1, <1>11, EndMove, GotoMove DEF Purge, StageMove, SesFields
  <1>12. CASE PurgeFails(s)
    BY <1>1, <1>12, EndMove, GotoMove DEF PurgeFails, StageMove, SesFields
  <1>13. CASE DropGetTable(s)
    BY <1>1, <1>13, EndMove, GotoMove DEF DropGetTable, StageMove, SesFields
  <1>14. CASE DropDeleteRow(s)
    BY <1>1, <1>14, EndMove, GotoMove DEF DropDeleteRow, StageMove, SesFields
  <1>15. CASE ExecDropSchema(s)
    BY <1>1, <1>15, EndMove, GotoMove DEF ExecDropSchema, StageMove, SesFields
  <1>16. CASE DropNextTable(s)
    <2>1. \/ End(s, FALSE)
          \/ \E n : ses' = [ses EXCEPT ![s].pc = "purge", ![s].uuid = UuidOf(n), ![s].cur = n,
                       ![s].left = @ \ {n}]
      BY <1>16 DEF DropNextTable
    <2>2. ASSUME NEW n, ses' = [ses EXCEPT ![s].pc = "purge", ![s].uuid = UuidOf(n), ![s].cur = n,
                       ![s].left = @ \ {n}]
          PROVE  StageMove(s)
      <3>1. PICK u : u = UuidOf(n)
        OBVIOUS
      <3>2. ses' = [ses EXCEPT ![s].pc = "purge", ![s].uuid = u, ![s].cur = n, ![s].left = @ \ {n}]
        BY <2>2, <3>1
      <3>3. QED
        BY <1>1, <3>2 DEF StageMove, SesFields
    <2>3. QED
      BY <1>1, <2>1, <2>2, EndMove
  <1>17. CASE DropSchemaRow(s)
    BY <1>1, <1>17, EndMove, GotoMove DEF DropSchemaRow, StageMove, SesFields
  <1>18. CASE ExecCreateSchema(s)
    BY <1>1, <1>18, EndMove, GotoMove DEF ExecCreateSchema, StageMove, SesFields
  <1>19. CASE RenameGetTable(s)
    BY <1>1, <1>19, EndMove, GotoMove DEF RenameGetTable, StageMove, SesFields
  <1>20. CASE RenameRow(s)
    BY <1>1, <1>20, EndMove, GotoMove DEF RenameRow, StageMove, SesFields
  <1>21. CASE DropNextVersion(s)
    <2>1. PICK u : ses' = [ses EXCEPT ![s].pc = "purge", ![s].uuid = u, ![s].cur = <<>>]
      BY <1>21 DEF DropNextVersion
    <2>2. QED
      BY <1>1, <2>1 DEF StageMove, SesFields
  <1>22. QED
    BY <1>2, <1>3, <1>4, <1>5, <1>6, <1>7, <1>8, <1>9, <1>10, <1>11, <1>12, <1>13, <1>14, <1>15,
       <1>16, <1>17, <1>18, <1>19, <1>20, <1>21 DEF Ddl

\* What one step does to the sessions.
LEMMA SessionMoves ==
    ASSUME Inv, [Next]_vars
    PROVE  UNCHANGED vars \/ \E s \in Sessions : StageMove(s)
  <1>1. ASSUME NEW s \in Sessions, Fail(s)
        PROVE  StageMove(s)
    BY <1>1, EndMove DEF Fail, Inv
  <1>2. QED
    BY <1>1, QueryMoves, DmlMoves, DdlMoves DEF Next

----------------------------------------------------------------------------
(* Staged files stay fresh                                                 *)

LEMMA StagedInRows ==
    ASSUME Inv, NEW s \in Sessions
    PROVE  Staged(ses[s]) \subseteq DOMAIN rows
  BY DEF Inv, SesOK, Staged, Filled

\* The files of a directory that nobody refers to.
LEMMA ObjsStep ==
    ASSUME AtomicRename, Inv, [Next]_vars, NEW u \in DOMAIN log', u \notin purged', ~ Loadable(u)'
    PROVE  u \in DOMAIN log /\ u \notin purged /\ ~ Loadable(u) /\ objs'[u] \subseteq objs[u]
  <1>1. Grow
    BY StoreStep DEF StoreGoal
  <1>2. ASSUME u \in DOMAIN log
        PROVE  u \notin purged /\ ~ Loadable(u) /\ ~ Dir(u)
    BY <1>1, <1>2 DEF Grow, Dir
  <1>3. CASE UNCHANGED <<storeVars, work>>
    BY <1>2, <1>3 DEF storeVars
  <1>4. ASSUME NEW s \in Sessions, CreateDelta(s)
        PROVE  u \in DOMAIN log /\ objs'[u] \subseteq objs[u]
    <2>1. CASE UNCHANGED <<log, objs>>
      BY <2>1
    <2>2. CASE log' = Append(log, WithCommit(<<>>, 0, {}, {})) /\ objs' = Append(objs, {})
      <3>1. PICK l : l = WithCommit(<<>>, 0, {}, {})
        OBVIOUS
      <3>2. {} \in SUBSET Nat
        OBVIOUS
      <3>3. l \in Logs /\ 0 \in DOMAIN l
        BY <3>1, <3>2, NewLog
      <3>4. log' = Append(log, l) /\ log \in Seq(Logs)
        BY <2>2, <3>1 DEF Inv, StoreShape
      <3>5. DOMAIN log' = DOMAIN log \cup {Len(log) + 1} /\ log'[Len(log) + 1] = l
        BY <3>3, <3>4, SeqAppend
      <3>6. u \in DOMAIN log
        BY <3>3, <3>5 DEF Loadable
      <3>7. objs \in Seq(SUBSET Nat) /\ u \in DOMAIN objs
        BY <3>6 DEF Inv, StoreShape
      <3>8. objs'[u] = objs[u]
        BY <2>2, <3>2, <3>7, SeqAppend
      <3>9. QED
        BY <3>6, <3>8
    <2>3. QED
      BY <1>4, <2>1, <2>2 DEF CreateDelta
  <1>5. ASSUME NEW s \in Sessions, ConvertDelta(s)
        PROVE  u \in DOMAIN log /\ objs'[u] \subseteq objs[u]
    BY <1>5 DEF ConvertDelta
  <1>6. ASSUME NEW s \in Sessions, Upload(s)
        PROVE  u \in DOMAIN log /\ objs'[u] \subseteq objs[u]
    <2>1. Dir(ses[s].uuid) /\ u \in DOMAIN log
      BY <1>6 DEF Upload, At, Inv, SesOK
    <2>2. u # ses[s].uuid
      BY <1>2, <2>1
    <2>3. QED
      BY <1>6, <2>1, <2>2 DEF Upload, Inv, StoreShape
  <1>7. ASSUME NEW s \in Sessions, Commit(s) \/ Purge(s) \/ PurgeFails(s)
        PROVE  u \in DOMAIN log /\ objs'[u] \subseteq objs[u]
    <2>1. DOMAIN objs = DOMAIN log /\ objs \in Seq(SUBSET Nat)
      BY DEF Inv, StoreShape
    <2>2. CASE Commit(s)
      BY <2>1, <2>2 DEF Commit
    <2>3. CASE Purge(s)
      BY <2>1, <2>3 DEF Purge
    <2>4. CASE PurgeFails(s)
      <3>1. PICK x : x = ses[s].uuid
        OBVIOUS
      <3>2. PICK kept \in SUBSET objs[x] : objs' = [objs EXCEPT ![x] = kept]
        BY <2>4, <3>1 DEF PurgeFails
      <3>3. u \in DOMAIN log
        BY <2>4, <3>1 DEF PurgeFails
      <3>4. QED
        BY <2>1, <3>2, <3>3
    <2>5. QED
      BY <1>7, <2>2, <2>3, <2>4
  <1>8. ASSUME NEW s \in Sessions, Vacuum(s)
        PROVE  u \in DOMAIN log /\ objs'[u] \subseteq objs[u]
    BY <1>8 DEF Vacuum, Inv, StoreShape
  <1>9. ASSUME NEW s \in Sessions, StoreAction(s)
        PROVE  u \in DOMAIN log /\ objs'[u] \subseteq objs[u]
    BY <1>4, <1>5, <1>6, <1>7, <1>8, <1>9 DEF StoreAction
  <1>10. QED
    BY <1>2, <1>3, <1>9, StoreActions

\* A file that was staged before the step and still is.
LEMMA FreshKept ==
    ASSUME AtomicRename, Inv, StageOK, [Next]_vars, NEW s \in Sessions, NEW f \in Staged(ses[s]),
           f \in Staged(ses'[s])
    PROVE  Fresh(f)'
  <1>1. Fresh(f)
    BY DEF StageOK
  <1>2. ASSUME NEW u \in DOMAIN log', u \notin purged', ~ Loadable(u)'
        PROVE  f \notin objs'[u]
    BY <1>1, <1>2, ObjsStep DEF Fresh
  <1>3. ASSUME NEW u \in DOMAIN log', Alive(u)', NEW v \in DOMAIN log'[u]
        PROVE  f \notin log'[u][v].add /\ f \notin log'[u][v].rem
    <2>1. CASE u \in DOMAIN log /\ Alive(u) /\ log'[u] = log[u]
      BY <1>1, <1>3, <2>1 DEF Fresh
    <2>2. CASE Created(u)
      <3>1. v = 0
        BY <1>3, <2>2 DEF Created
      <3>2. QED
        BY <2>2, <3>1 DEF Created
    <2>3. CASE Converted(u)
      <3>1. v = 0
        BY <1>3, <2>3 DEF Converted
      <3>2. QED
        BY <1>1, <2>3, <3>1 DEF Converted, Fresh
    <2>4. ASSUME u \in DOMAIN log, Alive(u), log' # log, NEW r \in Sessions, Commit(r), u = ses[r].tab
          PROVE  f \notin log'[u][v].add /\ f \notin log'[u][v].rem
      <3>0. PICK n \in Nat : Committed(r, u, n)
        BY <2>4, CommitEffect
      <3>1. /\ DOMAIN log[u] = 0 .. n /\ DOMAIN log'[u] = 0 .. n + 1
            /\ log'[u][n + 1].add = ses[r].adds /\ log'[u][n + 1].rem = ses[r].rems
            /\ \A w \in DOMAIN log[u] : log'[u][w] = log[u][w]
        BY <3>0 DEF Committed
      <3>2. CommitsTo(r, u)
        BY <2>4, CommitEffect
      <3>3. r # s
        <4>1. ses'[r].pc # "load"
          BY <2>4 DEF Commit, End, Idle, Inv, SesShape, SesFields
        <4>2. QED
          BY <3>2, <4>1 DEF CommitsTo, Staged
      <3>4. f \notin ses[r].adds
        BY <3>2, <3>3 DEF StageOK, Staged, CommitsTo
      <3>5. ses[r].rems \subseteq Active(u, Latest(u))
        BY <2>4, CommitFiles
      <3>6. f \notin Active(u, Latest(u))
        BY <1>1, <2>4, ActiveIs DEF Fresh
      <3>7. CASE v = n + 1
        BY <3>1, <3>4, <3>5, <3>6, <3>7
      <3>8. CASE v # n + 1
        <4>1. v \in DOMAIN log[u]
          BY <1>3, <3>1, <3>8
        <4>2. QED
          BY <1>1, <2>4, <3>1, <4>1 DEF Fresh
      <3>9. QED
        BY <3>7, <3>8
    <2>5. ASSUME u \in DOMAIN log, Alive(u), log' # log, NEW r \in Sessions, Vacuum(r), u = ses[r].tab
          PROVE  f \notin log'[u][v].add /\ f \notin log'[u][v].rem
      <3>1. PICK n \in Nat : Vacuumed(u, n)
        BY <2>5, VacuumEffect
      <3>2. v \in 0 .. n \/ v \in {n + 1, n + 2}
        BY <1>3, <3>1 DEF Vacuumed
      <3>3. CASE v \in 0 .. n
        BY <1>1, <2>5, <3>1, <3>3 DEF Vacuumed, Fresh
      <3>4. CASE v \in {n + 1, n + 2}
        BY <3>1, <3>4 DEF Vacuumed
      <3>5. QED
        BY <3>2, <3>3, <3>4
    <2>6. QED
      BY <1>3, <2>1, <2>2, <2>3, <2>4, <2>5, LogStep
  <1>4. QED
    BY <1>2, <1>3 DEF Fresh

\* A file that is just being written.
LEMMA FreshNew ==
    ASSUME Inv, NEW s \in Sessions, Upload(s), NEW f, f = Len(rows) + 1
    PROVE  Fresh(f)'
  <1>1. f \notin DOMAIN rows
    BY DEF Inv, StoreShape
  <1>2. UNCHANGED <<log, purged>> /\ Dir(ses[s].uuid) /\ UNCHANGED work
    BY DEF Upload, At, Inv, SesOK, envVars
  <1>3. ASSUME NEW u \in DOMAIN log, NEW v \in DOMAIN log[u]
        PROVE  f \notin log[u][v].add /\ f \notin log[u][v].rem
    BY <1>1 DEF Inv, StoreOK, DirOK
  <1>4. ASSUME NEW u \in DOMAIN log, u \notin purged, ~ Loadable(u)
        PROVE  f \notin objs'[u]
    <2>1. u # ses[s].uuid
      BY <1>2, <1>4 DEF Dir
    <2>2. objs'[u] = objs[u]
      BY <2>1 DEF Upload, Inv, StoreShape
    <2>3. QED
      BY <1>1, <2>2 DEF Inv, StoreOK, DirOK
  <1>5. QED
    BY <1>2, <1>3, <1>4 DEF Fresh, Loadable

LEMMA StageStep ==
    ASSUME AtomicRename, Inv, StageOK, [Next]_vars
    PROVE  StageOK'
  <1>1. CASE UNCHANGED ses
    <2>1. ASSUME NEW s \in Sessions, NEW f \in Staged(ses'[s])
          PROVE  Fresh(f)'
      BY <1>1, <2>1, FreshKept
    <2>2. QED
      BY <1>1, <2>1 DEF StageOK
  <1>2. ASSUME NEW s \in Sessions, StageMove(s)
        PROVE  StageOK'
    <2>1. ASSUME NEW r \in Sessions
          PROVE  \/ Staged(ses'[r]) \subseteq Staged(ses[r])
                 \/ Upload(r) /\ r = s /\ Staged(ses'[r]) = {Len(rows) + 1}
      BY <1>2 DEF StageMove, Staged
    <2>2. ASSUME NEW r \in Sessions, NEW f \in Staged(ses'[r])
          PROVE  Fresh(f)'
      BY <2>1, <2>2, FreshKept, FreshNew
    <2>3. \A r \in Sessions : Len(rows) + 1 \notin Staged(ses[r])
      <3>1. Len(rows) + 1 \notin DOMAIN rows
        BY DEF Inv, StoreShape
      <3>2. QED
        BY <3>1, StagedInRows
    <2>4. ASSUME NEW q \in Sessions, NEW r \in Sessions, q # r
          PROVE  Staged(ses'[q]) \cap Staged(ses'[r]) = {}
      <3>1. Staged(ses[q]) \cap Staged(ses[r]) = {}
        BY <2>4 DEF StageOK
      <3>2. QED
        BY <2>1, <2>3, <2>4, <3>1
    <2>5. QED
      BY <2>2, <2>4 DEF StageOK
  <1>3. QED
    BY <1>1, <1>2, SessionMoves DEF vars

\* StageOK is kept by every step, from the start.
LEMMA Staging == ASSUME AtomicRename PROVE Spec => []StageOK
  <1>1. Init => StageOK
    BY DEF Init, StageOK, Staged, Idle
  <1>2. Inv /\ StageOK /\ [Next]_vars => StageOK'
    BY StageStep
  <1>3. QED
    BY <1>1, <1>2, Invariance, PTL DEF Spec

----------------------------------------------------------------------------
(* No row is lost                                                          *)

\* The last version of a table that stays has the same files after a step,
\* unless the step is a commit.
LEMMA LastMove ==
    ASSUME AtomicRename, Inv, [Next]_vars, NEW u \in DOMAIN log, Alive(u), Alive(u)'
    PROVE  \/ Active(u, Latest(u))' = Active(u, Latest(u))
           \/ log' # log /\ \E s \in Sessions : Commit(s) /\ u = ses[s].tab
  <1>1. u \in DOMAIN log' /\ Loadable(u)
    BY StoreStep DEF StoreGoal, Grow, Alive
  <1>2. ~ Created(u) /\ ~ Converted(u)
    BY <1>1 DEF Created, Converted
  <1>3. \/ log'[u] = log[u]
        \/ log' # log /\ \E s \in Sessions : (Commit(s) \/ Vacuum(s)) /\ u = ses[s].tab
    BY <1>1, <1>2, LogStep
  <1>4. QED
    BY <1>3, LastSame, VacuumFiles

\* An UPDATE writes the rows of all the files it replaces.
LEMMA UpdateRows ==
    ASSUME Inv, NEW s \in Sessions, At(s, "commit"), Op(s) \notin {"delete", "truncate"}
    PROVE  RowsIn(ses[s].rems) \subseteq RowsIn(ses[s].adds)
  <1>1. SesOK(ses[s]) /\ CtlOK(ses[s].pc, ses[s].st.op)
    BY DEF Inv, SesShape
  <1>2. Op(s) \in Inserts \/ Op(s) = "update"
    BY <1>1 DEF CtlOK, At, Op
  <1>3. CASE ses[s].rems = {}
    BY <1>3 DEF RowsIn
  <1>4. CASE ses[s].rems # {}
    <2>1. Op(s) = "update" /\ ses[s].adds # {} /\ Filled(ses[s])
      BY <1>1, <1>2, <1>4 DEF SesOK, At, Op
    <2>2. PICK f \in ses[s].adds : TRUE
      BY <2>1
    <2>3. rows[f] = RowsIn(ses[s].rems)
      BY <2>1 DEF Filled, Op
    <2>4. QED
      BY <2>3 DEF RowsIn
  <1>5. QED
    BY <1>3, <1>4

\* A row leaves a table only by a DELETE or a TRUNCATE, or with the table:
\* an INSERT or UPDATE whose base another session has overtaken is committed on
\* top of what that session did, or refused (commit, the conflict check).
THEOREM RowsAreKept == ASSUME AtomicRename PROVE Spec => NoLostRows
  <1>1. ASSUME Inv, StageOK, [Next]_vars, NEW u \in DOMAIN log \ purged', Loadable(u)
        PROVE  \/ Body(u, Latest(u)) \subseteq Body(u, Latest(u))'
               \/ \E s \in Sessions : /\ At(s, "commit") /\ ses'[s].pc # "commit"
                                      /\ Op(s) \in {"delete", "truncate"}
    <2>1. StoreGoal /\ Grow
      BY <1>1, StoreStep DEF StoreGoal
    <2>2. Alive(u) /\ Alive(u)' /\ Dir(u)
      BY <1>1, <2>1 DEF Grow, Dir, Alive
    <2>3. PICK F : F = Active(u, Latest(u))
      OBVIOUS
    <2>4. F \in SUBSET DOMAIN rows
      BY <1>1, <2>2, <2>3, ActiveInRows DEF Inv
    <2>5. RowsIn(F)' = RowsIn(F)
      BY <2>1, <2>4, RowsKept
    <2>6. CASE Active(u, Latest(u))' = F
      BY <2>3, <2>5, <2>6 DEF Body
    <2>7. ASSUME log' # log, NEW s \in Sessions, Commit(s), u = ses[s].tab
          PROVE  \/ Body(u, Latest(u)) \subseteq Body(u, Latest(u))'
                 \/ /\ At(s, "commit") /\ ses'[s].pc # "commit"
                    /\ Op(s) \in {"delete", "truncate"}
      <3>1. CommitsTo(s, u)
        BY <1>1, <2>2, <2>7, CommitEffect
      <3>2. At(s, "commit") /\ ses'[s].pc # "commit" /\ UNCHANGED rows
        BY <2>7, <3>1 DEF CommitsTo, Commit
      <3>3. PICK A, R : A = ses[s].adds /\ R = ses[s].rems
        OBVIOUS
      <3>4. Active(u, Latest(u))' = (F \ R) \cup A
        BY <1>1, <2>2, <2>3, <2>7, <3>3, CommitFiles
      <3>5. CASE Op(s) \notin {"delete", "truncate"}
        <4>1. RowsIn(R) \subseteq RowsIn(A)
          BY <1>1, <3>2, <3>3, <3>5, UpdateRows
        <4>2. RowsIn(F) \subseteq RowsIn((F \ R) \cup A)
          BY <4>1 DEF RowsIn
        <4>3. RowsIn((F \ R) \cup A)' = RowsIn((F \ R) \cup A)
          BY <3>2 DEF RowsIn
        <4>4. QED
          BY <2>3, <3>4, <4>2, <4>3 DEF Body
      <3>6. QED
        BY <3>2, <3>5
    <2>8. QED
      BY <1>1, <2>2, <2>3, <2>6, <2>7, LastMove
  <1>2. Inv /\ StageOK /\ [Next]_vars =>
          [\A u \in DOMAIN log \ purged' :
             Loadable(u) =>
               \/ Body(u, Latest(u)) \subseteq Body(u, Latest(u))'
               \/ \E s \in Sessions : /\ At(s, "commit") /\ ses'[s].pc # "commit"
                                      /\ Op(s) \in {"delete", "truncate"}]_vars
    BY <1>1
  <1>3. QED
    BY <1>2, Invariance, Staging, PTL DEF Spec, NoLostRows

----------------------------------------------------------------------------
(* No row is doubled                                                       *)

\* A row that is in one file only, which nobody is about to rewrite.
NewRow(f) ==
    /\ rows[f] = {f}
    /\ \A g \in DOMAIN rows : g # f => f \notin rows[g]
    /\ \A r \in Sessions : f \notin ses[r].rems

StagedRows(s) ==
    \A f \in Staged(ses[s]) : /\ f \in DOMAIN rows /\ Staged(ses[s]) = {f}
                              /\ ses[s].st.op \in Inserts \cup {"update", "delete"}
                              /\ ses[s].st.op \in Inserts => NewRow(f)

Disjoint(F) == \A f, g \in F : f # g => rows[f] \cap rows[g] = {}

\* No row is doubled in a table, nor by what sessions are about to commit; a
\* directory to CONVERT has one file.
RowsOK ==
    /\ \A g \in DOMAIN rows : rows[g] \subseteq DOMAIN rows
    /\ \A s \in Sessions : ses[s].rems \subseteq DOMAIN rows
    /\ \A s \in Sessions : StagedRows(s)
    /\ \A u \in DOMAIN log : Alive(u) => Disjoint(Active(u, Latest(u)))
    /\ \A u \in DOMAIN log : u \notin purged /\ ~Loadable(u) => \A f, g \in objs[u] : f = g

\* What an upload writes.
Uploaded(s, n) ==
    /\ n = Len(rows) + 1 /\ n \notin DOMAIN rows
    /\ DOMAIN rows' = DOMAIN rows \cup {n}
    /\ \A g \in DOMAIN rows : rows'[g] = rows[g]
    /\ Op(s) \in Inserts => rows'[n] = {n}
    /\ Op(s) \notin Inserts => rows'[n] \subseteq RowsIn(ses[s].rems)
    /\ Op(s) \in Inserts \cup {"update", "delete"}

LEMMA UploadRows ==
    ASSUME Inv, NEW s \in Sessions, Upload(s)
    PROVE  \E n \in Nat : Uploaded(s, n)
  <1>1. PICK n : n = Len(rows) + 1
    OBVIOUS
  <1>2. rows \in Seq(SUBSET Nat) /\ n \in Nat /\ n \notin DOMAIN rows
    BY <1>1 DEF Inv, StoreShape
  <1>3. Op(s) \in {"update", "delete"} => ses[s].rems \subseteq DOMAIN rows
    BY DEF Inv, Upload, At, Op, SesOK, Loaded, Inserts
  <1>4. PICK R : R = RowsIn(ses[s].rems)
    OBVIOUS
  <1>5. Op(s) \in {"update", "delete"} => R \subseteq Nat
    BY <1>2, <1>3, <1>4 DEF RowsIn
  <1>6. \/ Op(s) \in Inserts /\ rows' = Append(rows, {n})
        \/ Op(s) = "update" /\ rows' = Append(rows, R)
        \/ Op(s) = "delete" /\ \E kept \in SUBSET R : rows' = Append(rows, kept)
    BY <1>1, <1>4 DEF Upload, Inserts
  <1>7. PICK new \in SUBSET Nat : /\ rows' = Append(rows, new)
                                  /\ Op(s) \in Inserts => new = {n}
                                  /\ Op(s) \notin Inserts => new \subseteq R
                                  /\ Op(s) \in Inserts \cup {"update", "delete"}
    <2>1. CASE Op(s) \in Inserts /\ rows' = Append(rows, {n})
      BY <1>2, <2>1
    <2>2. CASE Op(s) = "update" /\ rows' = Append(rows, R)
      BY <1>5, <2>2 DEF Inserts
    <2>3. CASE Op(s) = "delete" /\ \E kept \in SUBSET R : rows' = Append(rows, kept)
      BY <1>5, <2>3 DEF Inserts
    <2>4. QED
      BY <1>6, <2>1, <2>2, <2>3
  <1>8. /\ DOMAIN rows' = DOMAIN rows \cup {n} /\ rows'[n] = new
        /\ \A g \in DOMAIN rows : rows'[g] = rows[g]
    BY <1>1, <1>2, <1>7, SeqAppend
  <1>9. QED
    BY <1>1, <1>2, <1>4, <1>7, <1>8 DEF Uploaded

\* What a step does to the files that were there.
LEMMA RowsStep ==
    ASSUME [Next]_vars
    PROVE  UNCHANGED rows \/ \E s \in Sessions : Upload(s)
  <1>1. ASSUME NEW s \in Sessions, StoreAction(s)
        PROVE  UNCHANGED rows \/ Upload(s)
    BY <1>1 DEF StoreAction, CreateDelta, ConvertDelta, Commit, Vacuum, Purge, PurgeFails
  <1>2. QED
    BY <1>1, StoreActions DEF storeVars

\* The rows of a file are those of rows that were written.
LEMMA RowsInRows ==
    ASSUME Inv, RowsOK, [Next]_vars
    PROVE  \A g \in DOMAIN rows' : rows'[g] \subseteq DOMAIN rows'
  <1>1. CASE UNCHANGED rows
    BY <1>1 DEF RowsOK
  <1>2. ASSUME NEW s \in Sessions, Upload(s)
        PROVE  \A g \in DOMAIN rows' : rows'[g] \subseteq DOMAIN rows'
    <2>1. PICK n \in Nat : Uploaded(s, n)
      BY <1>2, UploadRows
    <2>2. RowsIn(ses[s].rems) \subseteq DOMAIN rows
      BY DEF RowsOK, RowsIn
    <2>3. QED
      BY <2>1, <2>2 DEF Uploaded, RowsOK
  <1>3. QED
    BY <1>1, <1>2, RowsStep

\* The files a session wants to remove.
LEMMA RemsStep ==
    ASSUME AtomicRename, Inv, ~TakesOver, [Next]_vars, NEW s \in Sessions
    PROVE  \/ ses'[s].rems \in {ses[s].rems, {}}
           \/ \E u \in DOMAIN log : Alive(u) /\ ses'[s].rems \subseteq Active(u, Latest(u))
  <1>1. CASE UNCHANGED ses
    BY <1>1
  <1>2. ASSUME NEW r \in Sessions, StageMove(r)
        PROVE  \/ ses'[s].rems \in {ses[s].rems, {}}
               \/ \E u \in DOMAIN log : Alive(u) /\ ses'[s].rems \subseteq Active(u, Latest(u))
    BY <1>2 DEF StageMove, Dir, Alive
  <1>3. QED
    BY <1>1, <1>2, SessionMoves DEF vars

LEMMA RemsInRows ==
    ASSUME AtomicRename, Inv, RowsOK, ~TakesOver, [Next]_vars, NEW s \in Sessions
    PROVE  ses'[s].rems \subseteq DOMAIN rows
  <1>1. ses[s].rems \subseteq DOMAIN rows
    BY DEF RowsOK
  <1>2. \A u \in DOMAIN log : Active(u, Latest(u)) \subseteq DOMAIN rows
    BY ActiveInRows DEF Inv
  <1>3. QED
    BY <1>1, <1>2, RemsStep

\* The row of an INSERT that goes on stays in one file.
LEMMA NewRowKept ==
    ASSUME AtomicRename, Inv, StageOK, RowsOK, ~TakesOver, [Next]_vars,
           NEW s \in Sessions, NEW f \in Staged(ses[s]), f \in DOMAIN rows, NewRow(f)
    PROVE  NewRow(f)'
  <1>1. ASSUME NEW r \in Sessions
        PROVE  f \notin ses'[r].rems
    <2>1. ASSUME NEW u \in DOMAIN log, Alive(u)
          PROVE  f \notin Active(u, Latest(u))
      BY <2>1, ActiveIs DEF StageOK, Fresh
    <2>2. f \notin ses[r].rems
      BY DEF NewRow
    <2>3. QED
      BY <2>1, <2>2, RemsStep
  <1>2. CASE UNCHANGED rows
    BY <1>1, <1>2 DEF NewRow
  <1>3. ASSUME NEW r \in Sessions, Upload(r)
        PROVE  NewRow(f)'
    <2>1. PICK n \in Nat : Uploaded(r, n)
      BY <1>3, UploadRows
    <2>2. f \notin RowsIn(ses[r].rems)
      BY DEF NewRow, RowsIn, RowsOK
    <2>3. n # f /\ f \notin rows'[n]
      BY <2>1, <2>2 DEF Uploaded
    <2>4. rows'[f] = {f} /\ \A g \in DOMAIN rows' : g # f => f \notin rows'[g]
      BY <2>1, <2>3 DEF Uploaded, NewRow
    <2>5. QED
      BY <1>1, <2>4 DEF NewRow
  <1>4. QED
    BY <1>2, <1>3, RowsStep

\* The row of an INSERT that has just been written.
LEMMA NewRowWritten ==
    ASSUME AtomicRename, Inv, RowsOK, ~TakesOver, [Next]_vars,
           NEW s \in Sessions, Upload(s), Op(s) \in Inserts, NEW n, Uploaded(s, n)
    PROVE  NewRow(n)'
  <1>1. \A r \in Sessions : n \notin ses'[r].rems
    BY RemsInRows DEF Uploaded
  <1>2. \A g \in DOMAIN rows : n \notin rows'[g]
    BY DEF Uploaded, RowsOK
  <1>3. QED
    BY <1>1, <1>2 DEF Uploaded, NewRow

LEMMA StagedRowsStep ==
    ASSUME AtomicRename, Inv, StageOK, RowsOK, ~TakesOver, [Next]_vars, NEW s \in Sessions
    PROVE  StagedRows(s)'
  <1> SUFFICES ASSUME NEW f \in Staged(ses'[s])
               PROVE  /\ f \in DOMAIN rows' /\ Staged(ses'[s]) = {f}
                      /\ ses'[s].st.op \in Inserts \cup {"update", "delete"}
                      /\ ses'[s].st.op \in Inserts => NewRow(f)'
    BY DEF StagedRows
  <1>1. DOMAIN rows \subseteq DOMAIN rows'
    BY StoreStep DEF StoreGoal, Grow
  <1>2. CASE Staged(ses'[s]) \subseteq Staged(ses[s]) /\ ses'[s].st = ses[s].st
    <2>1. /\ f \in Staged(ses[s]) /\ f \in DOMAIN rows /\ Staged(ses[s]) = {f}
          /\ ses[s].st.op \in Inserts \cup {"update", "delete"}
          /\ ses[s].st.op \in Inserts => NewRow(f)
      BY <1>2 DEF RowsOK, StagedRows
    <2>2. QED
      BY <1>1, <1>2, <2>1, NewRowKept
  <1>3. CASE Upload(s) /\ Staged(ses'[s]) = {Len(rows) + 1} /\ ses'[s].st = ses[s].st
    <2>1. PICK n \in Nat : Uploaded(s, n)
      BY <1>3, UploadRows
    <2>2. f = n /\ f \in DOMAIN rows' /\ ses'[s].st.op = Op(s)
      BY <1>3, <2>1 DEF Uploaded, Op
    <2>3. QED
      BY <1>3, <2>1, <2>2, NewRowWritten DEF Uploaded
  <1>4. ASSUME NEW r \in Sessions, StageMove(r)
        PROVE  \/ Staged(ses'[s]) \subseteq Staged(ses[s]) /\ ses'[s].st = ses[s].st
               \/ Upload(s) /\ Staged(ses'[s]) = {Len(rows) + 1} /\ ses'[s].st = ses[s].st
    BY <1>4 DEF StageMove, Staged
  <1>5. QED
    BY <1>2, <1>3, <1>4, SessionMoves DEF vars

\* What a commit adds is disjoint from what it leaves.
LEMMA CommitDisjoint ==
    ASSUME AtomicRename, Inv, StageOK, RowsOK, NEW s \in Sessions, Commit(s), log' # log,
           NEW u \in DOMAIN log, u = ses[s].tab, Alive(u)
    PROVE  Disjoint(Active(u, Latest(u)))'
  <1>1. PICK F, A, R, G : /\ F = Active(u, Latest(u)) /\ A = ses[s].adds /\ R = ses[s].rems
                          /\ G = (F \ R) \cup A
    OBVIOUS
  <1>2. Active(u, Latest(u))' = G /\ R \subseteq F
    BY <1>1, CommitFiles
  <1>3. /\ UNCHANGED rows /\ ses[s].pc = "commit" /\ SesOK(ses[s]) /\ StagedRows(s)
        /\ Staged(ses[s]) = A /\ Disjoint(F) /\ F \subseteq DOMAIN rows
    BY <1>1, ActiveInRows DEF Commit, At, Inv, RowsOK, Staged
  <1>4. ASSUME NEW f \in A, NEW g \in F \ R
        PROVE  f # g => rows[f] \cap rows[g] = {}
    <2>1. f \in DOMAIN rows /\ ses[s].st.op \in Inserts \cup {"update", "delete"}
          /\ (ses[s].st.op \in Inserts => NewRow(f))
      BY <1>3 DEF StagedRows
    <2>2. CASE ses[s].st.op \in Inserts
      BY <1>3, <2>1, <2>2 DEF NewRow
    <2>3. CASE ses[s].st.op \in {"update", "delete"}
      <3>1. rows[f] \subseteq RowsIn(R)
        BY <1>1, <1>3, <2>3 DEF SesOK, Filled
      <3>2. \A h \in R : rows[h] \cap rows[g] = {}
        BY <1>2, <1>3, <1>4 DEF Disjoint
      <3>3. QED
        BY <3>1, <3>2 DEF RowsIn
    <2>4. QED
      BY <2>1, <2>2, <2>3
  <1>5. \A f, g \in A : f = g
    BY <1>3 DEF StagedRows
  <1>6. \A f, g \in F \ R : f # g => rows[f] \cap rows[g] = {}
    BY <1>3 DEF Disjoint
  <1>7. Disjoint(G)
    BY <1>1, <1>4, <1>5, <1>6 DEF Disjoint
  <1>8. QED
    BY <1>2, <1>3, <1>7 DEF Disjoint

LEMMA DisjointStep ==
    ASSUME AtomicRename, Inv, StageOK, RowsOK, [Next]_vars, NEW u \in DOMAIN log', Alive(u)'
    PROVE  Disjoint(Active(u, Latest(u)))'
  <1>1. StoreGoal /\ Grow
    BY StoreStep DEF StoreGoal
  <1>2. CASE u \in DOMAIN log /\ Alive(u)
    <2>1. PICK F : F = Active(u, Latest(u))
      OBVIOUS
    <2>2. F \subseteq DOMAIN rows /\ Disjoint(F)
      BY <1>2, <2>1, ActiveInRows DEF Inv, RowsOK
    <2>3. CASE Active(u, Latest(u))' = F
      BY <1>1, <2>2, <2>3 DEF Grow, Disjoint
    <2>4. QED
      BY <1>2, <2>1, <2>3, LastMove, CommitDisjoint
  <1>3. CASE Created(u)
    <2>1. \A f : f \notin Active(u, Latest(u))'
      BY <1>3, ActiveIsNext DEF Created
    <2>2. QED
      BY <2>1 DEF Disjoint
  <1>4. CASE Converted(u)
    <2>1. \A f, g \in objs[u] : f = g
      BY <1>4 DEF Converted, RowsOK
    <2>2. \A f : f \in Active(u, Latest(u))' => f \in objs[u]
      BY <1>4, ActiveIsNext DEF Converted
    <2>3. QED
      BY <2>1, <2>2 DEF Disjoint
  <1>5. QED
    BY <1>2, <1>3, <1>4, LogStep

LEMMA RowsOKStep ==
    ASSUME AtomicRename, Inv, StageOK, RowsOK, ~TakesOver, [Next]_vars
    PROVE  RowsOK'
  <1>1. \A g \in DOMAIN rows' : rows'[g] \subseteq DOMAIN rows'
    BY RowsInRows
  <1>2. DOMAIN rows \subseteq DOMAIN rows'
    BY StoreStep DEF StoreGoal, Grow
  <1>3. \A s \in Sessions : ses'[s].rems \subseteq DOMAIN rows'
    BY <1>2, RemsInRows
  <1>4. \A s \in Sessions : StagedRows(s)'
    BY StagedRowsStep
  <1>5. ASSUME NEW u \in DOMAIN log', Alive(u)'
        PROVE  Disjoint(Active(u, Latest(u)))'
    BY <1>5, DisjointStep
  <1>6. ASSUME NEW u \in DOMAIN log', u \notin purged', ~Loadable(u)', NEW f \in objs'[u], NEW g \in objs'[u]
        PROVE  f = g
    BY <1>6, ObjsStep DEF RowsOK
  <1>7. QED
    BY <1>1, <1>3, <1>4, <1>5, <1>6 DEF RowsOK

LEMMA RowsOKInit ==
    ASSUME Init
    PROVE  RowsOK
  <1>1. Inv
    BY InitInv
  <1>2. PICK n \in Nat : DOMAIN log = 1 .. n /\ DOMAIN rows = 1 .. n
    BY <1>1 DEF Init, Inv, StoreShape
  <1>3. \A f \in 1 .. n : rows[f] = {f} /\ objs[f] = {f}
    BY <1>2 DEF Init
  <1>4. \A s \in Sessions : ses[s] = Idle
    BY DEF Init
  <1>5. ASSUME NEW u \in DOMAIN log
        PROVE  Disjoint(Active(u, Latest(u)))
    <2>1. Active(u, Latest(u)) \subseteq DOMAIN rows
      BY <1>1, ActiveInRows DEF Inv
    <2>2. QED
      BY <1>2, <1>3, <2>1 DEF Disjoint
  <1>6. QED
    BY <1>2, <1>3, <1>4, <1>5 DEF RowsOK, StagedRows, Staged, Idle

\* No row is in two files of a table: of two UPDATEs or DELETEs that rewrite the
\* same file at the same time only one is committed (commit, the conflict
\* check); an INSERT writes rows that no other file has.  A workload in which a
\* CONVERT may take over what a failed DROP has left of a directory is the
\* exception: there the old and the new version of a row become one table.
THEOREM RowsAreSingle == ASSUME AtomicRename PROVE Spec => [](~TakesOver => RowsOnce)
  <1>1. Init => (~TakesOver => RowsOK)
    BY RowsOKInit
  <1>2. Inv /\ StageOK /\ (~TakesOver => RowsOK) /\ [Next]_vars => (~TakesOver => RowsOK)'
    <2>1. ASSUME Inv, [Next]_vars
          PROVE  TakesOver' <=> TakesOver
      BY <2>1, StoreStep, WorkKept DEF StoreGoal, Grow
    <2>2. QED
      BY <2>1, RowsOKStep
  <1>3. RowsOK /\ ~TakesOver => RowsOnce
    BY DEF RowsOK, RowsOnce, Alive, Disjoint
  <1>4. QED
    BY <1>1, <1>2, <1>3, Invariance, Staging, PTL DEF Spec

----------------------------------------------------------------------------
(***************************************************************************)
(* What concurrent statements do to the catalog: its keys, the directories  *)
(* its tables have, and what the statements that find a table there rely on.*)
(***************************************************************************)

----------------------------------------------------------------------------
(* Where a session is tells what it did last                               *)

Acts(s) == Query(s) \/ Dml(s) \/ Ddl(s) \/ Fail(s)

Others(s) == \A r \in Sessions \ {s} : ses'[r] = ses[r]

Arrival(s, pc) ==
    /\ pc = "reload" => FileToTable(s) \/ \E r \in Workload.requests : Begin(s, r)
    /\ pc = "register" => BuildCatalog(s)
    /\ pc = "plan" => RegisterCatalog(s)
    /\ pc = "etag" => Plan(s)
    /\ pc = "read" => ExecuteQuery(s) \/ PlanTimeTravel(s)
    /\ pc = "table_row" => CreateDelta(s) \/ ConvertDelta(s)
    /\ pc = "version_row" => InsertTableRow(s)
    /\ pc = "column_rows" => InsertVersionRow(s)
    /\ pc = "register_table" => InsertColumnRows(s)
    /\ pc = "dir" => ExecUpdate(s)
    /\ pc = "exec_delete" => TableDir(s)
    /\ pc = "upload" => GetTableUuid(s) \/ TableDir(s) \/ ExecDelete(s)
    /\ pc = "load" => Upload(s)
    /\ pc = "commit" => Upload(s) \/ LoadTable(s) \/ TableDir(s) \/ ExecDelete(s) \/ ExecTruncate(s)
    /\ pc = "last_version" => Commit(s)
    /\ pc = "new_version" => SelectLastVersion(s)
    /\ pc = "new_columns" => InsertNewVersion(s)
    /\ pc = "purge" => ExecDrop(s) \/ DropNextTable(s) \/ DropNextVersion(s)
    /\ pc = "drop_get" => ExecDrop(s) \/ Purge(s) \/ PurgeFails(s)
    /\ pc = "drop_row" => DropGetTable(s)
    /\ pc = "rename_row" => RenameGetTable(s)

\* Places that no statement about the catalog goes on from.
Nowhere == {"idle", "exec", "uuid", "create", "convert", "file_to_table", "trim",
            "vacuum", "plan_travel", "drop_next"}

LEMMA NowhereArrival ==
    ASSUME NEW s, NEW pc \in Nowhere
    PROVE  Arrival(s, pc)
  BY DEF Nowhere, Arrival

LEMMA EndArrival ==
    ASSUME SesShape, NEW s \in Sessions, NEW ok, End(s, ok)
    PROVE  Arrival(s, ses'[s].pc) /\ Others(s) /\ ses'[s] = Idle
  BY DEF End, Idle, SesShape, Arrival, Others

LEMMA EndIdle ==
    ASSUME Inv, NEW s \in Sessions, NEW ok, End(s, ok)
    PROVE  ses'[s].pc = "idle"
  BY DEF End, Idle, SesShape, Inv

LEMMA GotoArrival ==
    ASSUME SesShape, NEW s \in Sessions, NEW pc, Goto(s, pc)
    PROVE  ses'[s].pc = pc /\ Others(s)
  BY DEF Goto, SesShape, SesFields, Others

LEMMA QueryArrives ==
    ASSUME Inv, NEW s \in Sessions, Query(s)
    PROVE  Arrival(s, ses'[s].pc) /\ Others(s)
  <1>1. SesShape /\ DOMAIN ses = Sessions /\ DOMAIN ses[s] = SesFields
    BY DEF Inv, SesShape
  <1> USE DEF Others
  <1>2. ASSUME NEW r \in Workload.requests, Begin(s, r)
        PROVE  Arrival(s, ses'[s].pc) /\ Others(s)
    <2>1. ses'[s].pc = "reload" /\ Others(s)
      BY <1>1, <1>2 DEF Begin, Idle
    <2>2. QED
      BY <1>2, <2>1 DEF Arrival
  <1>3. CASE BuildCatalog(s)
    <2>1. ses'[s].pc = "register" /\ Others(s)
      BY <1>1, <1>3 DEF BuildCatalog, SesFields
    <2>2. QED
      BY <1>3, <2>1 DEF Arrival
  <1>4. CASE RegisterCatalog(s)
    <2>1. ses'[s].pc \in {"plan", "create", "file_to_table"} /\ Others(s)
      BY <1>1, <1>4 DEF RegisterCatalog, SesFields
    <2>2. QED
      BY <1>4, <2>1 DEF Arrival
  <1>5. CASE Plan(s)
    <2>1. PICK u, v : u = UuidOf(ses[s].st.t) /\ v = VersionOf(ses[s].st.t)
      OBVIOUS
    <2>2. PICK a : a = Active(u, v)
      OBVIOUS
    <2>3. \/ End(s, FALSE) \/ Goto(s, "uuid") \/ Goto(s, "exec")
          \/ ses' = [ses EXCEPT ![s].pc = "etag", ![s].uuid = u, ![s].base = v, ![s].adds = a]
      BY <1>5, <2>1, <2>2 DEF Plan
    <2>4. CASE ses' = [ses EXCEPT ![s].pc = "etag", ![s].uuid = u, ![s].base = v, ![s].adds = a]
      <3>1. ses'[s].pc = "etag" /\ Others(s)
        BY <1>1, <2>4 DEF SesFields
      <3>2. QED
        BY <1>5, <3>1 DEF Arrival
    <2>5. CASE Goto(s, "uuid") \/ Goto(s, "exec")
      <3>1. ses'[s].pc \in Nowhere /\ Others(s)
        BY <1>1, <2>5, GotoArrival DEF Nowhere
      <3>2. QED
        BY <3>1, NowhereArrival
    <2>6. QED
      BY <1>1, <2>3, <2>4, <2>5, EndArrival
  <1>6. CASE NotModified(s) \/ Read(s)
    BY <1>1, <1>6, EndArrival DEF NotModified, Read
  <1>7. CASE ExecuteQuery(s)
    <2>1. ses'[s].pc = "read" /\ Others(s)
      BY <1>1, <1>7, GotoArrival DEF ExecuteQuery
    <2>2. QED
      BY <1>7, <2>1 DEF Arrival
  <1>8. CASE RewriteTimeTravel(s)
    <2>1. PICK u : u = UuidOf(ses[s].st.t)
      OBVIOUS
    <2>2. \/ End(s, FALSE)
          \/ \E v : ses' = [ses EXCEPT ![s].pc = "plan_travel", ![s].uuid = u,
                              ![s].base = v, ![s].adds = Active(u, v)]
      BY <1>8, <2>1 DEF RewriteTimeTravel
    <2>3. ASSUME NEW v, ses' = [ses EXCEPT ![s].pc = "plan_travel", ![s].uuid = u,
                              ![s].base = v, ![s].adds = Active(u, v)]
          PROVE  ses'[s].pc = "plan_travel" /\ Others(s)
      <3>1. PICK a : a = Active(u, v)
        OBVIOUS
      <3>2. ses' = [ses EXCEPT ![s].pc = "plan_travel", ![s].uuid = u, ![s].base = v, ![s].adds = a]
        BY <2>3, <3>1
      <3>3. QED
        BY <1>1, <3>2 DEF SesFields
    <2>4. ASSUME ses'[s].pc = "plan_travel", Others(s)
          PROVE  Arrival(s, ses'[s].pc) /\ Others(s)
      BY <2>4 DEF Arrival
    <2>5. QED
      BY <1>1, <2>2, <2>3, <2>4, EndArrival
  <1>9. CASE PlanTimeTravel(s)
    <2>1. CASE Goto(s, "read")
      BY <1>1, <1>9, <2>1, GotoArrival DEF Arrival
    <2>2. QED
      BY <1>1, <1>9, <2>1, EndArrival DEF PlanTimeTravel
  <1>10. QED
    BY <1>2, <1>3, <1>4, <1>5, <1>6, <1>7, <1>8, <1>9 DEF Query

LEMMA DmlArrives ==
    ASSUME Inv, NEW s \in Sessions, Dml(s)
    PROVE  Arrival(s, ses'[s].pc) /\ Others(s)
  <1>1. SesShape /\ DOMAIN ses = Sessions /\ DOMAIN ses[s] = SesFields
    BY DEF Inv, SesShape
  <1> USE DEF Others
  <1>2. CASE GetTableUuid(s)
    <2>1. ASSUME NEW u, ses' = [ses EXCEPT ![s].pc = "upload", ![s].uuid = u, ![s].tab = u]
          PROVE  ses'[s].pc = "upload" /\ Others(s)
      BY <1>1, <2>1 DEF SesFields
    <2>2. QED
      BY <1>1, <1>2, <2>1, EndArrival DEF GetTableUuid, Arrival
  <1>3. CASE Upload(s)
    <2>1. ses'[s].pc \in {"commit", "load"} /\ Others(s)
      BY <1>1, <1>3 DEF Upload, SesFields
    <2>2. QED
      BY <1>3, <2>1 DEF Arrival
  <1>4. CASE LoadTable(s)
    <2>1. ASSUME NEW b, ses' = [ses EXCEPT ![s].pc = "commit", ![s].base = b]
          PROVE  ses'[s].pc = "commit" /\ Others(s)
      BY <1>1, <2>1 DEF SesFields
    <2>2. QED
      BY <1>1, <1>4, <2>1, EndArrival DEF LoadTable, Arrival
  <1>5. CASE TableDir(s)
    <2>1. ASSUME NEW u, NEW pc, ses' = [ses EXCEPT ![s].uuid = u, ![s].pc = pc]
          PROVE  ses'[s].pc = pc /\ Others(s)
      BY <1>1, <2>1 DEF SesFields
    <2>2. PICK pc : pc = CASE Op(s) = "delete" -> "exec_delete"
                           [] ses[s].rems # {} -> "upload"
                           [] OTHER -> "commit"
      OBVIOUS
    <2>3. pc \in {"exec_delete", "upload", "commit"}
      BY <2>2
    <2>4. \/ End(s, FALSE)
          \/ \E u : ses' = [ses EXCEPT ![s].uuid = u, ![s].pc = pc]
      BY <1>5, <2>2 DEF TableDir
    <2>5. QED
      BY <1>1, <1>5, <2>1, <2>3, <2>4, EndArrival DEF Arrival
  <1>6. CASE Commit(s)
    <2>1. ASSUME NEW v, ses' = [ses EXCEPT ![s].pc = "last_version", ![s].base = v]
          PROVE  ses'[s].pc = "last_version" /\ Others(s)
      BY <1>1, <2>1 DEF SesFields
    <2>2. QED
      BY <1>1, <1>6, <2>1, EndArrival DEF Commit, Arrival
  <1>7. CASE SelectLastVersion(s)
    <2>1. ASSUME NEW v, ses' = [ses EXCEPT ![s].pc = "new_version", ![s].row = v]
          PROVE  ses'[s].pc = "new_version" /\ Others(s)
      BY <1>1, <2>1 DEF SesFields
    <2>2. QED
      BY <1>1, <1>7, <2>1, EndArrival DEF SelectLastVersion, Arrival
  <1>8. CASE InsertNewVersion(s)
    <2>1. ASSUME NEW v, ses' = [ses EXCEPT ![s].pc = "new_columns", ![s].new = v]
          PROVE  ses'[s].pc = "new_columns" /\ Others(s)
      BY <1>1, <2>1 DEF SesFields
    <2>2. QED
      BY <1>1, <1>8, <2>1, EndArrival DEF InsertNewVersion, Arrival
  <1>9. CASE CopyColumns(s) \/ TrimVersions(s)
    BY <1>1, <1>9, EndArrival DEF CopyColumns, TrimVersions
  <1>10. CASE Vacuum(s)
    BY <1>1, <1>10, GotoArrival, NowhereArrival DEF Vacuum, Nowhere
  <1>11. ASSUME NEW hit, NEW pc, LoadedWith(s, hit, pc)
         PROVE  ses'[s].pc = pc /\ Others(s)
    <2>1. PICK u, b : u = UuidOf(ses[s].st.t) /\ b = Latest(u)
      OBVIOUS
    <2>2. ses' = [ses EXCEPT ![s].tab = u, ![s].base = b, ![s].rems = hit, ![s].pc = pc]
      BY <1>11, <2>1 DEF LoadedWith
    <2>3. QED
      BY <1>1, <2>2 DEF SesFields
  <1>17. CASE LoadError(s)
    BY <1>1, <1>17, EndArrival DEF LoadError
  <1>12. CASE ExecUpdate(s)
    <2>1. ASSUME NEW hit, LoadedWith(s, hit, "dir")
          PROVE  Arrival(s, ses'[s].pc) /\ Others(s)
      BY <1>11, <1>12, <2>1 DEF Arrival
    <2>2. QED
      BY <1>12, <1>17, <2>1 DEF ExecUpdate
  <1>13. CASE ExecDelete(s)
    <2>1. \/ LoadError(s)
          \/ \E hit : LoadedWith(s, hit, "upload") \/ LoadedWith(s, hit, "commit")
      BY <1>13 DEF ExecDelete
    <2>2. ASSUME NEW hit, LoadedWith(s, hit, "upload") \/ LoadedWith(s, hit, "commit")
          PROVE  Arrival(s, ses'[s].pc) /\ Others(s)
      BY <1>11, <1>13, <2>2 DEF Arrival
    <2>3. QED
      BY <1>17, <2>1, <2>2
  <1>14. CASE ExecTruncate(s)
    <2>1. ASSUME NEW hit, LoadedWith(s, hit, "commit")
          PROVE  Arrival(s, ses'[s].pc) /\ Others(s)
      BY <1>11, <1>14, <2>1 DEF Arrival
    <2>2. QED
      BY <1>14, <1>17, <2>1 DEF ExecTruncate
  <1>15. CASE ExecVacuum(s)
    <2>1. CASE LoadedWith(s, {}, "vacuum")
      BY <1>11, <2>1 DEF Arrival
    <2>2. CASE Goto(s, "trim")
      BY <1>1, <2>2, GotoArrival DEF Arrival
    <2>3. QED
      BY <1>15, <1>17, <2>1, <2>2 DEF ExecVacuum
  <1>16. QED
    BY <1>2, <1>3, <1>4, <1>5, <1>6, <1>7, <1>8, <1>9, <1>10, <1>12, <1>13, <1>14, <1>15 DEF Dml

LEMMA DdlArrives ==
    ASSUME Inv, NEW s \in Sessions, Ddl(s)
    PROVE  Arrival(s, ses'[s].pc) /\ Others(s)
  <1>1. SesShape /\ DOMAIN ses = Sessions /\ DOMAIN ses[s] = SesFields
    BY DEF Inv, SesShape
  <1>2. ASSUME NEW pc \in Nowhere, Goto(s, pc)
        PROVE  Arrival(s, ses'[s].pc) /\ Others(s)
    BY <1>1, <1>2, GotoArrival, NowhereArrival
  <1>6. CASE ExecCreate(s)
    <2>1. \/ End(s, TRUE) \/ Goto(s, "convert") \/ Goto(s, "create")
      BY <1>6 DEF ExecCreate
    <2>2. QED
      BY <1>1, <1>2, <2>1, EndArrival DEF Nowhere
  <1>7. CASE CreateDelta(s)
    <2>1. End(s, FALSE) \/ \E u : ses' = [ses EXCEPT ![s].pc = "table_row", ![s].uuid = u]
      BY <1>7 DEF CreateDelta
    <2>2. ASSUME NEW u, ses' = [ses EXCEPT ![s].pc = "table_row", ![s].uuid = u]
          PROVE  Arrival(s, ses'[s].pc) /\ Others(s)
      <3>1. ses'[s].pc = "table_row" /\ Others(s)
        BY <1>1, <2>2 DEF SesFields, Others
      <3>2. QED
        BY <1>7, <3>1 DEF Arrival
    <2>3. QED
      BY <1>1, <2>1, <2>2, EndArrival
  <1>8. CASE ConvertDelta(s)
    <2>1. (\E ok : End(s, ok)) \/ \E u : ses' = [ses EXCEPT ![s].pc = "table_row", ![s].uuid = u]
      BY <1>8 DEF ConvertDelta
    <2>2. ASSUME NEW u, ses' = [ses EXCEPT ![s].pc = "table_row", ![s].uuid = u]
          PROVE  Arrival(s, ses'[s].pc) /\ Others(s)
      <3>1. ses'[s].pc = "table_row" /\ Others(s)
        BY <1>1, <2>2 DEF SesFields, Others
      <3>2. QED
        BY <1>8, <3>1 DEF Arrival
    <2>3. QED
      BY <1>1, <2>1, <2>2, EndArrival
  <1>9. CASE InsertTableRow(s)
    <2>1. End(s, FALSE) \/ \E i : ses' = [ses EXCEPT ![s].pc = "version_row", ![s].row = i]
      BY <1>9 DEF InsertTableRow
    <2>2. ASSUME NEW i, ses' = [ses EXCEPT ![s].pc = "version_row", ![s].row = i]
          PROVE  Arrival(s, ses'[s].pc) /\ Others(s)
      <3>1. ses'[s].pc = "version_row" /\ Others(s)
        BY <1>1, <2>2 DEF SesFields, Others
      <3>2. QED
        BY <1>9, <3>1 DEF Arrival
    <2>3. QED
      BY <1>1, <2>1, <2>2, EndArrival
  <1>10. CASE InsertVersionRow(s)
    <2>1. End(s, FALSE) \/ \E i : ses' = [ses EXCEPT ![s].pc = "column_rows", ![s].new = i]
      BY <1>10 DEF InsertVersionRow
    <2>2. ASSUME NEW i, ses' = [ses EXCEPT ![s].pc = "column_rows", ![s].new = i]
          PROVE  Arrival(s, ses'[s].pc) /\ Others(s)
      <3>1. ses'[s].pc = "column_rows" /\ Others(s)
        BY <1>1, <2>2 DEF SesFields, Others
      <3>2. QED
        BY <1>10, <3>1 DEF Arrival
    <2>3. QED
      BY <1>1, <2>1, <2>2, EndArrival
  <1>11. CASE InsertColumnRows(s)
    <2>1. CASE Goto(s, "register_table")
      BY <1>1, <1>11, <2>1, GotoArrival DEF Arrival
    <2>2. QED
      BY <1>1, <1>11, <2>1, EndArrival DEF InsertColumnRows
  <1>12. CASE RegisterTable(s)
    <2>1. (\E ok : End(s, ok)) \/ Goto(s, "uuid")
      BY <1>12 DEF RegisterTable
    <2>2. QED
      BY <1>1, <1>2, <2>1, EndArrival DEF Nowhere
  <1>13. CASE FileToTable(s)
    <2>1. ASSUME ses' = [ses EXCEPT ![s].pc = "reload", ![s].again = TRUE]
          PROVE  Arrival(s, ses'[s].pc) /\ Others(s)
      BY <1>1, <1>13, <2>1 DEF SesFields, Others, Arrival
    <2>2. \/ End(s, FALSE) \/ Goto(s, "uuid") \/ Goto(s, "create")
          \/ ses' = [ses EXCEPT ![s].pc = "reload", ![s].again = TRUE]
      BY <1>13 DEF FileToTable
    <2>3. QED
      BY <1>1, <1>2, <2>1, <2>2, EndArrival DEF Nowhere
  <1>14. CASE ExecDrop(s)
    <2>1. PICK u, t : u = UuidOf(ses[s].st.t) /\ t = ses[s].st.t
      OBVIOUS
    <2>2. \/ End(s, TRUE)
          \/ ses' = [ses EXCEPT ![s].pc = "drop_get", ![s].cur = t]
          \/ ses' = [ses EXCEPT ![s].pc = "purge", ![s].uuid = u, ![s].cur = t]
      BY <1>14, <2>1 DEF ExecDrop
    <2>3. CASE ses' = [ses EXCEPT ![s].pc = "drop_get", ![s].cur = t]
      <3>1. ses'[s].pc = "drop_get" /\ Others(s)
        BY <1>1, <2>3 DEF SesFields, Others
      <3>2. QED
        BY <1>14, <3>1 DEF Arrival
    <2>4. CASE ses' = [ses EXCEPT ![s].pc = "purge", ![s].uuid = u, ![s].cur = t]
      <3>1. ses'[s].pc = "purge" /\ Others(s)
        BY <1>1, <2>4 DEF SesFields, Others
      <3>2. QED
        BY <1>14, <3>1 DEF Arrival
    <2>5. QED
      BY <1>1, <2>2, <2>3, <2>4, EndArrival
  <1>15. CASE Purge(s)
    BY <1>1, <1>15, GotoArrival DEF Purge, Arrival
  <1>16. CASE PurgeFails(s)
    <2>1. CASE Goto(s, "drop_get")
      BY <1>1, <1>16, <2>1, GotoArrival DEF Arrival
    <2>2. QED
      BY <1>1, <1>16, <2>1, EndArrival DEF PurgeFails
  <1>17. CASE DropGetTable(s)
    <2>1. End(s, FALSE) \/ \E i : ses' = [ses EXCEPT ![s].pc = "drop_row", ![s].row = i]
      BY <1>17 DEF DropGetTable
    <2>2. ASSUME NEW i, ses' = [ses EXCEPT ![s].pc = "drop_row", ![s].row = i]
          PROVE  Arrival(s, ses'[s].pc) /\ Others(s)
      <3>1. ses'[s].pc = "drop_row" /\ Others(s)
        BY <1>1, <2>2 DEF SesFields, Others
      <3>2. QED
        BY <1>17, <3>1 DEF Arrival
    <2>3. QED
      BY <1>1, <2>1, <2>2, EndArrival
  <1>18. CASE DropDeleteRow(s)
    <2>1. (\E ok : End(s, ok)) \/ Goto(s, "drop_next")
      BY <1>18 DEF DropDeleteRow
    <2>2. QED
      BY <1>1, <1>2, <2>1, EndArrival DEF Nowhere
  <1>19. CASE ExecDropSchema(s)
    <2>1. \/ \E ok : End(s, ok)
          \/ \E left : ses' = [ses EXCEPT ![s].pc = "drop_next", ![s].left = left]
      BY <1>19 DEF ExecDropSchema
    <2>2. ASSUME NEW left, ses' = [ses EXCEPT ![s].pc = "drop_next", ![s].left = left]
          PROVE  Arrival(s, ses'[s].pc) /\ Others(s)
      BY <1>1, <2>2 DEF SesFields, Others, Arrival
    <2>3. QED
      BY <1>1, <2>1, <2>2, EndArrival
  <1>20. CASE DropNextTable(s)
    <2>1. \/ End(s, FALSE)
          \/ \E n : ses' = [ses EXCEPT ![s].pc = "purge", ![s].uuid = UuidOf(n), ![s].cur = n,
                       ![s].left = @ \ {n}]
      BY <1>20 DEF DropNextTable
    <2>2. ASSUME NEW n, ses' = [ses EXCEPT ![s].pc = "purge", ![s].uuid = UuidOf(n), ![s].cur = n,
                       ![s].left = @ \ {n}]
          PROVE  Arrival(s, ses'[s].pc) /\ Others(s)
      <3>1. PICK u : u = UuidOf(n)
        OBVIOUS
      <3>2. ses' = [ses EXCEPT ![s].pc = "purge", ![s].uuid = u, ![s].cur = n, ![s].left = @ \ {n}]
        BY <2>2, <3>1
      <3>3. ses'[s].pc = "purge" /\ Others(s)
        BY <1>1, <3>2 DEF SesFields, Others
      <3>4. QED
        BY <1>20, <3>3 DEF Arrival
    <2>3. QED
      BY <1>1, <2>1, <2>2, EndArrival
  <1>21. CASE DropSchemaRow(s) \/ ExecCreateSchema(s) \/ RenameRow(s)
    <2>1. \E ok : End(s, ok)
      BY <1>21 DEF DropSchemaRow, ExecCreateSchema, RenameRow
    <2>2. QED
      BY <1>1, <2>1, EndArrival
  <1>22. CASE RenameGetTable(s)
    <2>1. End(s, FALSE) \/ \E i : ses' = [ses EXCEPT ![s].pc = "rename_row", ![s].row = i]
      BY <1>22 DEF RenameGetTable
    <2>2. ASSUME NEW i, ses' = [ses EXCEPT ![s].pc = "rename_row", ![s].row = i]
          PROVE  Arrival(s, ses'[s].pc) /\ Others(s)
      <3>1. ses'[s].pc = "rename_row" /\ Others(s)
        BY <1>1, <2>2 DEF SesFields, Others
      <3>2. QED
        BY <1>22, <3>1 DEF Arrival
    <2>3. QED
      BY <1>1, <2>1, <2>2, EndArrival
  <1>23. CASE DropNextVersion(s)
    <2>1. PICK u : ses' = [ses EXCEPT ![s].pc = "purge", ![s].uuid = u, ![s].cur = <<>>]
      BY <1>23 DEF DropNextVersion
    <2>2. ses'[s].pc = "purge" /\ Others(s)
      BY <1>1, <2>1 DEF SesFields, Others
    <2>3. QED
      BY <1>23, <2>2 DEF Arrival
  <1>24. QED
    BY <1>6, <1>7, <1>8, <1>9, <1>10, <1>11, <1>12, <1>13, <1>14, <1>15, <1>16, <1>17, <1>18,
       <1>19, <1>20, <1>21, <1>22, <1>23 DEF Ddl

\* A step is a session's, and the place it arrives at tells which.
LEMMA Arrives ==
    ASSUME Inv, NEW s \in Sessions, Acts(s)
    PROVE  Arrival(s, ses'[s].pc) /\ Others(s)
  BY QueryArrives, DmlArrives, DdlArrives, EndArrival DEF Acts, Fail, Inv

----------------------------------------------------------------------------
(* The keys of the database                                                *)

DbAction(s) ==
    \/ InsertTableRow(s) \/ InsertVersionRow(s) \/ InsertColumnRows(s) \/ FileToTable(s)
    \/ InsertNewVersion(s) \/ CopyColumns(s) \/ TrimVersions(s) \/ DropDeleteRow(s)
    \/ DropSchemaRow(s) \/ ExecCreateSchema(s) \/ RenameRow(s)

LEMMA DbActions ==
    ASSUME NEW s, Acts(s)
    PROVE  UNCHANGED db \/ DbAction(s)
  <1> USE DEF DbAction
  <1>1. CASE Query(s)
    BY <1>1 DEF Query, Begin, BuildCatalog, RegisterCatalog, Plan, NotModified,
                ExecuteQuery, Read, RewriteTimeTravel, PlanTimeTravel
  <1>2. CASE Dml(s)
    BY <1>2 DEF Dml, GetTableUuid, Upload, LoadTable, ExecUpdate, ExecDelete,
                ExecTruncate, TableDir, Commit, SelectLastVersion, ExecVacuum, Vacuum
  <1>3. CASE Ddl(s)
    BY <1>3 DEF Ddl, ExecCreate, CreateDelta, ConvertDelta, RegisterTable, ExecDrop, Purge,
                PurgeFails, DropGetTable, ExecDropSchema, DropNextTable, DropNextVersion, RenameGetTable
  <1>4. QED
    BY <1>1, <1>2, <1>3 DEF Acts, Fail

\* Names, ids and versions of a database.
KeysOK(d) ==
    /\ d.schemas \subseteq Schemas
    /\ \A r \in d.tables : r.name[1] \in d.schemas
    /\ \A r, q \in d.tables : r.id = q.id \/ r.name = q.name => r = q
    /\ \A v, w \in d.versions : v.id = w.id => v = w
    /\ \A v \in d.versions : \E r \in d.tables : r.id = v.table

\* One more table.
AddedTable(d, e, r) ==
    /\ e.schemas = d.schemas /\ e.versions = d.versions /\ e.tables = d.tables \cup {r}
    /\ \A q \in d.tables : q.id < r.id

LEMMA TableAdded ==
    ASSUME Inv, NEW t, NEW u, db' = create_table_row(db, t, u)
    PROVE  \E i \in Nat : AddedTable(db, db', [id |-> i, name |-> t, uuid |-> u]) /\ i = NextId(db.tables)
  <1>1. DbShape(db)
    BY DEF Inv
  <1>2. PICK n \in Nat : \A r \in db.tables : r.id <= n
    BY <1>1 DEF DbShape
  <1>3. \A r \in db.tables : r.id \in Nat
    BY <1>1 DEF DbShape
  <1>4. PICK i : i = NextId(db.tables)
    OBVIOUS
  <1>5. i \in Nat /\ \A r \in db.tables : r.id < i
    BY <1>2, <1>3, <1>4, NextIdIs
  <1>6. /\ db'.schemas = db.schemas /\ db'.versions = db.versions
        /\ db'.tables = db.tables \cup {[id |-> i, name |-> t, uuid |-> u]}
    BY <1>1, <1>4 DEF create_table_row, DbShape
  <1>7. QED
    BY <1>4, <1>5, <1>6 DEF AddedTable

\* One more version.
AddedVersion(d, e, v) ==
    /\ e.schemas = d.schemas /\ e.tables = d.tables /\ e.versions = d.versions \cup {v}
    /\ \A w \in d.versions : w.id < v.id

LEMMA VersionAdded ==
    ASSUME Inv, NEW t, NEW n,
           db' = [db EXCEPT !.versions =
                    @ \cup {[id |-> NextId(@), table |-> t, version |-> n, columns |-> FALSE]}]
    PROVE  \E i \in Nat : /\ i = NextId(db.versions)
                          /\ AddedVersion(db, db', [id |-> i, table |-> t, version |-> n, columns |-> FALSE])
  <1>1. DbShape(db)
    BY DEF Inv
  <1>2. PICK m \in Nat : \A r \in db.versions : r.id <= m
    BY <1>1 DEF DbShape
  <1>3. \A r \in db.versions : r.id \in Nat
    BY <1>1 DEF DbShape
  <1>4. PICK i : i = NextId(db.versions)
    OBVIOUS
  <1>5. i \in Nat /\ \A r \in db.versions : r.id < i
    BY <1>2, <1>3, <1>4, NextIdIs
  <1>6. /\ db'.schemas = db.schemas /\ db'.tables = db.tables
        /\ db'.versions = db.versions \cup {[id |-> i, table |-> t, version |-> n, columns |-> FALSE]}
    BY <1>1, <1>4 DEF DbShape
  <1>7. QED
    BY <1>4, <1>5, <1>6 DEF AddedVersion

\* Versions get columns, or are deleted.
FewerVersions(d, e) ==
    /\ e.schemas = d.schemas /\ e.tables = d.tables
    /\ \A v \in e.versions : \E w \in d.versions : v.id = w.id /\ v.table = w.table /\ v.version = w.version
    /\ \A v, w \in e.versions : v.id = w.id => v = w

LEMMA ColumnsAdded ==
    ASSUME Inv, KeysOK(db), NEW i, db' = create_table_columns(db, i)
    PROVE  /\ FewerVersions(db, db')
           /\ \A v \in db.versions : \E w \in db'.versions : w.id = v.id /\ w.table = v.table
  <1>1. DbShape(db)
    BY DEF Inv
  <1>2. /\ db'.schemas = db.schemas /\ db'.tables = db.tables
        /\ db'.versions = {IF v.id = i THEN [v EXCEPT !.columns = TRUE] ELSE v : v \in db.versions}
    BY <1>1 DEF create_table_columns, DbShape
  <1>3. ASSUME NEW v \in db.versions
        PROVE  LET w == IF v.id = i THEN [v EXCEPT !.columns = TRUE] ELSE v
               IN  w.id = v.id /\ w.table = v.table /\ w.version = v.version
    BY <1>1 DEF DbShape
  <1>4. \A v \in db'.versions : \E w \in db.versions :
           /\ v = IF w.id = i THEN [w EXCEPT !.columns = TRUE] ELSE w
           /\ v.id = w.id /\ v.table = w.table /\ v.version = w.version
    BY <1>2, <1>3
  <1>5. ASSUME NEW v \in db'.versions, NEW w \in db'.versions, v.id = w.id
        PROVE  v = w
    <2>1. PICK x \in db.versions : /\ v = IF x.id = i THEN [x EXCEPT !.columns = TRUE] ELSE x
                                   /\ v.id = x.id
      BY <1>4
    <2>2. PICK y \in db.versions : /\ w = IF y.id = i THEN [y EXCEPT !.columns = TRUE] ELSE y
                                   /\ w.id = y.id
      BY <1>4
    <2>3. x = y
      BY <1>5, <2>1, <2>2 DEF KeysOK
    <2>4. QED
      BY <2>1, <2>2, <2>3
  <1>6. ASSUME NEW v \in db.versions
        PROVE  \E w \in db'.versions : w.id = v.id /\ w.table = v.table
    BY <1>2, <1>3
  <1>7. QED
    BY <1>2, <1>4, <1>5, <1>6 DEF FewerVersions

LEMMA VersionsTrimmed ==
    ASSUME Inv, KeysOK(db), NEW i, db' = delete_old_versions(db, i)
    PROVE  /\ FewerVersions(db, db') /\ db'.versions \subseteq db.versions
           /\ \A v \in db.versions : v.table # i => v \in db'.versions
           /\ \A v \in db.versions : v.table = i =>
                \E w \in db'.versions : w.table = i /\ v.id <= w.id
  <1>1. DbShape(db)
    BY DEF Inv
  <1> DEFINE S == {w.id : w \in VersionsOf(db, i)}
  <1>2. PICK m : m = Max(S)
    OBVIOUS
  <1>3. /\ db'.schemas = db.schemas /\ db'.tables = db.tables
        /\ db'.versions = {v \in db.versions : v.table = i => v.id = m}
    BY <1>1, <1>2 DEF delete_old_versions, DbShape
  <1>4. ASSUME NEW v \in db.versions, v.table = i
        PROVE  \E w \in db'.versions : w.table = i /\ v.id <= w.id
    <2>1. PICK n \in Nat : \A w \in db.versions : w.id <= n
      BY <1>1 DEF DbShape
    <2>2. S \in SUBSET Nat /\ v.id \in S /\ \A y \in S : y <= n
      BY <1>1, <1>4, <2>1 DEF DbShape, VersionsOf
    <2>3. m \in S /\ \A y \in S : y <= m
      <3> HIDE DEF S
      <3>1. S # {}
        BY <2>2
      <3>2. QED
        BY <1>2, <2>2, <3>1, MaxOf
    <2>4. PICK w \in db.versions : w.table = i /\ w.id = m
      BY <2>3 DEF VersionsOf
    <2>5. QED
      BY <1>3, <2>2, <2>3, <2>4
  <1>5. QED
    BY <1>3, <1>4 DEF FewerVersions, KeysOK

LEMMA KeysFewer ==
    ASSUME KeysOK(db), FewerVersions(db, db')
    PROVE  KeysOK(db')
  BY DEF KeysOK, FewerVersions

\* Tables are deleted, with their versions.
DeletedTables(d, e) ==
    /\ e.tables \subseteq d.tables
    /\ e.versions = {v \in d.versions : \E r \in e.tables : r.id = v.table}
    /\ e.schemas \subseteq d.schemas
    /\ \A r \in e.tables : r.name[1] \in e.schemas

LEMMA TableDeleted ==
    ASSUME Inv, KeysOK(db), NEW i, db' = delete_table(db, i)
    PROVE  DeletedTables(db, db') /\ db'.tables = {r \in db.tables : r.id # i}
  <1>1. /\ db'.tables = {r \in db.tables : r.id # i} /\ db'.schemas = db.schemas
        /\ db'.versions = {v \in db.versions : v.table # i}
    BY DEF delete_table, Inv, DbShape
  <1>2. ASSUME NEW v \in db.versions
        PROVE  v.table # i <=> \E r \in db'.tables : r.id = v.table
    BY <1>1 DEF KeysOK
  <1>3. QED
    BY <1>1, <1>2 DEF DeletedTables, KeysOK

LEMMA SchemaDeleted ==
    ASSUME Inv, KeysOK(db), NEW c, db' = delete_collection(db, c)
    PROVE  DeletedTables(db, db') /\ db'.tables = {r \in db.tables : r.name[1] # c}
  <1>1. /\ db'.tables = {r \in db.tables : r.name[1] # c} /\ db'.schemas = db.schemas \ {c}
        /\ db'.versions = {v \in db.versions :
                             v.table \in {r.id : r \in {r \in db.tables : r.name[1] # c}}}
    BY DEF delete_collection, Inv, DbShape
  <1>2. ASSUME NEW v \in db.versions
        PROVE  v \in db'.versions <=> \E r \in db'.tables : r.id = v.table
    BY <1>1
  <1>3. db'.versions \subseteq db.versions
    BY <1>1
  <1>4. \A r \in db'.tables : r.name[1] \in db'.schemas
    BY <1>1 DEF KeysOK
  <1>5. db'.versions = {v \in db.versions : \E r \in db'.tables : r.id = v.table}
    BY <1>2, <1>3
  <1>6. QED
    BY <1>1, <1>4, <1>5 DEF DeletedTables

LEMMA KeysDeleted ==
    ASSUME KeysOK(db), DeletedTables(db, db')
    PROVE  KeysOK(db')
  BY DEF KeysOK, DeletedTables

\* A table gets another name.
LEMMA TableRenamed ==
    ASSUME Inv, KeysOK(db), NEW i, NEW n, n \notin Names(db), n[1] \in db.schemas,
           db' = rename_table(db, i, n)
    PROVE  /\ KeysOK(db') /\ db'.versions = db.versions
           /\ \A r \in db'.tables : \E q \in db.tables : q.id = r.id /\ q.uuid = r.uuid
           /\ \A q \in db.tables : \E r \in db'.tables : q.id = r.id /\ q.uuid = r.uuid
  <1>1. /\ db'.schemas = db.schemas /\ db'.versions = db.versions
        /\ db'.tables = {IF r.id = i THEN [r EXCEPT !.name = n] ELSE r : r \in db.tables}
    BY DEF rename_table, Inv, DbShape
  <1>2. ASSUME NEW r \in db.tables
        PROVE  LET q == IF r.id = i THEN [r EXCEPT !.name = n] ELSE r
               IN  q.id = r.id /\ q.uuid = r.uuid /\ q.name = IF r.id = i THEN n ELSE r.name
    BY DEF Inv, DbShape
  <1>3. ASSUME NEW q \in db'.tables
        PROVE  \E r \in db.tables : /\ q = IF r.id = i THEN [r EXCEPT !.name = n] ELSE r
                                    /\ q.id = r.id /\ q.uuid = r.uuid
                                    /\ q.name = IF r.id = i THEN n ELSE r.name
    BY <1>1, <1>2
  <1>4. ASSUME NEW q \in db'.tables
        PROVE  q.name[1] \in db'.schemas
    BY <1>1, <1>3 DEF KeysOK
  <1>5. ASSUME NEW p \in db'.tables, NEW q \in db'.tables, p.id = q.id \/ p.name = q.name
        PROVE  p = q
    <2>1. PICK x \in db.tables : /\ p = IF x.id = i THEN [x EXCEPT !.name = n] ELSE x
                                 /\ p.id = x.id /\ p.name = IF x.id = i THEN n ELSE x.name
      BY <1>3
    <2>2. PICK y \in db.tables : /\ q = IF y.id = i THEN [y EXCEPT !.name = n] ELSE y
                                 /\ q.id = y.id /\ q.name = IF y.id = i THEN n ELSE y.name
      BY <1>3
    <2>3. x.name # n /\ y.name # n
      BY DEF Names
    <2>4. x = y
      BY <1>5, <2>1, <2>2, <2>3 DEF KeysOK
    <2>5. QED
      BY <2>1, <2>2, <2>4
  <1>6. ASSUME NEW q \in db.tables
        PROVE  \E r \in db'.tables : q.id = r.id /\ q.uuid = r.uuid
    BY <1>1, <1>2
  <1>7. \A v \in db'.versions : \E r \in db'.tables : r.id = v.table
    BY <1>1, <1>6 DEF KeysOK
  <1>8. KeysOK(db')
    BY <1>1, <1>4, <1>5, <1>7 DEF KeysOK
  <1>9. QED
    BY <1>1, <1>3, <1>6, <1>8

\* A new schema, or none.
LEMMA SchemaCreated ==
    ASSUME Inv, NEW c, db' = create_collection(db, c)
    PROVE  db'.tables = db.tables /\ db'.versions = db.versions /\ db'.schemas = db.schemas \cup {c}
  BY DEF create_collection, Inv, DbShape

LEMMA KeysStep ==
    ASSUME Inv, KeysOK(db), NEW s \in Sessions, Acts(s)
    PROVE  KeysOK(db')
  <1>1. ASSUME ses[s].pc # "idle"
        PROVE  ses[s].st.t \in Tables
    BY <1>1, RequestIs
  <1>2. ASSUME NEW c, db' = create_collection(db, c), c \in Schemas
        PROVE  KeysOK(db')
    BY <1>2, SchemaCreated DEF KeysOK
  <1>3. CASE InsertTableRow(s)
    <2>1. PICK t, u : t = ses[s].st.t /\ u = ses[s].uuid
      OBVIOUS
    <2>2. CASE db' = create_table_row(db, t, u) /\ t[1] \in db.schemas /\ t \notin Names(db)
      <3>1. PICK i \in Nat : AddedTable(db, db', [id |-> i, name |-> t, uuid |-> u])
        BY <2>2, TableAdded
      <3>2. QED
        BY <2>2, <3>1 DEF AddedTable, KeysOK, Names
    <2>3. QED
      BY <1>3, <2>1, <2>2 DEF InsertTableRow
  <1>4. ASSUME NEW t, NEW n, (\E r \in db.tables : r.id = t),
               db' = [db EXCEPT !.versions =
                    @ \cup {[id |-> NextId(@), table |-> t, version |-> n, columns |-> FALSE]}]
        PROVE  KeysOK(db')
    <2>1. PICK i \in Nat : AddedVersion(db, db', [id |-> i, table |-> t, version |-> n, columns |-> FALSE])
      BY <1>4, VersionAdded
    <2>2. PICK x : x = [id |-> i, table |-> t, version |-> n, columns |-> FALSE]
      OBVIOUS
    <2>3. x.id = i /\ x.table = t /\ AddedVersion(db, db', x)
      BY <2>1, <2>2
    <2>4. \A v, w \in db'.versions : v.id = w.id => v = w
      <3>1. \A v \in db.versions : v.id \in Nat /\ v.id # i
        BY <2>3 DEF AddedVersion, Inv, DbShape
      <3>2. QED
        BY <2>3, <3>1 DEF AddedVersion, KeysOK
    <2>5. QED
      BY <1>4, <2>3, <2>4 DEF AddedVersion, KeysOK
  <1>5. CASE InsertVersionRow(s)
    BY <1>4, <1>5 DEF InsertVersionRow, create_table_version
  <1>6. CASE InsertNewVersion(s)
    <2>1. PICK src : src = CHOOSE v \in db.versions : v.id = ses[s].row
      OBVIOUS
    <2>2. CASE ses[s].row \in {v.id : v \in db.versions} /\ db' = insert_version(db, ses[s].row, ses[s].base)
      <3>1. src \in db.versions
        BY <2>1, <2>2
      <3>2. PICK t, n : t = src.table /\ n = ses[s].base
        OBVIOUS
      <3>3. \E r \in db.tables : r.id = t
        BY <3>1, <3>2 DEF KeysOK
      <3>4. QED
        BY <1>4, <2>1, <2>2, <3>2, <3>3 DEF insert_version
    <2>3. QED
      BY <1>6, <2>2 DEF InsertNewVersion
  <1>7. CASE InsertColumnRows(s)
    BY <1>7, ColumnsAdded, KeysFewer DEF InsertColumnRows
  <1>8. CASE CopyColumns(s)
    BY <1>8, ColumnsAdded, KeysFewer DEF CopyColumns, copy_columns
  <1>9. CASE TrimVersions(s)
    BY <1>9, VersionsTrimmed, KeysFewer DEF TrimVersions
  <1>10. CASE DropDeleteRow(s)
    BY <1>10, TableDeleted, KeysDeleted DEF DropDeleteRow
  <1>11. CASE DropSchemaRow(s)
    BY <1>11, SchemaDeleted, KeysDeleted DEF DropSchemaRow
  <1>12. CASE ExecCreateSchema(s)
    BY <1>1, <1>2, <1>12 DEF ExecCreateSchema, At, Schemas
  <1>13. CASE FileToTable(s)
    BY <1>1, <1>2, <1>13 DEF FileToTable, At, Schemas
  <1>14. CASE RenameRow(s)
    BY <1>14, TableRenamed DEF RenameRow
  <1>15. QED
    BY <1>3, <1>5, <1>6, <1>7, <1>8, <1>9, <1>10, <1>11, <1>12, <1>13, <1>14, DbActions DEF DbAction

\* The rows of the start.
SetupRows(order, c) ==
    /\ order \in [Workload.tables -> 1 .. c]
    /\ \A m, n \in Workload.tables : order[m] = order[n] => m = n
    /\ db.schemas = {DefaultSchema} \cup {n[1] : n \in Workload.tables}
    /\ \A r \in db.tables : \E n \in Workload.tables :
         r = [id |-> order[n], name |-> n, uuid |-> Workload.imports + order[n]]
    /\ \A n \in Workload.tables :
         [id |-> order[n], name |-> n, uuid |-> Workload.imports + order[n]] \in db.tables
    /\ \A v \in db.versions : \E n \in Workload.tables : \E k \in {0, 1} :
         v = [id |-> 2 * order[n] - k, table |-> order[n], version |-> 1 - k, columns |-> TRUE]
    /\ \A n \in Workload.tables : \A k \in {0, 1} :
         [id |-> 2 * order[n] - k, table |-> order[n], version |-> 1 - k, columns |-> TRUE] \in db.versions

LEMMA SetupRowsAre ==
    ASSUME Init
    PROVE  \E c \in Nat : \E order : SetupRows(order, c)
  <1>1. PICK order \in [Workload.tables -> 1 .. Cardinality(Workload.tables)] :
           IsInjective(order) /\ db = SetupDb(order)
    BY DEF Init
  <1>2. \A m, n \in Workload.tables : order[m] = order[n] => m = n
    BY <1>1 DEF IsInjective
  <1>3. /\ db.schemas = {DefaultSchema} \cup {n[1] : n \in Workload.tables}
        /\ db.tables = {[id |-> order[n], name |-> n, uuid |-> Workload.imports + order[n]] :
                                  n \in Workload.tables}
        /\ db.versions = {[id |-> 2 * order[n] - k, table |-> order[n], version |-> 1 - k,
                                 columns |-> TRUE] : n \in Workload.tables, k \in {0, 1}}
    BY <1>1 DEF SetupDb
  <1>4. PICK c : c = Cardinality(Workload.tables)
    OBVIOUS
  <1>5. c \in Nat
    BY <1>4, SetupIs
  <1>6. ASSUME NEW n \in Workload.tables, NEW k \in {0, 1}
        PROVE  [id |-> 2 * order[n] - k, table |-> order[n], version |-> 1 - k, columns |-> TRUE] \in db.versions
    <2> DEFINE V(m, j) == [id |-> 2 * order[m] - j, table |-> order[m], version |-> 1 - j, columns |-> TRUE]
    <2>1. db.versions = {V(m, j) : m \in Workload.tables, j \in {0, 1}}
      BY <1>3
    <2>2. V(n, k) \in db.versions
      <3> HIDE DEF V
      <3>1. QED
        BY <2>1
    <2>3. QED
      BY <2>2
  <1>7. \A v \in db.versions : \E n \in Workload.tables : \E k \in {0, 1} :
           v = [id |-> 2 * order[n] - k, table |-> order[n], version |-> 1 - k, columns |-> TRUE]
    BY <1>3
  <1>8. SetupRows(order, c)
    BY <1>1, <1>2, <1>3, <1>4, <1>6, <1>7 DEF SetupRows
  <1>9. QED
    BY <1>5, <1>8

LEMMA KeysInit ==
    ASSUME Init
    PROVE  /\ KeysOK(db)
           /\ \A r, q \in db.tables : r.uuid = q.uuid => r = q
           /\ \A r \in db.tables : VersionsOf(db, r.id) # {}
  <1>1. PICK c \in Nat : \E order : SetupRows(order, c)
    BY SetupRowsAre
  <1>2. PICK order : SetupRows(order, c)
    BY <1>1
  <1>3. Workload.tables \subseteq Tables /\ Workload.imports \in {0, 1}
    BY SetupIs
  <1>4. \A n \in Workload.tables : order[n] \in 1 .. c
    BY <1>2 DEF SetupRows
  <1>5. ASSUME NEW r \in db.tables
        PROVE  \E n \in Workload.tables :
                 r.id = order[n] /\ r.name = n /\ r.uuid = Workload.imports + order[n]
                 /\ r = [id |-> order[n], name |-> n, uuid |-> Workload.imports + order[n]]
    BY <1>2 DEF SetupRows
  <1>6. ASSUME NEW r \in db.tables, NEW q \in db.tables, r.id = q.id \/ r.name = q.name \/ r.uuid = q.uuid
        PROVE  r = q
    <2>1. PICK m \in Workload.tables : r.id = order[m] /\ r.name = m /\ r.uuid = Workload.imports + order[m]
                 /\ r = [id |-> order[m], name |-> m, uuid |-> Workload.imports + order[m]]
      BY <1>5
    <2>2. PICK n \in Workload.tables : q.id = order[n] /\ q.name = n /\ q.uuid = Workload.imports + order[n]
                 /\ q = [id |-> order[n], name |-> n, uuid |-> Workload.imports + order[n]]
      BY <1>5
    <2>3. order[m] = order[n] \/ m = n
      BY <1>3, <1>4, <1>6, <2>1, <2>2
    <2>4. m = n
      BY <1>2, <2>3 DEF SetupRows
    <2>5. QED
      BY <2>1, <2>2, <2>4
  <1>7. ASSUME NEW v \in db.versions, NEW w \in db.versions, v.id = w.id
        PROVE  v = w
    <2>1. PICK m \in Workload.tables, j \in {0, 1} :
         v = [id |-> 2 * order[m] - j, table |-> order[m], version |-> 1 - j, columns |-> TRUE]
      BY <1>2 DEF SetupRows
    <2>2. PICK n \in Workload.tables, k \in {0, 1} :
         w = [id |-> 2 * order[n] - k, table |-> order[n], version |-> 1 - k, columns |-> TRUE]
      BY <1>2 DEF SetupRows
    <2>3. 2 * order[m] - j = 2 * order[n] - k
      BY <1>7, <2>1, <2>2
    <2>4. PICK x, y : x = order[m] /\ y = order[n]
      OBVIOUS
    <2>5. x \in Nat /\ y \in Nat /\ 2 * x - j = 2 * y - k
      BY <1>4, <2>3, <2>4
    <2>6. x = y /\ j = k
      BY <2>5
    <2>7. QED
      BY <2>1, <2>2, <2>4, <2>6
  <1>8. ASSUME NEW v \in db.versions
        PROVE  \E r \in db.tables : r.id = v.table
    <2>1. PICK n \in Workload.tables : v.table = order[n]
      BY <1>2 DEF SetupRows
    <2>2. [id |-> order[n], name |-> n, uuid |-> Workload.imports + order[n]] \in db.tables
      BY <1>2 DEF SetupRows
    <2>3. QED
      BY <2>1, <2>2
  <1>9. db.schemas \subseteq Schemas /\ \A r \in db.tables : r.name[1] \in db.schemas
    BY <1>2, <1>3, <1>5 DEF SetupRows, Schemas
  <1>10. ASSUME NEW r \in db.tables
         PROVE  VersionsOf(db, r.id) # {}
    <2>1. PICK n \in Workload.tables : r.id = order[n]
      BY <1>5
    <2>2. PICK k \in {0, 1} : k = 0
      OBVIOUS
    <2>5. PICK v : v = [id |-> 2 * order[n] - k, table |-> order[n], version |-> 1 - k, columns |-> TRUE]
      OBVIOUS
    <2>3. v \in db.versions /\ v.table = r.id
      BY <1>2, <2>1, <2>5 DEF SetupRows
    <2>4. QED
      BY <2>3 DEF VersionsOf
  <1>11. QED
    BY <1>6, <1>7, <1>8, <1>9, <1>10 DEF KeysOK

\* Only a RENAME renames.
RenameOK == \A s \in Sessions : ses[s].pc = "rename_row" => ses[s].st.op = "rename"

CatInv == Inv /\ KeysOK(db) /\ RenameOK

LEMMA NextActs ==
    ASSUME [Next]_vars
    PROVE  UNCHANGED vars \/ \E s \in Sessions : Acts(s)
  BY DEF Next, Acts

LEMMA RenameStep ==
    ASSUME Inv, RenameOK, [Next]_vars
    PROVE  RenameOK'
  <1>1. CASE UNCHANGED ses
    BY <1>1 DEF RenameOK
  <1>2. ASSUME NEW s \in Sessions, Acts(s)
        PROVE  RenameOK'
    <2>1. Arrival(s, ses'[s].pc) /\ Others(s)
      BY <1>2, Arrives
    <2>2. ASSUME ses'[s].pc = "rename_row"
          PROVE  ses'[s].st.op = "rename"
      <3>1. RenameGetTable(s)
        BY <2>1, <2>2 DEF Arrival
      <3>2. CASE End(s, FALSE)
        BY <2>2, <3>2, EndIdle
      <3>3. ASSUME NEW i, ses' = [ses EXCEPT ![s].pc = "rename_row", ![s].row = i]
            PROVE  ses'[s].st = ses[s].st
        BY <3>3 DEF Inv, SesShape, SesFields
      <3>4. QED
        BY <3>1, <3>2, <3>3 DEF RenameGetTable, Op
    <2>3. QED
      BY <2>1, <2>2 DEF RenameOK, Others
  <1>3. QED
    BY <1>1, <1>2, NextActs DEF vars

\* The keys of the database, from the start.
LEMMA CatInvariance == ASSUME AtomicRename PROVE Spec => []CatInv
  <1>1. Init => CatInv
    BY InitInv, KeysInit DEF Init, CatInv, RenameOK, Idle
  <1>2. CatInv /\ [Next]_vars => CatInv'
    <2>1. ASSUME CatInv, [Next]_vars
          PROVE  CatInv'
      <3>1. Inv' /\ RenameOK'
        BY <2>1, NextInv, RenameStep DEF CatInv
      <3>2. KeysOK(db)'
        BY <2>1, NextActs, KeysStep DEF CatInv, vars
      <3>3. QED
        BY <3>1, <3>2 DEF CatInv
    <2>2. QED
      BY <2>1
  <1>3. QED
    BY <1>1, <1>2, PTL DEF Spec

----------------------------------------------------------------------------
(* What a step does to the catalog in memory                               *)

\* Looking tables up changes no name and no directory; a table that is loaded
\* gets its last version, and one that was looked up may be added at a version.
LookedUp(m) ==
    /\ DOMAIN m.tables = DOMAIN mem.tables
    /\ \A n \in DOMAIN mem.tables :
         /\ m.tables[n].uuid = mem.tables[n].uuid
         /\ \/ m.tables[n].version = mem.tables[n].version
            \/ /\ Loadable(mem.tables[n].uuid)
               /\ m.tables[n].version = Latest(mem.tables[n].uuid)
    /\ \A x \in m.versioned \ mem.versioned : \E n \in DOMAIN mem.tables : x[2] = mem.tables[n].uuid

LEMMA TouchedIs ==
    ASSUME Inv, NEW n, Found(n)
    PROVE  /\ LookedUp(Touched(n)) /\ DOMAIN Touched(n) = {"schemas", "tables", "versioned"}
           /\ Touched(n).versioned = mem.versioned
  <1>1. PICK e : e = mem.tables[n]
    OBVIOUS
  <1>2. n \in DOMAIN mem.tables /\ MapOK(mem) /\ EntryOK(e)
    BY <1>1 DEF Found, Inv, MapOK
  <1>3. CASE e.version = NotLoaded
    <2>1. PICK m, l : m = Touched(n) /\ l = Latest(e.uuid)
      OBVIOUS
    <2>2. m = [mem EXCEPT !.tables[n].version = l] /\ Loadable(e.uuid)
      BY <1>1, <1>3, <2>1 DEF Touched, Found
    <2>3. /\ DOMAIN m = {"schemas", "tables", "versioned"}
          /\ DOMAIN m.tables = DOMAIN mem.tables
          /\ \A i \in DOMAIN mem.tables : i # n => m.tables[i] = mem.tables[i]
          /\ m.tables[n].uuid = e.uuid /\ m.tables[n].version = l
          /\ m.versioned = mem.versioned
      BY <1>1, <1>2, <2>2 DEF MapOK, EntryOK
    <2>4. QED
      BY <1>1, <2>1, <2>2, <2>3 DEF LookedUp
  <1>4. CASE e.version # NotLoaded
    <2>1. Touched(n) = mem
      BY <1>1, <1>4 DEF Touched
    <2>2. QED
      BY <1>2, <2>1 DEF LookedUp, MapOK
  <1>5. QED
    BY <1>3, <1>4

LEMMA MemMoves ==
    ASSUME Inv, NEW s \in Sessions, Acts(s)
    PROVE  LookedUp(mem') \/ RegisterCatalog(s) \/ RegisterTable(s)
  <1>1. ASSUME UNCHANGED mem
        PROVE  LookedUp(mem')
    BY <1>1 DEF LookedUp
  <1>2. ASSUME NEW n, Found(n), mem' = Touched(n)
        PROVE  LookedUp(mem')
    BY <1>2, TouchedIs
  <1>3. ASSUME NEW n, Found(n), NEW v,
               mem' = [Touched(n) EXCEPT !.versioned = @ \cup {<<n, UuidOf(n), v>>}]
        PROVE  LookedUp(mem')
    <2>1. PICK m, x : m = Touched(n) /\ x = <<n, UuidOf(n), v>>
      OBVIOUS
    <2>2. /\ LookedUp(m) /\ DOMAIN m = {"schemas", "tables", "versioned"}
          /\ m.versioned = mem.versioned
      BY <1>3, <2>1, TouchedIs
    <2>3. mem'.tables = m.tables /\ mem'.versioned = m.versioned \cup {x}
      BY <1>3, <2>1, <2>2
    <2>4. n \in DOMAIN mem.tables /\ x[2] = mem.tables[n].uuid
      BY <1>3, <2>1 DEF Found, UuidOf
    <2>5. QED
      BY <2>2, <2>3, <2>4 DEF LookedUp
  <1>4. CASE Query(s)
    <2>1. CASE RewriteTimeTravel(s)
      BY <1>1, <1>2, <1>3, <2>1 DEF RewriteTimeTravel
    <2>2. CASE Plan(s)
      <3>1. CASE UNCHANGED mem
        BY <1>1, <3>1
      <3>2. CASE ~ PlanError(s) /\ mem' = Touched(ses[s].st.t)
                 /\ Op(s) \in {"select", "insert", "update", "delete", "rename"}
        <4>1. Found(ses[s].st.t)
          BY <3>2 DEF PlanError, Op
        <4>2. QED
          BY <1>2, <3>2, <4>1
      <3>3. QED
        BY <2>2, <3>1, <3>2 DEF Plan
    <2>3. CASE UNCHANGED mem
      BY <1>1, <2>3
    <2>4. QED
      BY <1>4, <2>1, <2>2, <2>3 DEF Query, Begin, BuildCatalog, NotModified, ExecuteQuery, Read,
         PlanTimeTravel
  <1>5. CASE Dml(s)
    BY <1>1, <1>2, <1>5 DEF Dml, GetTableUuid, Upload, LoadTable, ExecUpdate, ExecDelete,
                ExecTruncate, TableDir, Commit, SelectLastVersion, InsertNewVersion,
                CopyColumns, ExecVacuum, Vacuum, TrimVersions, LoadError, LoadedWith, CanLoad
  <1>6. CASE Ddl(s)
    BY <1>1, <1>2, <1>6 DEF Ddl, ExecCreate, CreateDelta, ConvertDelta, InsertTableRow, InsertVersionRow,
                InsertColumnRows, FileToTable, ExecDrop, Purge, PurgeFails,
                DropGetTable, DropDeleteRow, ExecDropSchema, DropNextTable, DropNextVersion, DropSchemaRow,
                ExecCreateSchema, RenameGetTable, RenameRow
  <1>7. QED
    BY <1>1, <1>4, <1>5, <1>6 DEF Acts, Fail

----------------------------------------------------------------------------
(* Names and directories, when no table is dropped or renamed              *)

Stable == ~Drops /\ ~Asks("rename")

Listed(n, u) == \E r \in db.tables : r.name = n /\ r.uuid = u

\* What a statement has looked up is what it would find now.
LinkOK(x) ==
    /\ x.pc = "register" => \A n \in DOMAIN x.snap.tables : Listed(n, x.snap.tables[n].uuid)
    /\ x.pc \in {"version_row", "column_rows", "register_table"} => Listed(x.st.t, x.uuid)
    /\ x.pc = "dir" => Listed(x.st.t, x.tab)
    /\ x.pc = "exec_delete" => Listed(x.st.t, x.uuid)
    /\ x.pc \in {"upload", "commit", "last_version"} /\ x.st.op \in {"update", "delete"} => x.tab = x.uuid

LinksOK ==
    /\ \A n \in DOMAIN mem.tables : Listed(n, mem.tables[n].uuid)
    /\ \A s \in Sessions : LinkOK(ses[s])

\* A session asks what the workload asks.
LEMMA AsksOp ==
    ASSUME Inv, NEW s \in Sessions, ses[s].pc # "idle"
    PROVE  Asks(ses[s].st.op)
  BY RequestIs DEF Asks

LEMMA DbGrows ==
    ASSUME CatInv, Stable, NEW s \in Sessions, Acts(s)
    PROVE  db.tables \subseteq db'.tables
  <1>1. Inv /\ KeysOK(db)
    BY DEF CatInv
  <1>2. CASE InsertTableRow(s)
    <2>1. PICK t, u : t = ses[s].st.t /\ u = ses[s].uuid
      OBVIOUS
    <2>2. CASE db' = create_table_row(db, t, u)
      BY <1>1, <2>2, TableAdded DEF AddedTable
    <2>3. QED
      BY <1>2, <2>1, <2>2 DEF InsertTableRow
  <1>3. CASE InsertVersionRow(s) \/ InsertNewVersion(s)
    <2>1. UNCHANGED db \/ db'.tables = db.tables
      BY <1>1, <1>3 DEF InsertVersionRow, InsertNewVersion, create_table_version, insert_version, DbShape, Inv
    <2>2. QED
      BY <2>1
  <1>4. CASE InsertColumnRows(s) \/ CopyColumns(s)
    BY <1>1, <1>4, ColumnsAdded DEF InsertColumnRows, CopyColumns, copy_columns, FewerVersions
  <1>5. CASE TrimVersions(s)
    BY <1>1, <1>5, VersionsTrimmed DEF TrimVersions, FewerVersions
  <1>6. CASE ExecCreateSchema(s) \/ FileToTable(s)
    BY <1>1, <1>6, SchemaCreated DEF ExecCreateSchema, FileToTable
  <1>7. CASE DropDeleteRow(s) \/ DropSchemaRow(s)
    <2>1. ses[s].pc \in {"drop_row", "drop_next"} /\ ses[s].st.op \in {"drop", "drop_schema"}
      BY <1>1, <1>7 DEF DropDeleteRow, DropSchemaRow, At, Inv, SesShape, CtlOK
    <2>2. QED
      BY <1>1, <2>1, AsksOp DEF Stable, Drops
  <1>8. CASE RenameRow(s)
    <2>1. ses[s].pc = "rename_row" /\ ses[s].st.op = "rename"
      BY <1>8 DEF RenameRow, At, CatInv, RenameOK
    <2>2. QED
      BY <1>1, <2>1, AsksOp DEF Stable
  <1>9. QED
    BY <1>2, <1>3, <1>4, <1>5, <1>6, <1>7, <1>8, DbActions DEF DbAction

LEMMA ListedKept ==
    ASSUME db.tables \subseteq db'.tables, NEW n, NEW u, Listed(n, u)
    PROVE  Listed(n, u)'
  BY DEF Listed

LEMMA LinkKept ==
    ASSUME db.tables \subseteq db'.tables, NEW x, LinkOK(x)
    PROVE  LinkOK(x)'
  BY ListedKept DEF LinkOK

\* What a session finds in memory is in the database.
LEMMA FoundListed ==
    ASSUME LinksOK, NEW n, Found(n)
    PROVE  Listed(n, UuidOf(n))
  BY DEF LinksOK, Found, UuidOf

LEMMA MemLinks ==
    ASSUME CatInv, LinksOK, Stable, NEW s \in Sessions, Acts(s), NEW n \in DOMAIN mem'.tables
    PROVE  Listed(n, mem.tables[n].uuid)'
  <1>1. db.tables \subseteq db'.tables
    BY DbGrows
  <1>2. CASE LookedUp(mem')
    <2>1. PICK u : u = mem.tables[n].uuid
      OBVIOUS
    <2>2. Listed(n, u) /\ mem'.tables[n].uuid = u
      BY <1>2, <2>1 DEF LookedUp, LinksOK
    <2>3. QED
      BY <1>1, <2>2, ListedKept
  <1>3. CASE RegisterCatalog(s)
    <2>1. mem' = ses[s].snap /\ ses[s].pc = "register"
      BY <1>3 DEF RegisterCatalog, At
    <2>2. PICK u : u = mem'.tables[n].uuid
      OBVIOUS
    <2>3. Listed(n, u)
      BY <2>1, <2>2 DEF LinksOK, LinkOK
    <2>4. QED
      BY <1>1, <2>2, <2>3, ListedKept
  <1>4. CASE RegisterTable(s)
    <2>1. PICK t, u, m : t = ses[s].st.t /\ u = ses[s].uuid /\ m = mem.tables
      OBVIOUS
    <2>2. Listed(t, u)
      BY <1>4, <2>1 DEF RegisterTable, At, LinksOK, LinkOK
    <2>3. CASE UNCHANGED mem
      BY <1>1, <2>3, ListedKept DEF LinksOK
    <2>4. CASE mem' = [mem EXCEPT !.tables = [i \in DOMAIN m \cup {t} |->
                            IF i = t THEN [uuid |-> u, version |-> 0] ELSE m[i]]]
      <3>1. mem'.tables = [i \in DOMAIN m \cup {t} |->
                            IF i = t THEN [uuid |-> u, version |-> 0] ELSE m[i]]
        BY <2>4 DEF CatInv, Inv, MapOK
      <3>2. PICK w : w = mem'.tables[n].uuid
        OBVIOUS
      <3>3. Listed(n, w)
        BY <2>1, <2>2, <3>1, <3>2 DEF LinksOK
      <3>4. QED
        BY <1>1, <3>2, <3>3, ListedKept
    <2>5. QED
      BY <1>4, <2>1, <2>3, <2>4 DEF RegisterTable
  <1>5. QED
    BY <1>2, <1>3, <1>4, MemMoves DEF CatInv

\* A snapshot of the database has its names and directories.
LEMMA SnapLinks ==
    ASSUME CatInv, NEW s \in Sessions, BuildCatalog(s), NEW n \in DOMAIN ses'[s].snap.tables
    PROVE  Listed(n, ses'[s].snap.tables[n].uuid)
  <1>1. PICK l : l = list_collections(db).tables
    OBVIOUS
  <1>2. ses'[s].snap.tables = [i \in Names(db) |-> [uuid |-> l[i], version |-> NotLoaded]]
    <2>1. PICK z : z = [schemas |-> db.schemas,
                        tables |-> [i \in Names(db) |-> [uuid |-> l[i], version |-> NotLoaded]],
                        versioned |-> {}]
      OBVIOUS
    <2>2. ses' = [ses EXCEPT ![s].pc = "register", ![s].snap = z]
      BY <1>1, <2>1 DEF BuildCatalog
    <2>3. ses'[s].snap = z
      BY <2>2 DEF CatInv, Inv, SesShape, SesFields
    <2>4. QED
      BY <2>1, <2>3
  <1>3. l[n] = (CHOOSE r \in db.tables : r.name = n).uuid /\ n \in Names(db)
    BY <1>1, <1>2 DEF list_collections
  <1>4. \E r \in db.tables : r.name = n
    BY <1>3 DEF Names
  <1>5. QED
    BY <1>2, <1>3, <1>4 DEF Listed

LEMMA LinkCreate ==
    ASSUME CatInv, LinksOK, Stable, NEW s \in Sessions, Acts(s),
           ses'[s].pc \in {"version_row", "column_rows", "register_table"}
    PROVE  Listed(ses[s].st.t, ses[s].uuid)'
  <1>1. /\ Inv /\ db.tables \subseteq db'.tables /\ DOMAIN ses = Sessions /\ DOMAIN ses[s] = SesFields
        /\ Arrival(s, ses'[s].pc)
    BY DbGrows, Arrives DEF CatInv, Inv, SesShape
  <1>2. PICK t, u : t = ses[s].st.t /\ u = ses[s].uuid
    OBVIOUS
  <1>3. CASE InsertTableRow(s)
    <2>1. CASE End(s, FALSE)
      BY <1>1, <2>1, EndIdle
    <2>2. ASSUME db' = create_table_row(db, t, u), NEW i, ses' = [ses EXCEPT ![s].pc = "version_row", ![s].row = i]
          PROVE  Listed(ses[s].st.t, ses[s].uuid)'
      <3>1. ses'[s].st.t = t /\ ses'[s].uuid = u
        BY <1>1, <1>2, <2>2 DEF SesFields
      <3>2. PICK j \in Nat : AddedTable(db, db', [id |-> j, name |-> t, uuid |-> u])
        BY <1>1, <2>2, TableAdded
      <3>3. PICK x : x = [id |-> j, name |-> t, uuid |-> u]
        OBVIOUS
      <3>4. x \in db'.tables /\ x.name = t /\ x.uuid = u
        BY <3>2, <3>3 DEF AddedTable
      <3>5. QED
        BY <3>1, <3>4 DEF Listed
    <2>3. QED
      BY <1>2, <1>3, <2>1, <2>2 DEF InsertTableRow
  <1>4. CASE InsertVersionRow(s)
    <2>1. CASE End(s, FALSE)
      BY <1>1, <2>1, EndIdle
    <2>2. ASSUME NEW i, ses' = [ses EXCEPT ![s].pc = "column_rows", ![s].new = i]
          PROVE  ses'[s].st.t = t /\ ses'[s].uuid = u
      BY <1>1, <1>2, <2>2 DEF SesFields
    <2>3. Listed(t, u)
      BY <1>2, <1>4 DEF InsertVersionRow, At, LinksOK, LinkOK
    <2>4. Listed(t, u)'
      BY <1>1, <2>3, ListedKept
    <2>5. QED
      BY <1>4, <2>1, <2>2, <2>4 DEF InsertVersionRow
  <1>5. CASE InsertColumnRows(s)
    <2>1. CASE End(s, FALSE)
      BY <1>1, <2>1, EndIdle
    <2>2. ASSUME Goto(s, "register_table")
          PROVE  ses'[s].st.t = t /\ ses'[s].uuid = u
      BY <1>1, <1>2, <2>2 DEF Goto, SesFields
    <2>3. Listed(t, u)
      BY <1>2, <1>5 DEF InsertColumnRows, At, LinksOK, LinkOK
    <2>4. Listed(t, u)'
      BY <1>1, <2>3, ListedKept
    <2>5. QED
      BY <1>5, <2>1, <2>2, <2>4 DEF InsertColumnRows
  <1>6. QED
    BY <1>1, <1>3, <1>4, <1>5 DEF Arrival

\* What UPDATE and DELETE load, and where they write.
LoadedFrom(s, u, hit) ==
    /\ u = UuidOf(ses[s].st.t) /\ Found(ses[s].st.t)
    /\ ses'[s].tab = u /\ ses'[s].st = ses[s].st /\ ses'[s].uuid = ses[s].uuid

LEMMA LoadedFields ==
    ASSUME Inv, NEW s \in Sessions, CanLoad(s), NEW hit, NEW pc, LoadedWith(s, hit, pc)
    PROVE  \E u : LoadedFrom(s, u, hit)
  <1>1. PICK u, b : u = UuidOf(ses[s].st.t) /\ b = Latest(u)
    OBVIOUS
  <1>2. ses' = [ses EXCEPT ![s].tab = u, ![s].base = b, ![s].rems = hit, ![s].pc = pc]
    BY <1>1 DEF LoadedWith
  <1>3. QED
    BY <1>1, <1>2 DEF LoadedFrom, CanLoad, Inv, SesShape, SesFields

LEMMA LinkDir ==
    ASSUME CatInv, LinksOK, Stable, NEW s \in Sessions, Acts(s), ses'[s].pc = "dir"
    PROVE  Listed(ses[s].st.t, ses[s].tab)'
  <1>1. Inv /\ db.tables \subseteq db'.tables /\ ExecUpdate(s)
    BY DbGrows, Arrives DEF CatInv, Arrival
  <1>2. CASE LoadError(s)
    BY <1>1, <1>2, EndIdle DEF LoadError
  <1>3. ASSUME NEW hit, CanLoad(s), LoadedWith(s, hit, "dir")
        PROVE  Listed(ses[s].st.t, ses[s].tab)'
    <2>1. PICK u : LoadedFrom(s, u, hit)
      BY <1>1, <1>3, LoadedFields
    <2>2. PICK t : t = ses[s].st.t
      OBVIOUS
    <2>3. Listed(t, u) /\ ses'[s].st.t = t /\ ses'[s].tab = u
      BY <2>1, <2>2, FoundListed DEF LoadedFrom
    <2>4. QED
      BY <1>1, <2>3, ListedKept
  <1>4. QED
    BY <1>1, <1>2, <1>3 DEF ExecUpdate

LEMMA TableDirFields ==
    ASSUME Inv, NEW s \in Sessions, TableDir(s), ses'[s].pc # "idle"
    PROVE  /\ Found(ses[s].st.t) /\ ses'[s].uuid = UuidOf(ses[s].st.t)
           /\ ses'[s].st = ses[s].st /\ ses'[s].tab = ses[s].tab
           /\ Op(s) = "delete" => ses'[s].pc = "exec_delete"
           /\ Op(s) = "delete" \/ ses[s].pc = "dir"
  <1>1. CASE End(s, FALSE)
    BY <1>1, EndIdle
  <1>2. PICK pc, u : /\ u = UuidOf(ses[s].st.t)
                     /\ pc = CASE Op(s) = "delete" -> "exec_delete"
                               [] ses[s].rems # {} -> "upload"
                               [] OTHER -> "commit"
    OBVIOUS
  <1>3. CASE Found(ses[s].st.t) /\ ses' = [ses EXCEPT ![s].uuid = u, ![s].pc = pc]
    <2>1. /\ ses'[s].uuid = u /\ ses'[s].pc = pc /\ ses'[s].st = ses[s].st /\ ses'[s].tab = ses[s].tab
      BY <1>3 DEF Inv, SesShape, SesFields
    <2>2. Op(s) = "delete" => pc = "exec_delete"
      <3>1. ASSUME Op(s) = "delete"
            PROVE  ses[s].rems = {}
        BY <3>1 DEF TableDir, At, Inv, SesShape, CtlOK, SesOK, Early, Op
      <3>2. QED
        BY <1>2, <3>1
    <2>3. Op(s) = "delete" \/ ses[s].pc = "dir"
      BY DEF TableDir, At
    <2>4. QED
      BY <1>2, <1>3, <2>1, <2>2, <2>3
  <1>4. QED
    BY <1>1, <1>2, <1>3 DEF TableDir

LEMMA LinkDelete ==
    ASSUME CatInv, LinksOK, Stable, NEW s \in Sessions, Acts(s), ses'[s].pc = "exec_delete"
    PROVE  Listed(ses[s].st.t, ses[s].uuid)'
  <1>1. Inv /\ db.tables \subseteq db'.tables /\ TableDir(s)
    BY DbGrows, Arrives DEF CatInv, Arrival
  <1>2. PICK t, u : t = ses[s].st.t /\ u = UuidOf(t)
    OBVIOUS
  <1>3. Found(t) /\ ses'[s].uuid = u /\ ses'[s].st.t = t
    BY <1>1, <1>2, TableDirFields
  <1>4. Listed(t, u)
    BY <1>2, <1>3, FoundListed
  <1>5. QED
    BY <1>1, <1>3, <1>4, ListedKept

\* A name is listed once.
LEMMA ListedOnce ==
    ASSUME KeysOK(db), NEW n, NEW u, NEW w, Listed(n, u), Listed(n, w)
    PROVE  u = w
  BY DEF KeysOK, Listed

LEMMA LinkWrite ==
    ASSUME CatInv, LinksOK, NEW s \in Sessions, Acts(s),
           ses'[s].pc \in {"upload", "commit", "last_version"}, ses'[s].st.op \in {"update", "delete"}
    PROVE  ses'[s].tab = ses'[s].uuid
  <1>1. Inv /\ KeysOK(db) /\ Arrival(s, ses'[s].pc) /\ DOMAIN ses = Sessions /\ DOMAIN ses[s] = SesFields
    BY Arrives DEF CatInv, Inv, SesShape
  <1>2. LinkOK(ses[s]) /\ CtlOK(ses[s].pc, ses[s].st.op)
    BY <1>1 DEF LinksOK, Inv, SesShape
  <1>3. CASE TableDir(s)
    <2>1. /\ Found(ses[s].st.t) /\ ses'[s].uuid = UuidOf(ses[s].st.t)
          /\ ses'[s].tab = ses[s].tab /\ ses[s].pc = "dir"
      BY <1>1, <1>3, TableDirFields
    <2>2. Listed(ses[s].st.t, UuidOf(ses[s].st.t)) /\ Listed(ses[s].st.t, ses[s].tab)
      BY <1>2, <2>1, FoundListed DEF LinkOK
    <2>3. QED
      BY <1>1, <2>1, <2>2, ListedOnce
  <1>4. CASE ExecDelete(s)
    <2>1. CASE LoadError(s)
      BY <1>1, <2>1, EndIdle DEF LoadError
    <2>2. ASSUME CanLoad(s), NEW hit, NEW pc, LoadedWith(s, hit, pc)
          PROVE  ses'[s].tab = ses'[s].uuid
      <3>1. PICK u : LoadedFrom(s, u, hit)
        BY <1>1, <2>2, LoadedFields
      <3>2. Listed(ses[s].st.t, u) /\ Listed(ses[s].st.t, ses[s].uuid)
        BY <1>2, <1>4, <3>1, FoundListed DEF LoadedFrom, ExecDelete, At, LinkOK
      <3>3. u = ses[s].uuid
        BY <1>1, <3>2, ListedOnce
      <3>4. QED
        BY <3>1, <3>3 DEF LoadedFrom
    <2>3. QED
      BY <1>4, <2>1, <2>2 DEF ExecDelete
  <1>5. CASE GetTableUuid(s)
    <2>1. ASSUME NEW u, ses' = [ses EXCEPT ![s].pc = "upload", ![s].uuid = u, ![s].tab = u]
          PROVE  ses'[s].tab = ses'[s].uuid
      BY <1>1, <2>1 DEF SesFields
    <2>2. CASE End(s, FALSE)
      BY <1>1, <2>2, EndIdle
    <2>3. QED
      BY <1>5, <2>1, <2>2 DEF GetTableUuid
  <1>6. CASE Upload(s)
    <2>1. /\ ses'[s].tab = ses[s].tab /\ ses'[s].uuid = ses[s].uuid /\ ses'[s].st = ses[s].st
      BY <1>1, <1>6 DEF Upload, SesFields
    <2>2. QED
      BY <1>2, <1>6, <2>1 DEF Upload, At, LinkOK
  <1>7. CASE Commit(s)
    <2>1. ASSUME NEW v, ses' = [ses EXCEPT ![s].pc = "last_version", ![s].base = v]
          PROVE  /\ ses'[s].tab = ses[s].tab /\ ses'[s].uuid = ses[s].uuid /\ ses'[s].st = ses[s].st
      BY <1>1, <2>1 DEF SesFields
    <2>2. CASE \E ok : End(s, ok)
      BY <1>1, <2>2, EndIdle
    <2>3. ses[s].pc = "commit"
      BY <1>7 DEF Commit, At
    <2>4. \/ \E ok : End(s, ok)
          \/ \E v : ses' = [ses EXCEPT ![s].pc = "last_version", ![s].base = v]
      BY <1>7 DEF Commit
    <2>5. QED
      BY <1>2, <2>1, <2>2, <2>3, <2>4 DEF LinkOK
  <1>8. CASE LoadTable(s) \/ ExecTruncate(s)
    <2>1. ses[s].st.op \notin {"update", "delete"}
      BY <1>2, <1>8 DEF LoadTable, ExecTruncate, At, CtlOK, Op, Inserts
    <2>2. CASE \E ok : End(s, ok)
      BY <1>1, <2>2, EndIdle
    <2>3. ASSUME NEW b, ses' = [ses EXCEPT ![s].pc = "commit", ![s].base = b]
          PROVE  ses'[s].st = ses[s].st
      BY <1>1, <2>3 DEF SesFields
    <2>4. ASSUME CanLoad(s), NEW hit, NEW pc, LoadedWith(s, hit, pc)
          PROVE  ses'[s].st = ses[s].st
      BY <1>1, <2>4, LoadedFields DEF LoadedFrom
    <2>5. CASE LoadTable(s)
      BY <2>1, <2>2, <2>3, <2>5 DEF LoadTable
    <2>6. CASE ExecTruncate(s)
      BY <2>1, <2>2, <2>4, <2>6 DEF ExecTruncate, LoadError
    <2>7. QED
      BY <1>8, <2>5, <2>6
  <1>9. QED
    BY <1>1, <1>3, <1>4, <1>5, <1>6, <1>7, <1>8 DEF Arrival

LEMMA LinksStep ==
    ASSUME CatInv, LinksOK, Stable, [Next]_vars
    PROVE  LinksOK'
  <1>1. CASE UNCHANGED vars
    BY <1>1 DEF LinksOK, LinkOK, Listed, vars
  <1>2. ASSUME NEW s \in Sessions, Acts(s)
        PROVE  LinksOK'
    <2>1. db.tables \subseteq db'.tables /\ Arrival(s, ses'[s].pc) /\ Others(s)
      BY <1>2, DbGrows, Arrives DEF CatInv
    <2>2. ASSUME NEW r \in Sessions \ {s}
          PROVE  LinkOK(ses[r])'
      <3>1. PICK x : x = ses[r]
        OBVIOUS
      <3>2. LinkOK(x)'
        BY <2>1, <3>1, LinkKept DEF LinksOK
      <3>3. QED
        BY <2>1, <3>1, <3>2 DEF Others
    <2>3. ASSUME ses'[s].pc = "register", NEW n \in DOMAIN ses'[s].snap.tables
          PROVE  Listed(n, ses[s].snap.tables[n].uuid)'
      <3>1. BuildCatalog(s)
        BY <2>1, <2>3 DEF Arrival
      <3>2. PICK u : u = ses'[s].snap.tables[n].uuid
        OBVIOUS
      <3>3. Listed(n, u)
        BY <2>3, <3>1, <3>2, SnapLinks
      <3>4. QED
        BY <2>1, <3>2, <3>3, ListedKept
    <2>4. LinkOK(ses[s])'
      BY <1>2, <2>3, LinkCreate, LinkDir, LinkDelete, LinkWrite DEF LinkOK
    <2>5. QED
      BY <1>2, <2>2, <2>4, MemLinks DEF LinksOK
  <1>3. QED
    BY <1>1, <1>2, NextActs

LEMMA Links == ASSUME AtomicRename PROVE Spec => [](Stable => LinksOK)
  <1>1. Init => (Stable => LinksOK)
    BY DEF Init, LinksOK, LinkOK, Idle, NoMap
  <1>2. CatInv /\ (Stable => LinksOK) /\ [Next]_vars => (Stable => LinksOK)'
    <2>1. ASSUME CatInv, [Next]_vars
          PROVE  Stable' <=> Stable
      BY <2>1, StoreStep, WorkKept DEF StoreGoal, Grow, CatInv, Stable, Asks
    <2>2. QED
      BY <2>1, LinksStep
  <1>3. QED
    BY <1>1, <1>2, CatInvariance, PTL DEF Spec

----------------------------------------------------------------------------
(* The files of a table are there                                          *)

\* An UPDATE or DELETE looks the directory of its new files up on its own: in
\* these workloads it may not be that of the table it has loaded.
Retargets == (Asks("update") \/ Asks("delete")) /\ ~Stable

\* A file that is staged is in the directory of its table.
Home(s) == ses[s].tab \notin purged => Staged(ses[s]) \subseteq objs[ses[s].tab]

FilesOK ==
    /\ \A s \in Sessions : Home(s)
    /\ \A u \in DOMAIN log : u \notin purged /\ Loadable(u) => Active(u, Latest(u)) \subseteq objs[u]

\* Only VACUUM deletes files of a table that is not dropped, and only those
\* that the table has removed.
Vacuums(s, u) ==
    /\ Vacuum(s) /\ u = ses[s].tab
    /\ \A f \in objs[u] : f \in objs'[u] \/ \E w \in DOMAIN log[u] : f \in log[u][w].rem

LEMMA ObjsMove ==
    ASSUME AtomicRename, Inv, [Next]_vars, NEW u \in DOMAIN log, u \notin purged'
    PROVE  objs[u] \subseteq objs'[u] \/ \E s \in Sessions : Vacuums(s, u)
  <1>1. DOMAIN objs = DOMAIN log /\ objs \in Seq(SUBSET Nat)
    BY DEF Inv, StoreShape
  <1>2. CASE UNCHANGED <<storeVars, work>>
    BY <1>2 DEF storeVars
  <1>3. ASSUME NEW s \in Sessions, CreateDelta(s) \/ ConvertDelta(s) \/ Commit(s)
        PROVE  objs[u] \subseteq objs'[u]
    <2>1. {} \in SUBSET Nat
      OBVIOUS
    <2>2. CASE objs' = Append(objs, {})
      BY <1>1, <2>1, <2>2, SeqAppend
    <2>3. QED
      BY <1>3, <2>2 DEF CreateDelta, ConvertDelta, Commit
  <1>4. ASSUME NEW s \in Sessions, Upload(s)
        PROVE  objs[u] \subseteq objs'[u]
    BY <1>1, <1>4 DEF Upload
  <1>5. ASSUME NEW s \in Sessions, Purge(s)
        PROVE  objs[u] \subseteq objs'[u]
    BY <1>1, <1>5 DEF Purge
  <1>6. ASSUME NEW s \in Sessions, PurgeFails(s)
        PROVE  objs[u] \subseteq objs'[u]
    <2>1. PICK x : x = ses[s].uuid
      OBVIOUS
    <2>2. PICK kept : objs' = [objs EXCEPT ![x] = kept]
      BY <1>6, <2>1 DEF PurgeFails
    <2>3. u # x
      BY <1>6, <2>1 DEF PurgeFails
    <2>4. QED
      BY <1>1, <2>2, <2>3
  <1>7. ASSUME NEW s \in Sessions, Vacuum(s)
        PROVE  objs[u] \subseteq objs'[u] \/ Vacuums(s, u)
    <2>1. CASE UNCHANGED objs
      BY <2>1
    <2>2. PICK x, dead : x = ses[s].tab /\ dead = Tombstones(x, ses[s].base)
      OBVIOUS
    <2>3. CASE objs' = [objs EXCEPT ![x] = objs[x] \ dead]
      <3>1. CASE u # x
        BY <1>1, <2>3, <3>1
      <3>2. CASE u = x
        <4>1. objs'[u] = objs[u] \ dead
          BY <1>1, <2>3, <3>2
        <4>2. \A f \in dead : \E w \in DOMAIN log[u] : f \in log[u][w].rem
          BY <2>2, <3>2 DEF Tombstones
        <4>3. QED
          BY <1>7, <2>2, <3>2, <4>1, <4>2 DEF Vacuums
      <3>3. QED
        BY <3>1, <3>2
    <2>4. QED
      BY <1>7, <2>1, <2>2, <2>3 DEF Vacuum
  <1>8. QED
    BY <1>2, <1>3, <1>4, <1>5, <1>6, <1>7, StoreActions DEF StoreAction

\* A file of a directory that a step does not drop stays there, unless the
\* table has removed it.
LEMMA FileStays ==
    ASSUME AtomicRename, Inv, [Next]_vars, NEW u \in DOMAIN log, u \notin purged', NEW f \in objs[u],
           Alive(u) => \A w \in DOMAIN log[u] : f \notin log[u][w].rem
    PROVE  f \in objs'[u]
  <1>1. ASSUME NEW s \in Sessions, Vacuums(s, u)
        PROVE  Alive(u)
    <2>1. At_Version(u, ses[s].base)
      BY <1>1 DEF Vacuums, Vacuum, At, Inv, SesOK
    <2>2. u \notin purged
      BY StoreStep DEF StoreGoal, Grow
    <2>3. QED
      BY <2>1, <2>2 DEF At_Version, Dir, Alive
  <1>2. QED
    BY <1>1, ObjsMove DEF Vacuums

\* A session that has staged files keeps its table; a new file is written to
\* the directory of the table.
StageHome(s) ==
    \/ Staged(ses'[s]) = {}
    \/ Staged(ses'[s]) = Staged(ses[s]) /\ ses'[s].tab = ses[s].tab /\ Dir(ses[s].tab)
    \/ \E f : /\ Staged(ses'[s]) = {f} /\ ses'[s].tab = ses[s].tab /\ Dir(ses[s].tab)
              /\ objs'[ses[s].tab] = objs[ses[s].tab] \cup {f}

LEMMA StageHomeStep ==
    ASSUME CatInv, ~Retargets, Stable => LinksOK, NEW s \in Sessions, Acts(s)
    PROVE  StageHome(s)
  <1>1. /\ Inv /\ Arrival(s, ses'[s].pc) /\ DOMAIN ses = Sessions /\ DOMAIN ses[s] = SesFields
        /\ SesOK(ses[s]) /\ CtlOK(ses[s].pc, ses[s].st.op)
    BY Arrives DEF CatInv, Inv, SesShape
  <1>2. CASE ses'[s].pc \notin {"load", "commit"}
    BY <1>2 DEF StageHome, Staged
  <1>3. CASE Upload(s)
    <2>1. ses[s].pc = "upload" /\ Dir(ses[s].uuid)
      BY <1>1, <1>3 DEF Upload, At, SesOK
    <2>2. ses[s].tab = ses[s].uuid
      <3>1. CASE ses[s].st.op \in Inserts
        BY <1>1, <2>1, <3>1 DEF SesOK
      <3>2. CASE ses[s].st.op \in {"update", "delete"}
        <4>1. LinksOK
          BY <1>1, <2>1, <3>2, AsksOp DEF Retargets
        <4>2. QED
          BY <2>1, <3>2, <4>1 DEF LinksOK, LinkOK
      <3>3. QED
        BY <1>1, <2>1, <3>1, <3>2 DEF CtlOK
    <2>3. PICK f, u : f = Len(rows) + 1 /\ u = ses[s].uuid
      OBVIOUS
    <2>4. objs' = [objs EXCEPT ![u] = @ \cup {f}] /\ u \in DOMAIN objs
      BY <1>1, <1>3, <2>1, <2>3 DEF Upload, Dir, Inv, StoreShape
    <2>5. ses'[s].adds = {f} /\ ses'[s].tab = ses[s].tab /\ ses'[s].pc \in {"load", "commit"}
      BY <1>1, <1>3, <2>3 DEF Upload, SesFields
    <2>6. Staged(ses'[s]) = {f} /\ objs'[u] = objs[u] \cup {f}
      BY <2>4, <2>5 DEF Staged
    <2>7. QED
      BY <2>1, <2>2, <2>3, <2>5, <2>6 DEF StageHome
  <1>4. CASE LoadTable(s)
    <2>1. CASE End(s, FALSE)
      BY <1>1, <1>2, <2>1, EndIdle
    <2>2. ASSUME NEW b, ses' = [ses EXCEPT ![s].pc = "commit", ![s].base = b]
          PROVE  ses'[s].pc = "commit" /\ ses'[s].adds = ses[s].adds /\ ses'[s].tab = ses[s].tab
      BY <1>1, <2>2 DEF SesFields
    <2>3. ses[s].pc = "load" /\ Dir(ses[s].tab)
      BY <1>1, <1>4 DEF LoadTable, At, SesOK, CtlOK
    <2>4. QED
      BY <1>4, <2>1, <2>2, <2>3 DEF LoadTable, StageHome, Staged
  <1>5. CASE TableDir(s) \/ ExecDelete(s) \/ ExecTruncate(s)
    <2>1. ses[s].adds = {} /\ ~ Upload(s) /\ Staged(ses[s]) = {}
      BY <1>1, <1>5 DEF TableDir, ExecDelete, ExecTruncate, At, SesOK, Early, Upload, Staged
    <2>2. UNCHANGED ses \/ \E r \in Sessions : StageMove(r)
      BY <1>1, SessionMoves DEF Acts, Next, vars
    <2>3. QED
      BY <2>1, <2>2 DEF StageMove, StageHome, Staged
  <1>6. QED
    BY <1>1, <1>2, <1>3, <1>4, <1>5 DEF Arrival

LEMMA StagedDir ==
    ASSUME Inv, NEW s \in Sessions, Staged(ses[s]) # {}
    PROVE  Dir(ses[s].tab)
  <1>1. ses[s].pc \in {"load", "commit"} /\ SesOK(ses[s]) /\ CtlOK(ses[s].pc, ses[s].st.op)
    BY DEF Staged, Inv, SesShape
  <1>2. QED
    BY <1>1 DEF SesOK, CtlOK, Loaded, At_Version

\* A staged file stays in the directory of its table.
LEMMA StagedStays ==
    ASSUME AtomicRename, Inv, StageOK, [Next]_vars, NEW s \in Sessions, Home(s),
           ses[s].tab \notin purged', NEW f \in Staged(ses[s])
    PROVE  f \in objs'[ses[s].tab]
  <1>1. PICK u : u = ses[s].tab
    OBVIOUS
  <1>2. Dir(u) /\ u \notin purged
    BY <1>1, StagedDir, StoreStep DEF StoreGoal, Grow
  <1>3. f \in objs[u] /\ Fresh(f) /\ u \in DOMAIN log
    BY <1>1, <1>2 DEF Home, StageOK, Dir
  <1>4. QED
    BY <1>1, <1>2, <1>3, FileStays DEF Fresh

LEMMA HomeStep ==
    ASSUME AtomicRename, CatInv, StageOK, FilesOK, ~Retargets, Stable => LinksOK, [Next]_vars, NEW r \in Sessions
    PROVE  Home(r)'
  <1>1. Inv /\ Home(r)
    BY DEF CatInv, FilesOK
  <1>2. CASE ses'[r] = ses[r]
    BY <1>1, <1>2, StagedStays DEF Home
  <1>3. CASE Acts(r)
    <2>1. StageHome(r)
      BY <1>3, StageHomeStep
    <2>2. CASE Staged(ses'[r]) = Staged(ses[r]) /\ ses'[r].tab = ses[r].tab
      BY <1>1, <2>2, StagedStays DEF Home
    <2>3. CASE Staged(ses'[r]) = {}
      BY <2>3 DEF Home
    <2>4. ASSUME NEW f, Staged(ses'[r]) = {f}, ses'[r].tab = ses[r].tab,
                 objs'[ses[r].tab] = objs[ses[r].tab] \cup {f}
          PROVE  Home(r)'
      BY <2>4 DEF Home
    <2>5. QED
      BY <2>1, <2>2, <2>3, <2>4 DEF StageHome
  <1>4. QED
    <2>1. UNCHANGED vars \/ \E s \in Sessions : Acts(s)
      BY NextActs
    <2>2. ASSUME NEW s \in Sessions, Acts(s), s # r
          PROVE  ses'[r] = ses[r]
      BY <1>1, <2>2, Arrives DEF Others
    <2>3. QED
      BY <1>2, <1>3, <2>1, <2>2 DEF vars

LEMMA FilesStep ==
    ASSUME AtomicRename, Inv, StageOK, FilesOK, [Next]_vars,
           NEW u \in DOMAIN log', u \notin purged', Loadable(u)'
    PROVE  (Active(u, Latest(u)) \subseteq objs[u])'
  <1>1. Alive(u)' /\ u \notin purged
    BY StoreStep DEF Alive, StoreGoal, Grow
  <1>2. CASE u \in DOMAIN log /\ Alive(u)
    <2>1. PICK F : F = Active(u, Latest(u))
      OBVIOUS
    <2>2. F \subseteq objs[u] /\ Loadable(u)
      BY <1>1, <1>2, <2>1 DEF FilesOK, Alive
    <2>3. ASSUME NEW f \in F
          PROVE  f \in objs'[u]
      <3>1. \A w \in DOMAIN log[u] : w <= Latest(u)
        BY <1>2, <2>2, LatestThere DEF Inv
      <3>2. \A w \in DOMAIN log[u] : f \notin log[u][w].rem
        BY <2>1, <3>1, ActiveIs
      <3>3. QED
        BY <1>2, <2>2, <3>2, FileStays
    <2>4. CASE Active(u, Latest(u))' = F
      BY <2>3, <2>4
    <2>5. ASSUME log' # log, NEW s \in Sessions, Commit(s), u = ses[s].tab
          PROVE  (Active(u, Latest(u)) \subseteq objs[u])'
      <3>1. Active(u, Latest(u))' = (F \ ses[s].rems) \cup ses[s].adds
        BY <1>2, <2>1, <2>5, CommitFiles
      <3>2. UNCHANGED objs /\ Staged(ses[s]) = ses[s].adds
        BY <2>5 DEF Commit, At, Staged
      <3>3. ses[s].adds \subseteq objs[u]
        BY <1>1, <2>5, <3>2 DEF FilesOK, Home
      <3>4. QED
        BY <2>2, <3>1, <3>2, <3>3
    <2>6. QED
      BY <1>1, <1>2, <2>1, <2>4, <2>5, LastMove
  <1>3. CASE Created(u)
    <2>1. \A f : f \notin Active(u, Latest(u))'
      BY <1>3, ActiveIsNext DEF Created
    <2>2. QED
      BY <2>1
  <1>4. CASE Converted(u)
    <2>1. \A f : f \in Active(u, Latest(u))' => f \in objs'[u]
      BY <1>4, ActiveIsNext DEF Converted
    <2>2. QED
      BY <2>1
  <1>5. QED
    BY <1>1, <1>2, <1>3, <1>4, LogStep

LEMMA FilesInit ==
    ASSUME Init
    PROVE  FilesOK
  <1>1. PICK N, i : N = SetupDirs /\ i = Workload.imports
    OBVIOUS
  <1>2. N \in Nat /\ i \in {0, 1}
    BY <1>1, SetupIs
  <1>3. /\ log = [u \in 1 .. N |-> IF u <= i THEN <<>>
                     ELSE WithCommit(WithCommit(<<>>, 0, {}, {}), 1, {u}, {})]
        /\ objs = [u \in 1 .. N |-> {u}] /\ ses = [s \in Sessions |-> Idle]
    BY <1>1 DEF Init
  <1>4. ASSUME NEW u \in DOMAIN log, Loadable(u), NEW f \in Active(u, Latest(u))
        PROVE  f \in objs[u]
    <2>1. u \in 1 .. N
      BY <1>3, <1>4
    <2>2. CASE u <= i
      BY <1>3, <1>4, <2>1, <2>2, EmptyLog DEF Loadable
    <2>3. CASE ~ (u <= i)
      <3>1. log[u] = WithCommit(WithCommit(<<>>, 0, {}, {}), 1, {u}, {}) /\ u \in Nat
        BY <1>2, <1>3, <2>1, <2>3
      <3>2. DOMAIN log[u] = 0 .. 1 /\ log[u][0].add = {} /\ log[u][1].add = {u}
        BY <3>1, SetupLog
      <3>3. PICK w \in DOMAIN log[u] : f \in log[u][w].add
        BY <1>4, ActiveIs
      <3>4. w = 0 \/ w = 1
        BY <3>2, <3>3
      <3>5. QED
        BY <1>3, <2>1, <3>2, <3>3, <3>4
    <2>4. QED
      BY <2>2, <2>3
  <1>5. \A s \in Sessions : Staged(ses[s]) = {}
    BY <1>3 DEF Staged, Idle
  <1>6. QED
    BY <1>4, <1>5 DEF FilesOK, Home

\* Every file that the last version of a table refers to is in the directory of
\* the table, whatever uploads, commits and VACUUMs (without retention, as
\* Seafowl runs them) are under way.  The exception is an UPDATE or DELETE that
\* meets a RENAME or a DROP: it may write its file to another directory than
\* that of the table it commits to (TableDir).
THEOREM FilesAreThere == ASSUME AtomicRename PROVE Spec => [](~Retargets => FilesPresent)
  <1>1. Init => (~Retargets => FilesOK)
    BY FilesInit
  <1>2. CatInv /\ StageOK /\ (Stable => LinksOK) /\ (~Retargets => FilesOK) /\ [Next]_vars
          => (~Retargets => FilesOK)'
    <2>1. ASSUME CatInv, [Next]_vars
          PROVE  Retargets' <=> Retargets
      BY <2>1, StoreStep, WorkKept DEF StoreGoal, Grow, CatInv, Retargets, Stable, Asks
    <2>2. ASSUME CatInv, StageOK, Stable => LinksOK, FilesOK, ~Retargets, [Next]_vars
          PROVE  FilesOK'
      BY <2>2, HomeStep, FilesStep DEF FilesOK, CatInv
    <2>3. QED
      BY <2>1, <2>2
  <1>3. FilesOK => FilesPresent
    BY DEF FilesOK, FilesPresent
  <1>4. QED
    BY <1>1, <1>2, <1>3, CatInvariance, Staging, Links, PTL DEF Spec

----------------------------------------------------------------------------
(* What is left to do                                                      *)

\* Statements and faults that are still to come.
EnvOK == budget \in 0 .. Workload.statements /\ faults \in 0 .. Workload.faults

\* A statement begins, or a fault happens, while there are some left.
EnvMove ==
    /\ budget' = budget \/ (budget > 0 /\ budget' = budget - 1)
    /\ faults' = faults \/ (faults > 0 /\ faults' = faults - 1)

LEMMA ReadFaults ==
    ASSUME NEW s, Read(s), faults \in Nat
    PROVE  EnvMove
  <1>1. PICK failing \in {0, 1} \cap 0 .. faults : faults' = faults - failing
    BY DEF Read
  <1>2. faults' = faults \/ (faults > 0 /\ faults' = faults - 1)
    BY <1>1
  <1>3. QED
    BY <1>2 DEF Read, EnvMove

LEMMA EnvMoves ==
    ASSUME NEW s, Acts(s), faults \in Nat
    PROVE  EnvMove
  <1>1. ASSUME UNCHANGED envVars
        PROVE  EnvMove
    BY <1>1 DEF EnvMove, envVars
  <1>2. ASSUME NEW r, Begin(s, r)
        PROVE  EnvMove
    BY <1>2 DEF Begin, EnvMove
  <1>3. CASE Query(s)
    BY <1>1, <1>2, <1>3, ReadFaults DEF Query, BuildCatalog, RegisterCatalog, Plan, NotModified,
                ExecuteQuery, RewriteTimeTravel, PlanTimeTravel
  <1>4. CASE Dml(s)
    BY <1>1, <1>4 DEF Dml, GetTableUuid, Upload, LoadTable, ExecUpdate, ExecDelete,
                ExecTruncate, TableDir, Commit, SelectLastVersion, InsertNewVersion,
                CopyColumns, ExecVacuum, Vacuum, TrimVersions
  <1>5. CASE PurgeFails(s) \/ Fail(s)
    BY <1>5 DEF PurgeFails, Fail, EnvMove
  <1>6. CASE Ddl(s)
    BY <1>1, <1>5, <1>6 DEF Ddl, ExecCreate, CreateDelta, ConvertDelta, InsertTableRow, InsertVersionRow,
                InsertColumnRows, RegisterTable, FileToTable, ExecDrop, Purge,
                DropGetTable, DropDeleteRow, ExecDropSchema, DropNextTable, DropNextVersion, DropSchemaRow,
                ExecCreateSchema, RenameGetTable, RenameRow
  <1>7. QED
    BY <1>3, <1>4, <1>5, <1>6 DEF Acts

LEMMA WorkloadIs ==
    ASSUME work \in DOMAIN Workloads
    PROVE  Workload.statements \in Nat /\ Workload.faults \in Nat
  BY StatementsAssumption DEF Workload, IsWorkload

LEMMA EnvStep ==
    ASSUME AtomicRename, Inv, EnvOK, [Next]_vars
    PROVE  EnvOK'
  <1>1. Workload.statements \in Nat /\ Workload.faults \in Nat /\ Workload' = Workload
    BY WorkloadIs, StoreStep, WorkKept DEF Inv, StoreShape, StoreGoal, Grow
  <1>2. EnvMove \/ UNCHANGED <<budget, faults>>
    BY <1>1, NextActs, EnvMoves DEF EnvOK, vars
  <1>3. QED
    BY <1>1, <1>2 DEF EnvOK, EnvMove

LEMMA Envs == ASSUME AtomicRename PROVE Spec => []EnvOK
  <1>1. Init => EnvOK
    BY WorkloadIs DEF Init, EnvOK
  <1>2. QED
    BY <1>1, EnvStep, Invariance, PTL DEF Spec

----------------------------------------------------------------------------
(* A directory has one table                                               *)

\* A row of the database was there before the step, under a name that only a
\* RENAME changes,
Kept(r) == \E q \in db.tables : q.id = r.id /\ q.uuid = r.uuid /\ (Asks("rename") \/ q = r)

\* or it is the row of a table that session s creates.
Registered(s, r) ==
    /\ InsertTableRow(s)
    /\ r.uuid = ses[s].uuid /\ r.name = ses[s].st.t /\ r.id = ses'[s].row
    /\ ses'[s].pc = "version_row" /\ ses'[s].uuid = ses[s].uuid /\ ses'[s].st = ses[s].st

LEMMA Registration ==
    ASSUME Inv, NEW s \in Sessions, InsertTableRow(s), NEW r \in db'.tables
    PROVE  r \in db.tables \/ Registered(s, r)
  <1>1. PICK t, u, j : t = ses[s].st.t /\ u = ses[s].uuid /\ j = NextId(db.tables)
    OBVIOUS
  <1>2. CASE UNCHANGED db
    BY <1>2
  <1>3. CASE db' = create_table_row(db, t, u) /\ ses' = [ses EXCEPT ![s].pc = "version_row", ![s].row = j]
    <2>1. PICK i \in Nat : AddedTable(db, db', [id |-> i, name |-> t, uuid |-> u]) /\ i = j
      BY <1>1, <1>3, TableAdded
    <2>2. PICK x : x = [id |-> i, name |-> t, uuid |-> u]
      OBVIOUS
    <2>3. x.id = j /\ x.name = t /\ x.uuid = u /\ db'.tables = db.tables \cup {x}
      BY <2>1, <2>2 DEF AddedTable
    <2>4. ses'[s].pc = "version_row" /\ ses'[s].row = j /\ ses'[s].uuid = u /\ ses'[s].st = ses[s].st
      BY <1>1, <1>3 DEF Inv, SesShape, SesFields
    <2>5. QED
      BY <1>1, <2>3, <2>4 DEF Registered
  <1>4. QED
    BY <1>1, <1>2, <1>3 DEF InsertTableRow

\* What a step does to the rows of tables.
LEMMA TablesMove ==
    ASSUME CatInv, NEW s \in Sessions, Acts(s), NEW r \in db'.tables
    PROVE  Kept(r) \/ Registered(s, r)
  <1>1. Inv /\ KeysOK(db)
    BY DEF CatInv
  <1>2. ASSUME r \in db.tables
        PROVE  Kept(r)
    BY <1>2 DEF Kept
  <1>3. CASE InsertTableRow(s)
    BY <1>1, <1>2, <1>3, Registration
  <1>4. CASE InsertVersionRow(s) \/ InsertNewVersion(s)
    <2>1. db'.tables = db.tables
      BY <1>1, <1>4 DEF InsertVersionRow, InsertNewVersion, create_table_version, insert_version, DbShape, Inv
    <2>2. QED
      BY <1>2, <2>1
  <1>5. CASE InsertColumnRows(s) \/ CopyColumns(s)
    BY <1>1, <1>2, <1>5, ColumnsAdded DEF InsertColumnRows, CopyColumns, copy_columns, FewerVersions
  <1>6. CASE TrimVersions(s)
    BY <1>1, <1>2, <1>6, VersionsTrimmed DEF TrimVersions, FewerVersions
  <1>7. CASE ExecCreateSchema(s) \/ FileToTable(s)
    BY <1>1, <1>2, <1>7, SchemaCreated DEF ExecCreateSchema, FileToTable
  <1>8. CASE DropDeleteRow(s) \/ DropSchemaRow(s)
    BY <1>1, <1>2, <1>8, TableDeleted, SchemaDeleted DEF DropDeleteRow, DropSchemaRow, DeletedTables
  <1>9. CASE RenameRow(s)
    <2>1. Asks("rename")
      BY <1>1, <1>9, AsksOp DEF RenameRow, At, CatInv, RenameOK
    <2>2. UNCHANGED db \/ \E q \in db.tables : q.id = r.id /\ q.uuid = r.uuid
      BY <1>1, <1>9, TableRenamed DEF RenameRow
    <2>3. QED
      BY <1>2, <2>1, <2>2 DEF Kept
  <1>10. QED
    BY <1>2, <1>3, <1>4, <1>5, <1>6, <1>7, <1>8, <1>9, DbActions DEF DbAction

\* The directories that a session may give to a table, list or delete,
Holds(x, u) ==
    \/ x.pc \in {"table_row", "version_row", "column_rows", "register_table", "purge"} /\ x.uuid = u
    \/ x.pc = "register" /\ \E n \in DOMAIN x.snap.tables : x.snap.tables[n].uuid = u
    \/ x.pc = "register" /\ \E e \in x.snap.versioned : e[2] = u

\* and those that are known to all.
Shown(u) ==
    \/ \E r \in db.tables : r.uuid = u
    \/ \E n \in DOMAIN mem.tables : mem.tables[n].uuid = u
    \/ \E x \in mem.versioned : x[2] = u
    \/ u \in purged

\* No two tables have one directory, and one that is about to get its table is
\* known to nobody else.
DirsOK ==
    /\ \A r, q \in db.tables : r.uuid = q.uuid => r = q
    /\ \A s \in Sessions : ses[s].pc = "table_row" =>
         /\ ~Shown(ses[s].uuid)
         /\ \A q \in Sessions \ {s} : ~Holds(ses[q], ses[s].uuid)

LEMMA HeldDir ==
    ASSUME Inv, NEW s \in Sessions, NEW u, Holds(ses[s], u)
    PROVE  Dir(u)
  BY DEF Inv, Holds, SesOK, Creating, MapOK, EntryOK

LEMMA ShownDir ==
    ASSUME Inv, NEW u, Shown(u)
    PROVE  Dir(u) \/ u \in purged
  BY DEF Inv, Shown, DbOK, MapOK, EntryOK

\* Only DROP deletes directories.
LEMMA PurgedMoves ==
    ASSUME NEW s, Acts(s)
    PROVE  purged' = purged \/ Purge(s) \/ PurgeFails(s)
  <1>1. CASE Query(s)
    BY <1>1 DEF storeVars, Query, Begin, BuildCatalog, RegisterCatalog, Plan, NotModified,
                ExecuteQuery, Read, RewriteTimeTravel, PlanTimeTravel
  <1>2. CASE Dml(s)
    BY <1>2 DEF storeVars, Dml, GetTableUuid, Upload, LoadTable, ExecUpdate, ExecDelete,
                ExecTruncate, TableDir, Commit, SelectLastVersion, InsertNewVersion,
                CopyColumns, ExecVacuum, Vacuum, TrimVersions
  <1>3. CASE Ddl(s)
    BY <1>3 DEF storeVars, Ddl, ExecCreate, CreateDelta, ConvertDelta, InsertTableRow, InsertVersionRow,
                InsertColumnRows, RegisterTable, FileToTable, ExecDrop,
                DropGetTable, DropDeleteRow, ExecDropSchema, DropNextTable, DropNextVersion, DropSchemaRow,
                ExecCreateSchema, RenameGetTable, RenameRow
  <1>4. QED
    BY <1>1, <1>2, <1>3 DEF Acts, Fail, storeVars

\* What becomes known was known to the session that acts.
LEMMA ShownMoves ==
    ASSUME CatInv, NEW s \in Sessions, Acts(s), NEW u, Shown(u)'
    PROVE  Shown(u) \/ Holds(ses[s], u)
  <1>1. Inv
    BY DEF CatInv
  <1>2. ASSUME NEW r \in db'.tables, r.uuid = u
        PROVE  Shown(u) \/ Holds(ses[s], u)
    <2>1. CASE Kept(r)
      BY <1>2, <2>1 DEF Kept, Shown
    <2>2. CASE Registered(s, r)
      BY <1>2, <2>2 DEF Registered, InsertTableRow, At, Holds
    <2>3. QED
      BY <1>2, <2>1, <2>2, TablesMove
  <1>3. ASSUME NEW n \in DOMAIN mem'.tables, mem'.tables[n].uuid = u
        PROVE  Shown(u) \/ Holds(ses[s], u)
    <2>1. CASE LookedUp(mem')
      BY <1>3, <2>1 DEF LookedUp, Shown
    <2>2. CASE RegisterCatalog(s)
      BY <1>3, <2>2 DEF RegisterCatalog, At, Holds
    <2>3. CASE RegisterTable(s)
      <3>1. PICK t, w, m : t = ses[s].st.t /\ w = ses[s].uuid /\ m = mem.tables
        OBVIOUS
      <3>2. CASE UNCHANGED mem
        BY <1>3, <3>2 DEF Shown
      <3>3. CASE mem' = [mem EXCEPT !.tables = [i \in DOMAIN m \cup {t} |->
                            IF i = t THEN [uuid |-> w, version |-> 0] ELSE m[i]]]
        <4>1. mem'.tables = [i \in DOMAIN m \cup {t} |->
                            IF i = t THEN [uuid |-> w, version |-> 0] ELSE m[i]]
          BY <1>1, <3>3 DEF Inv, MapOK
        <4>2. u = w \/ (n \in DOMAIN m /\ u = m[n].uuid)
          BY <1>3, <4>1
        <4>3. ses[s].pc = "register_table"
          BY <2>3 DEF RegisterTable, At
        <4>4. QED
          BY <3>1, <4>2, <4>3 DEF Shown, Holds
      <3>4. QED
        BY <2>3, <3>1, <3>2, <3>3 DEF RegisterTable
    <2>4. QED
      BY <1>1, <1>3, <2>1, <2>2, <2>3, MemMoves
  <1>4. ASSUME u \in purged'
        PROVE  Shown(u) \/ Holds(ses[s], u)
    <2>1. purged' = purged \/ Purge(s) \/ PurgeFails(s)
      BY PurgedMoves
    <2>2. QED
      BY <1>4, <2>1 DEF Purge, PurgeFails, At, Shown, Holds
  <1>5. ASSUME NEW x \in mem'.versioned, x[2] = u
        PROVE  Shown(u) \/ Holds(ses[s], u)
    <2>1. CASE LookedUp(mem')
      BY <1>5, <2>1 DEF LookedUp, Shown
    <2>2. CASE RegisterCatalog(s)
      BY <1>5, <2>2 DEF RegisterCatalog, At, Holds
    <2>3. CASE RegisterTable(s)
      <3>1. mem'.versioned = mem.versioned
        BY <1>1, <2>3 DEF RegisterTable, Inv, MapOK
      <3>2. QED
        BY <1>5, <3>1 DEF Shown
    <2>4. QED
      BY <1>1, <2>1, <2>2, <2>3, MemMoves
  <1>6. QED
    BY <1>2, <1>3, <1>4, <1>5 DEF Shown

\* The rows that a snapshot of the database lists are in the database.
LEMMA SnapShown ==
    ASSUME CatInv, NEW s \in Sessions, BuildCatalog(s), NEW u, Holds(ses'[s], u)
    PROVE  Shown(u)
  <1>1. PICK x : x = ses'[s]
    OBVIOUS
  <1>2. x.pc = "register" /\ x.snap.versioned = {}
    BY <1>1 DEF BuildCatalog, CatInv, Inv, SesShape, SesFields
  <1>3. PICK n \in DOMAIN x.snap.tables : x.snap.tables[n].uuid = u
    BY <1>1, <1>2 DEF Holds
  <1>4. Listed(n, u)
    BY <1>1, <1>3, SnapLinks
  <1>5. QED
    BY <1>4 DEF Listed, Shown

\* A DROP has the name and the directory from the catalog in memory.
LEMMA PurgeFound ==
    ASSUME Inv, NEW s \in Sessions, ExecDrop(s) \/ DropNextTable(s), ses'[s].pc = "purge"
    PROVE  \E n : Found(n) /\ ses'[s].uuid = UuidOf(n) /\ ses'[s].cur = n
  <1>1. DOMAIN ses = Sessions /\ DOMAIN ses[s] = SesFields
    BY DEF Inv, SesShape
  <1>2. ASSUME NEW ok, End(s, ok)
        PROVE  FALSE
    BY <1>2, EndIdle
  <1>3. CASE ExecDrop(s)
    <2>1. ASSUME NEW t, ses' = [ses EXCEPT ![s].pc = "drop_get", ![s].cur = t]
          PROVE  FALSE
      BY <1>1, <2>1 DEF SesFields
    <2>2. ASSUME NEW w, NEW t, ses' = [ses EXCEPT ![s].pc = "purge", ![s].uuid = w, ![s].cur = t]
          PROVE  ses'[s].uuid = w /\ ses'[s].cur = t
      BY <1>1, <2>2 DEF SesFields
    <2>3. PICK t : /\ Found(t)
                   /\ ses' = [ses EXCEPT ![s].pc = "purge", ![s].uuid = UuidOf(t), ![s].cur = t]
      BY <1>2, <1>3, <2>1 DEF ExecDrop
    <2>4. ses'[s].uuid = UuidOf(t) /\ ses'[s].cur = t
      BY <2>2, <2>3
    <2>5. QED
      BY <2>3, <2>4
  <1>4. CASE DropNextTable(s)
    <2>1. ASSUME NEW w, NEW t, NEW L,
                 ses' = [ses EXCEPT ![s].pc = "purge", ![s].uuid = w, ![s].cur = t, ![s].left = L]
          PROVE  ses'[s].uuid = w /\ ses'[s].cur = t
      BY <1>1, <2>1 DEF SesFields
    <2>2. PICK n \in ses[s].left :
             /\ Found(n)
             /\ ses' = [ses EXCEPT ![s].pc = "purge", ![s].uuid = UuidOf(n), ![s].cur = n,
                     ![s].left = @ \ {n}]
      BY <1>2, <1>4 DEF DropNextTable
    <2>3. ses'[s].uuid = UuidOf(n) /\ ses'[s].cur = n
      BY <2>1, <2>2
    <2>4. QED
      BY <2>2, <2>3
  <1>5. QED
    BY <1>3, <1>4

\* The directory of a table at a version is known.
LEMMA PurgeVersioned ==
    ASSUME Inv, NEW s \in Sessions, DropNextVersion(s)
    PROVE  Shown(ses'[s].uuid)
  <1>1. PICK x, u : /\ x \in mem.versioned /\ u = x[2]
                   /\ ses' = [ses EXCEPT ![s].pc = "purge", ![s].uuid = u, ![s].cur = <<>>]
    BY DEF DropNextVersion
  <1>2. ses'[s].uuid = u
    BY <1>1 DEF Inv, SesShape, SesFields
  <1>3. QED
    BY <1>1, <1>2 DEF Shown

\* What a session gets hold of is known, or in a directory that it creates.
LEMMA HoldsMoves ==
    ASSUME CatInv, NEW s \in Sessions, Acts(s), NEW u, Holds(ses'[s], u)
    PROVE  Shown(u) \/ Holds(ses[s], u) \/ ses'[s].pc = "table_row"
  <1>1. /\ Inv /\ DOMAIN ses = Sessions /\ DOMAIN ses[s] = SesFields /\ Arrival(s, ses'[s].pc)
    BY Arrives DEF CatInv, Inv, SesShape
  <1>2. CASE ses'[s].pc = "register"
    BY <1>1, <1>2, SnapShown DEF Arrival
  <1>3. ASSUME NEW pc, Goto(s, pc)
        PROVE  ses'[s].uuid = ses[s].uuid
    BY <1>1, <1>3 DEF Goto, SesFields
  <1>4. ASSUME NEW n, Found(n), ses'[s].pc = "purge", ses'[s].uuid = UuidOf(n)
        PROVE  Shown(u)
    BY <1>4 DEF Holds, Found, UuidOf, Shown
  <1>5. CASE ses'[s].pc = "version_row"
    <2>1. CASE End(s, FALSE)
      BY <1>1, <1>5, <2>1, EndIdle
    <2>2. ASSUME NEW i, ses' = [ses EXCEPT ![s].pc = "version_row", ![s].row = i]
          PROVE  ses'[s].uuid = ses[s].uuid
      BY <1>1, <2>2 DEF SesFields
    <2>3. QED
      BY <1>1, <1>5, <2>1, <2>2 DEF Arrival, InsertTableRow, At, Holds
  <1>6. CASE ses'[s].pc = "column_rows"
    <2>1. CASE End(s, FALSE)
      BY <1>1, <1>6, <2>1, EndIdle
    <2>2. ASSUME NEW i, ses' = [ses EXCEPT ![s].pc = "column_rows", ![s].new = i]
          PROVE  ses'[s].uuid = ses[s].uuid
      BY <1>1, <2>2 DEF SesFields
    <2>3. QED
      BY <1>1, <1>6, <2>1, <2>2 DEF Arrival, InsertVersionRow, At, Holds
  <1>7. CASE ses'[s].pc = "register_table"
    <2>1. CASE End(s, FALSE)
      BY <1>1, <1>7, <2>1, EndIdle
    <2>2. QED
      BY <1>1, <1>3, <1>7, <2>1 DEF Arrival, InsertColumnRows, At, Holds
  <1>8. CASE ses'[s].pc = "purge"
    <2>1. CASE DropNextVersion(s)
      BY <1>1, <1>8, <2>1, PurgeVersioned DEF Holds
    <2>2. QED
      BY <1>1, <1>4, <1>8, <2>1, PurgeFound DEF Arrival
  <1>9. QED
    BY <1>2, <1>5, <1>6, <1>7, <1>8 DEF Holds

\* A directory that gets its first log entry is known to nobody.
NewDir(u) == u \notin purged /\ ~Dir(u)

LEMMA CreatedDir ==
    ASSUME CatInv, ~TakesOver, NEW s \in Sessions, Acts(s), ses'[s].pc = "table_row"
    PROVE  NewDir(ses'[s].uuid) /\ UNCHANGED <<db, mem, purged>>
  <1>1. /\ Inv /\ DOMAIN ses = Sessions /\ DOMAIN ses[s] = SesFields /\ Arrival(s, ses'[s].pc)
        /\ StoreShape /\ StoreOK /\ CtlOK(ses[s].pc, ses[s].st.op)
    BY Arrives DEF CatInv, Inv, SesShape
  <1>2. ASSUME NEW ok, End(s, ok)
        PROVE  FALSE
    BY <1>1, <1>2, EndIdle
  <1>3. ASSUME NEW u, ses' = [ses EXCEPT ![s].pc = "table_row", ![s].uuid = u]
        PROVE  ses'[s].uuid = u
    BY <1>1, <1>3 DEF SesFields
  <1>4. CASE CreateDelta(s)
    <2>1. ses'[s].uuid = Len(log) + 1 /\ UNCHANGED <<db, mem, purged>>
      BY <1>2, <1>3, <1>4 DEF CreateDelta
    <2>2. Len(log) + 1 \notin DOMAIN log
      BY <1>1 DEF StoreShape
    <2>3. QED
      BY <1>1, <2>1, <2>2 DEF NewDir, Dir, StoreOK
  <1>5. CASE ConvertDelta(s)
    <2>1. ses'[s].uuid = 1 /\ ~Loadable(1) /\ UNCHANGED <<db, mem, purged>> /\ ses[s].pc = "convert"
      BY <1>2, <1>3, <1>5 DEF ConvertDelta, At
    <2>2. Asks("convert")
      BY <1>1, <2>1, AsksOp DEF CtlOK
    <2>3. 1 \notin purged
      BY <1>1, <2>2 DEF StoreOK, TakesOver
    <2>4. QED
      BY <2>1, <2>3 DEF NewDir, Dir
  <1>6. QED
    BY <1>1, <1>4, <1>5 DEF Arrival

LEMMA NewDirUnknown ==
    ASSUME Inv, NEW u, NewDir(u)
    PROVE  ~Shown(u) /\ \A q \in Sessions : ~Holds(ses[q], u)
  BY HeldDir, ShownDir DEF NewDir

\* The directory of a table that is about to be registered stays unknown,
LEMMA DirWaits ==
    ASSUME CatInv, DirsOK, ~TakesOver, NEW s \in Sessions, Acts(s), NEW r \in Sessions,
           ses'[r].pc = "table_row"
    PROVE  ~Shown(ses[r].uuid)' /\ \A q \in Sessions \ {r} : ~Holds(ses[q], ses[r].uuid)'
  <1>1. Inv /\ Others(s)
    BY Arrives DEF CatInv
  <1>2. PICK u : u = ses'[r].uuid
    OBVIOUS
  <1>3. CASE r = s
    <2>1. NewDir(u) /\ UNCHANGED <<db, mem, purged>>
      BY <1>2, <1>3, CreatedDir
    <2>2. ~Shown(u) /\ \A q \in Sessions : ~Holds(ses[q], u)
      BY <1>1, <2>1, NewDirUnknown
    <2>3. ~Shown(u)'
      BY <2>1, <2>2 DEF Shown
    <2>4. \A q \in Sessions \ {r} : ~Holds(ses'[q], u)
      BY <1>1, <1>3, <2>2 DEF Others
    <2>5. QED
      BY <1>2, <2>3, <2>4
  <1>4. CASE r # s
    <2>1. ses'[r] = ses[r]
      BY <1>1, <1>4 DEF Others
    <2>2. ~Shown(u) /\ \A q \in Sessions \ {r} : ~Holds(ses[q], u)
      BY <1>2, <2>1 DEF DirsOK
    <2>3. ~Shown(u)'
      BY <1>4, <2>2, ShownMoves
    <2>4. ASSUME Holds(ses'[s], u)
          PROVE  FALSE
      <3>1. ses'[s].pc = "table_row" /\ ses'[s].uuid = u
        BY <1>4, <2>2, <2>4, HoldsMoves DEF Holds
      <3>2. NewDir(u)
        BY <3>1, CreatedDir
      <3>3. Holds(ses[r], u)
        BY <1>2, <2>1 DEF Holds
      <3>4. QED
        BY <1>1, <3>2, <3>3, NewDirUnknown
    <2>5. \A q \in Sessions \ {r} : ~Holds(ses'[q], u)
      BY <1>1, <2>2, <2>4 DEF Others
    <2>6. QED
      BY <1>2, <2>3, <2>5
  <1>5. QED
    BY <1>3, <1>4

\* and tables keep theirs.
LEMMA DirsStep ==
    ASSUME CatInv, KeysOK(db'), DirsOK, ~TakesOver, [Next]_vars
    PROVE  DirsOK'
  <1>1. CASE UNCHANGED vars
    BY <1>1 DEF vars, DirsOK, Shown, Holds
  <1>2. ASSUME NEW s \in Sessions, Acts(s)
        PROVE  DirsOK'
    <2>1. ASSUME NEW r \in db'.tables, NEW q \in db'.tables, r.uuid = q.uuid
          PROVE  r = q
      <3>1. ASSUME NEW x, NEW y, Registered(s, x), Kept(y)
            PROVE  x.uuid # y.uuid
        BY <1>2, <3>1 DEF Registered, Kept, InsertTableRow, At, DirsOK, Shown
      <3>2. CASE Kept(r) /\ Kept(q)
        BY <2>1, <3>2 DEF Kept, DirsOK, KeysOK
      <3>3. CASE Registered(s, r) /\ Registered(s, q)
        BY <2>1, <3>3 DEF Registered, KeysOK
      <3>4. QED
        BY <1>2, <2>1, <3>1, <3>2, <3>3, TablesMove
    <2>2. QED
      BY <1>2, <2>1, DirWaits DEF DirsOK
  <1>3. QED
    BY <1>1, <1>2, NextActs

LEMMA Dirs == ASSUME AtomicRename PROVE Spec => [](~TakesOver => DirsOK)
  <1>1. Init => (~TakesOver => DirsOK)
    BY KeysInit DEF Init, DirsOK, Idle
  <1>2. CatInv /\ CatInv' /\ (~TakesOver => DirsOK) /\ [Next]_vars => (~TakesOver => DirsOK)'
    <2>1. ASSUME CatInv, [Next]_vars
          PROVE  TakesOver' <=> TakesOver
      BY <2>1, StoreStep, WorkKept DEF StoreGoal, Grow, CatInv
    <2>2. QED
      BY <2>1, DirsStep DEF CatInv
  <1>3. QED
    BY <1>1, <1>2, CatInvariance, PTL DEF Spec

\* No two tables of the catalog share an id, a name or a directory, so that a
\* DROP or a commit to one of them does not touch another, and no version is
\* left without its table.  The exception is again a CONVERT that takes over
\* what a failed DROP has left: the row of the dropped table may still be there.
THEOREM KeysAreUnique == ASSUME AtomicRename PROVE Spec => [](~TakesOver => TypeOK)
  <1>1. CatInv /\ EnvOK /\ (~TakesOver => DirsOK) => (~TakesOver => TypeOK)
    <2>1. ASSUME CatInv, EnvOK, DirsOK
          PROVE  TypeOK
      <3>1. Inv /\ KeysOK(db)
        BY <2>1 DEF CatInv
      <3>2. \A r \in db.tables : r.name \in Tables /\ r.name[1] \in db.schemas /\ r.uuid \in DOMAIN log
        BY <3>1 DEF Inv, DbShape, DbOK, KeysOK, Dir
      <3>3. /\ DOMAIN objs = DOMAIN log
            /\ \A u \in DOMAIN log : DOMAIN log[u] \subseteq Nat
        BY <3>1 DEF Inv, StoreShape, Logs
      <3>4. \A u \in DOMAIN log : /\ objs[u] \subseteq DOMAIN rows
                                  /\ \A v \in DOMAIN log[u] :
                                       log[u][v].add \cup log[u][v].rem \subseteq DOMAIN rows
        BY <3>1 DEF Inv, StoreOK, DirOK
      <3>5. DOMAIN mem.tables \subseteq Tables /\ purged \subseteq DOMAIN log
        BY <3>1 DEF Inv, MapOK, StoreOK
      <3>6. QED
        BY <2>1, <3>1, <3>2, <3>3, <3>4, <3>5 DEF TypeOK, DirsOK, KeysOK, EnvOK, Inv, SesShape
    <2>2. QED
      BY <2>1
  <1>2. QED
    BY <1>1, CatInvariance, Envs, Dirs, PTL

----------------------------------------------------------------------------
(* A listed table can be used                                              *)

\* If directory u has a table, its name is n.
Called(u, n) == \A r \in db.tables : r.uuid = u => r.name = n

\* A session knows the name of the table whose directory it has.
CallOK(x) ==
    /\ x.pc = "register" => \A n \in DOMAIN x.snap.tables : Called(x.snap.tables[n].uuid, n)
    /\ x.pc \in {"version_row", "column_rows", "register_table"} => Called(x.uuid, x.st.t)
    /\ x.pc = "purge" => Called(x.uuid, x.cur)

CallsOK ==
    /\ \A n \in DOMAIN mem.tables : Called(mem.tables[n].uuid, n)
    /\ \A s \in Sessions : CallOK(ses[s])

LEMMA CalledKept ==
    ASSUME CatInv, ~Asks("rename"), NEW s \in Sessions, Acts(s), NEW u, NEW n, Called(u, n),
           ses[s].pc = "table_row" => ses[s].uuid # u
    PROVE  Called(u, n)'
  BY TablesMove DEF Called, Kept, Registered, InsertTableRow, At

LEMMA MemCalled ==
    ASSUME CatInv, DirsOK, CallsOK, ~Asks("rename"), NEW s \in Sessions, Acts(s), NEW n \in DOMAIN mem'.tables
    PROVE  Called(mem.tables[n].uuid, n)'
  <1>1. Inv
    BY DEF CatInv
  <1>2. PICK u : u = mem'.tables[n].uuid
    OBVIOUS
  <1>3. ASSUME n \in DOMAIN mem.tables, u = mem.tables[n].uuid
        PROVE  Called(u, n)'
    <2>1. Called(u, n) /\ Shown(u)
      BY <1>3 DEF CallsOK, Shown
    <2>2. ses[s].pc = "table_row" => ses[s].uuid # u
      BY <2>1 DEF DirsOK
    <2>3. QED
      BY <2>1, <2>2, CalledKept
  <1>4. CASE LookedUp(mem')
    BY <1>2, <1>3, <1>4 DEF LookedUp
  <1>5. CASE RegisterCatalog(s)
    <2>1. mem' = ses[s].snap /\ ses[s].pc = "register"
      BY <1>5 DEF RegisterCatalog, At
    <2>2. Called(u, n)
      BY <1>2, <2>1 DEF CallsOK, CallOK
    <2>3. QED
      BY <1>2, <2>1, <2>2, CalledKept
  <1>6. CASE RegisterTable(s)
    <2>1. PICK t, w, m : t = ses[s].st.t /\ w = ses[s].uuid /\ m = mem.tables
      OBVIOUS
    <2>2. Called(w, t) /\ ses[s].pc = "register_table"
      BY <1>6, <2>1 DEF RegisterTable, At, CallsOK, CallOK
    <2>3. CASE UNCHANGED mem
      BY <1>2, <1>3, <2>3
    <2>4. CASE mem' = [mem EXCEPT !.tables = [i \in DOMAIN m \cup {t} |->
                            IF i = t THEN [uuid |-> w, version |-> 0] ELSE m[i]]]
      <3>1. mem'.tables = [i \in DOMAIN m \cup {t} |->
                            IF i = t THEN [uuid |-> w, version |-> 0] ELSE m[i]]
        BY <1>1, <2>4 DEF Inv, MapOK
      <3>2. (n = t /\ u = w) \/ (n \in DOMAIN m /\ u = m[n].uuid)
        BY <1>2, <3>1
      <3>3. QED
        BY <1>2, <1>3, <2>1, <2>2, <3>2, CalledKept
    <2>5. QED
      BY <1>6, <2>1, <2>3, <2>4 DEF RegisterTable
  <1>7. QED
    BY <1>1, <1>4, <1>5, <1>6, MemMoves

LEMMA CreateCalled ==
    ASSUME CatInv, DirsOK, CallsOK, ~Asks("rename"), NEW s \in Sessions, Acts(s),
           ses'[s].pc \in {"version_row", "column_rows", "register_table"}
    PROVE  Called(ses[s].uuid, ses[s].st.t)'
  <1>1. /\ Inv /\ DOMAIN ses = Sessions /\ DOMAIN ses[s] = SesFields /\ Arrival(s, ses'[s].pc)
    BY Arrives DEF CatInv, Inv, SesShape
  <1>2. PICK t, u : t = ses[s].st.t /\ u = ses[s].uuid
    OBVIOUS
  <1>3. ASSUME NEW ok, End(s, ok)
        PROVE  FALSE
    BY <1>1, <1>3, EndIdle
  <1>4. CASE InsertTableRow(s)
    <2>1. PICK i : ses' = [ses EXCEPT ![s].pc = "version_row", ![s].row = i]
      BY <1>3, <1>4 DEF InsertTableRow
    <2>2. ses'[s].st.t = t /\ ses'[s].uuid = u
      BY <1>1, <1>2, <2>1 DEF SesFields
    <2>3. ~Shown(u)
      BY <1>2, <1>4 DEF InsertTableRow, At, DirsOK
    <2>4. Called(u, t)'
      BY <1>2, <2>3, TablesMove DEF Called, Kept, Registered, Shown
    <2>5. QED
      BY <2>2, <2>4
  <1>5. CASE InsertVersionRow(s)
    <2>1. PICK i : ses' = [ses EXCEPT ![s].pc = "column_rows", ![s].new = i]
      BY <1>3, <1>5 DEF InsertVersionRow
    <2>2. ses'[s].st.t = t /\ ses'[s].uuid = u
      BY <1>1, <1>2, <2>1 DEF SesFields
    <2>3. Called(u, t) /\ ses[s].pc = "version_row"
      BY <1>2, <1>5 DEF InsertVersionRow, At, CallsOK, CallOK
    <2>4. Called(u, t)'
      BY <2>3, CalledKept
    <2>5. QED
      BY <2>2, <2>4
  <1>6. CASE InsertColumnRows(s)
    <2>1. Goto(s, "register_table")
      BY <1>3, <1>6 DEF InsertColumnRows
    <2>2. ses'[s].st.t = t /\ ses'[s].uuid = u
      BY <1>1, <1>2, <2>1 DEF Goto, SesFields
    <2>3. Called(u, t) /\ ses[s].pc = "column_rows"
      BY <1>2, <1>6 DEF InsertColumnRows, At, CallsOK, CallOK
    <2>4. Called(u, t)'
      BY <2>3, CalledKept
    <2>5. QED
      BY <2>2, <2>4
  <1>7. QED
    BY <1>1, <1>4, <1>5, <1>6 DEF Arrival

\* Only time travel beside DROP SCHEMA lets a table at a version be dropped.
LEMMA NoVersionDropped ==
    ASSUME Inv, ~DropsVersions, NEW s \in Sessions
    PROVE  ~DropNextVersion(s)
  <1>1. SUFFICES ASSUME DropNextVersion(s)
                 PROVE  FALSE
    OBVIOUS
  <1>2. Asks("travel")
    BY <1>1 DEF DropNextVersion, Inv, MapOK
  <1>3. ses[s].pc = "drop_next" /\ ses[s].st.op = "drop_schema"
    BY <1>1 DEF DropNextVersion, At, Inv, SesShape, CtlOK
  <1>4. Asks("drop_schema")
    BY <1>3, AsksOp
  <1>5. QED
    BY <1>2, <1>4 DEF DropsVersions

LEMMA CallsStep ==
    ASSUME CatInv, DirsOK, CallsOK, ~Asks("rename"), ~DropsVersions, [Next]_vars
    PROVE  CallsOK'
  <1>1. CASE UNCHANGED vars
    BY <1>1 DEF vars, CallsOK, CallOK, Called
  <1>2. ASSUME NEW s \in Sessions, Acts(s)
        PROVE  CallsOK'
    <2>1. Inv /\ Arrival(s, ses'[s].pc) /\ Others(s)
      BY <1>2, Arrives DEF CatInv
    <2>2. ASSUME NEW r \in Sessions \ {s}
          PROVE  CallOK(ses[r])'
      <3>1. PICK x : x = ses[r]
        OBVIOUS
      <3>2. ASSUME NEW u, NEW n, Called(u, n), Holds(x, u)
            PROVE  Called(u, n)'
        BY <1>2, <3>1, <3>2, CalledKept DEF DirsOK
      <3>3. CallOK(x)
        BY <3>1 DEF CallsOK
      <3>4. CallOK(x)'
        BY <3>2, <3>3 DEF CallOK, Holds
      <3>5. QED
        BY <2>1, <3>1, <3>4 DEF Others
    <2>3. ASSUME ses'[s].pc = "register", NEW n \in DOMAIN ses'[s].snap.tables
          PROVE  Called(ses[s].snap.tables[n].uuid, n)'
      <3>1. BuildCatalog(s)
        BY <2>1, <2>3 DEF Arrival
      <3>2. PICK u : u = ses'[s].snap.tables[n].uuid
        OBVIOUS
      <3>3. Listed(n, u)
        BY <2>3, <3>1, <3>2, SnapLinks
      <3>4. Called(u, n)
        BY <3>3 DEF Called, Listed, DirsOK
      <3>5. Called(u, n)'
        BY <1>2, <3>1, <3>4, CalledKept DEF BuildCatalog, At
      <3>6. QED
        BY <3>2, <3>5
    <2>4. ASSUME ses'[s].pc = "purge"
          PROVE  Called(ses[s].uuid, ses[s].cur)'
      <3>0. ~DropNextVersion(s)
        BY <2>1, NoVersionDropped
      <3>1. ExecDrop(s) \/ DropNextTable(s)
        BY <2>1, <2>4, <3>0 DEF Arrival
      <3>2. PICK n, u : Found(n) /\ u = UuidOf(n) /\ ses'[s].uuid = u /\ ses'[s].cur = n
        BY <2>1, <2>4, <3>1, PurgeFound
      <3>3. Called(u, n) /\ ses[s].pc # "table_row"
        BY <3>1, <3>2 DEF CallsOK, Found, UuidOf, ExecDrop, DropNextTable, At
      <3>4. Called(u, n)'
        BY <1>2, <3>3, CalledKept
      <3>5. QED
        BY <3>2, <3>4
    <2>5. CallOK(ses[s])'
      BY <1>2, <2>3, <2>4, CreateCalled DEF CallOK
    <2>6. QED
      BY <1>2, <2>2, <2>5, MemCalled DEF CallsOK
  <1>3. QED
    BY <1>1, <1>2, NextActs

\* Where a session is tells what it does next.
LEMMA Departs ==
    ASSUME NEW s, Acts(s)
    PROVE  /\ ses[s].pc = "drop_get" => DropGetTable(s) \/ Fail(s)
           /\ ses[s].pc = "drop_row" => DropDeleteRow(s) \/ Fail(s)
           /\ ses[s].pc = "version_row" => InsertVersionRow(s) \/ Fail(s)
  <1>1. CASE Query(s)
    BY <1>1 DEF At, Query, Begin, BuildCatalog, RegisterCatalog, Plan, NotModified,
                ExecuteQuery, Read, RewriteTimeTravel, PlanTimeTravel
  <1>2. CASE Dml(s)
    BY <1>2 DEF At, Dml, GetTableUuid, Upload, LoadTable, ExecUpdate, ExecDelete,
                ExecTruncate, TableDir, Commit, SelectLastVersion, InsertNewVersion,
                CopyColumns, ExecVacuum, Vacuum, TrimVersions
  <1>3. CASE Ddl(s)
    BY <1>3 DEF At, Ddl, ExecCreate, CreateDelta, ConvertDelta, InsertTableRow, InsertVersionRow,
                InsertColumnRows, RegisterTable, FileToTable, ExecDrop, Purge, PurgeFails,
                DropGetTable, DropDeleteRow, ExecDropSchema, DropNextTable, DropNextVersion, DropSchemaRow,
                ExecCreateSchema, RenameGetTable, RenameRow
  <1>4. QED
    BY <1>1, <1>2, <1>3 DEF Acts

\* A session is about to delete row r: it looks it up by name, or has its id.
Dropping(r) ==
    \E s \in Sessions : /\ ses[s].cur = r.name
                        /\ ses[s].pc = "drop_get" \/ (ses[s].pc = "drop_row" /\ ses[s].row = r.id)

DropsOK == \A r \in db.tables : r.uuid \in purged => Dropping(r)

LEMMA DropGoesOn ==
    ASSUME CatInv, faults = 0, NEW s \in Sessions, Acts(s), NEW r \in db.tables, r \in db'.tables, Dropping(r)
    PROVE  Dropping(r)'
  <1>1. Inv /\ KeysOK(db) /\ Others(s) /\ DOMAIN ses = Sessions /\ DOMAIN ses[s] = SesFields
    BY Arrives DEF CatInv, Inv, SesShape
  <1>2. PICK q \in Sessions : /\ ses[q].cur = r.name
                              /\ ses[q].pc = "drop_get" \/ (ses[q].pc = "drop_row" /\ ses[q].row = r.id)
    BY DEF Dropping
  <1>3. ~Fail(s)
    BY DEF Fail
  <1>4. CASE q # s
    BY <1>1, <1>2, <1>4 DEF Others, Dropping
  <1>5. CASE q = s /\ ses[s].pc = "drop_get"
    <2>1. DropGetTable(s) /\ r \in get_table(db, ses[s].cur)
      BY <1>2, <1>3, <1>5, Departs DEF get_table
    <2>2. PICK x \in get_table(db, ses[s].cur) : ses' = [ses EXCEPT ![s].pc = "drop_row", ![s].row = x.id]
      BY <2>1 DEF DropGetTable
    <2>3. x.id = r.id
      BY <1>1, <1>2, <1>5, <2>2 DEF get_table, KeysOK
    <2>4. ses'[s].pc = "drop_row" /\ ses'[s].row = x.id /\ ses'[s].cur = ses[s].cur
      BY <1>1, <2>2 DEF SesFields
    <2>5. QED
      BY <1>2, <1>5, <2>3, <2>4 DEF Dropping
  <1>6. CASE q = s /\ ses[s].pc = "drop_row"
    <2>1. DropDeleteRow(s) /\ ses[s].row = r.id
      BY <1>2, <1>3, <1>6, Departs
    <2>2. db' = delete_table(db, r.id)
      BY <2>1 DEF DropDeleteRow
    <2>3. r \notin db'.tables
      BY <1>1, <2>2, TableDeleted
    <2>4. QED
      BY <2>3
  <1>7. QED
    BY <1>2, <1>4, <1>5, <1>6

\* A DROP that has deleted the files of a table goes on to its row.
LEMMA DropBegins ==
    ASSUME CatInv, CallsOK, faults = 0, NEW s \in Sessions, Acts(s), NEW r \in db.tables,
           r.uuid \in purged', r.uuid \notin purged
    PROVE  Dropping(r)'
  <1>1. DOMAIN ses = Sessions /\ DOMAIN ses[s] = SesFields
    BY DEF CatInv, Inv, SesShape
  <1>2. Purge(s)
    BY PurgedMoves DEF PurgeFails
  <1>3. r.uuid = ses[s].uuid /\ Called(ses[s].uuid, ses[s].cur)
    BY <1>2 DEF Purge, At, CallsOK, CallOK
  <1>4. ses'[s].pc = "drop_get" /\ ses'[s].cur = ses[s].cur
    BY <1>1, <1>2 DEF Purge, Goto, SesFields
  <1>5. QED
    BY <1>3, <1>4 DEF Called, Dropping

LEMMA DropsStep ==
    ASSUME CatInv, DirsOK, CallsOK, DropsOK, ~Asks("rename"), faults = 0, [Next]_vars
    PROVE  DropsOK'
  <1>1. CASE UNCHANGED vars
    BY <1>1 DEF vars, DropsOK, Dropping
  <1>2. ASSUME NEW s \in Sessions, Acts(s), NEW r \in db'.tables, r.uuid \in purged'
        PROVE  Dropping(r)'
    <2>1. CASE r \in db.tables
      BY <1>2, <2>1, DropGoesOn, DropBegins DEF DropsOK
    <2>2. ASSUME Registered(s, r)
          PROVE  FALSE
      <3>1. ~Shown(r.uuid) /\ purged' = purged
        BY <1>2, <2>2 DEF Registered, InsertTableRow, At, DirsOK, storeVars
      <3>2. QED
        BY <1>2, <3>1 DEF Shown
    <2>3. QED
      BY <1>2, <2>1, <2>2, TablesMove DEF Kept
  <1>3. QED
    BY <1>1, <1>2, NextActs DEF DropsOK

\* A table that stays has a version if it had one.
LEMMA VersionsMove ==
    ASSUME CatInv, NEW s \in Sessions, Acts(s), NEW v \in db.versions,
           \E r \in db'.tables : r.id = v.table
    PROVE  \E w \in db'.versions : w.table = v.table
  <1>1. Inv /\ KeysOK(db)
    BY DEF CatInv
  <1>2. CASE InsertTableRow(s)
    <2>1. PICK t, u : t = ses[s].st.t /\ u = ses[s].uuid
      OBVIOUS
    <2>2. CASE db' = create_table_row(db, t, u)
      BY <1>1, <2>2, TableAdded DEF AddedTable
    <2>3. QED
      BY <1>2, <2>1, <2>2 DEF InsertTableRow
  <1>3. CASE InsertVersionRow(s) \/ InsertNewVersion(s)
    <2>1. db.versions \subseteq db'.versions
      BY <1>1, <1>3 DEF InsertVersionRow, InsertNewVersion, create_table_version, insert_version, DbShape, Inv
    <2>2. QED
      BY <2>1
  <1>4. CASE InsertColumnRows(s) \/ CopyColumns(s)
    BY <1>1, <1>4, ColumnsAdded DEF InsertColumnRows, CopyColumns, copy_columns
  <1>5. CASE TrimVersions(s)
    BY <1>1, <1>5, VersionsTrimmed DEF TrimVersions
  <1>6. CASE ExecCreateSchema(s) \/ FileToTable(s)
    BY <1>1, <1>6, SchemaCreated DEF ExecCreateSchema, FileToTable
  <1>7. CASE DropDeleteRow(s) \/ DropSchemaRow(s)
    BY <1>1, <1>7, TableDeleted, SchemaDeleted DEF DropDeleteRow, DropSchemaRow, DeletedTables
  <1>8. CASE RenameRow(s)
    BY <1>1, <1>8, TableRenamed DEF RenameRow
  <1>9. QED
    BY <1>2, <1>3, <1>4, <1>5, <1>6, <1>7, <1>8, DbActions DEF DbAction

\* The first version of a table is there, or a session is about to insert it.
Versioned(i) ==
    \/ \E v \in db.versions : v.table = i
    \/ \E q \in Sessions : ses[q].pc = "version_row" /\ ses[q].row = i

VersionedOK == \A r \in db.tables : Versioned(r.id)

LEMMA VersionedStep ==
    ASSUME CatInv, VersionedOK, faults = 0, [Next]_vars
    PROVE  VersionedOK'
  <1>1. CASE UNCHANGED vars
    BY <1>1 DEF vars, VersionedOK, Versioned
  <1>2. ASSUME NEW s \in Sessions, Acts(s), NEW r \in db'.tables
        PROVE  Versioned(r.id)'
    <2>1. Inv /\ Others(s)
      BY <1>2, Arrives DEF CatInv
    <2>2. CASE Registered(s, r)
      BY <2>2 DEF Registered, Versioned
    <2>3. CASE Kept(r)
      <3>1. Versioned(r.id) /\ \E q \in db.tables : q.id = r.id
        BY <2>3 DEF Kept, VersionedOK
      <3>2. CASE \E v \in db.versions : v.table = r.id
        BY <1>2, <3>2, VersionsMove DEF Versioned
      <3>3. CASE \E q \in Sessions \ {s} : ses[q].pc = "version_row" /\ ses[q].row = r.id
        BY <2>1, <3>3 DEF Others, Versioned
      <3>4. CASE ses[s].pc = "version_row" /\ ses[s].row = r.id
        <4>1. InsertVersionRow(s)
          BY <1>2, <3>4, Departs DEF Fail
        <4>2. PICK i : i = r.id
          OBVIOUS
        <4>3. db' = create_table_version(db, i)
          BY <3>1, <3>4, <4>1, <4>2 DEF InsertVersionRow
        <4>4. PICK j \in Nat : AddedVersion(db, db', [id |-> j, table |-> i, version |-> 0, columns |-> FALSE])
          BY <2>1, <4>3, VersionAdded DEF create_table_version
        <4>5. PICK x : x = [id |-> j, table |-> i, version |-> 0, columns |-> FALSE]
          OBVIOUS
        <4>6. x \in db'.versions /\ x.table = i
          BY <4>4, <4>5 DEF AddedVersion
        <4>7. QED
          BY <4>2, <4>6 DEF Versioned
      <3>5. QED
        BY <3>1, <3>2, <3>3, <3>4 DEF Versioned
    <2>4. QED
      BY <1>2, <2>2, <2>3, TablesMove
  <1>3. QED
    BY <1>1, <1>2, NextActs DEF VersionedOK

\* The catalog never lists a table whose files a DROP has deleted, unless that
\* DROP is about to delete the row, nor one without a version, unless the CREATE
\* is about to insert it: a DROP that was overtaken by another, or a VACUUM that
\* trims versions, leaves no such row behind.  A CONVERT that takes over a
\* dropped directory is the exception, and ListedIsUsable excludes DROP SCHEMA
\* beside time travel.
THEOREM ListedAreUsable == ASSUME AtomicRename PROVE Spec => [](~TakesOver => ListedIsUsable)
  <1> DEFINE Named == ~TakesOver /\ ~Asks("rename") /\ ~DropsVersions
             Quiet == Workload.faults = 0
             Use == /\ Named => CallsOK
                    /\ Named /\ Quiet => DropsOK
                    /\ Quiet => VersionedOK
  <1>1. Init => Use
    <2>1. ASSUME Init
          PROVE  CallsOK /\ DropsOK /\ VersionedOK
      BY <2>1, KeysInit DEF Init, CallsOK, CallOK, DropsOK, VersionedOK, Versioned, VersionsOf, Idle, NoMap
    <2>2. QED
      BY <2>1
  <1>2. CatInv /\ EnvOK /\ (~TakesOver => DirsOK) /\ Use /\ [Next]_vars => Use'
    <2>1. ASSUME CatInv, [Next]_vars
          PROVE  (Named' <=> Named) /\ (Quiet' <=> Quiet)
      BY <2>1, StoreStep, WorkKept DEF StoreGoal, Grow, CatInv, Asks, DropsVersions
    <2>2. ASSUME EnvOK, Quiet
          PROVE  faults = 0
      BY <2>2 DEF EnvOK
    <2>3. ASSUME CatInv, EnvOK, ~TakesOver => DirsOK, Use, [Next]_vars
          PROVE  Use'
      <3>1. ASSUME Named
            PROVE  CallsOK'
        BY <2>3, <3>1, CallsStep
      <3>2. ASSUME Named, Quiet
            PROVE  DropsOK'
        BY <2>2, <2>3, <3>2, DropsStep
      <3>3. ASSUME Quiet
            PROVE  VersionedOK'
        BY <2>2, <2>3, <3>3, VersionedStep
      <3>4. QED
        BY <2>1, <2>3, <3>1, <3>2, <3>3
    <2>4. QED
      BY <2>3
  <1>3. Use => (~TakesOver => ListedIsUsable)
    <2>1. ASSUME Named => CallsOK, Named /\ Quiet => DropsOK, ~TakesOver
          PROVE  DroppedIsUnlisted
      BY <2>1 DEF DroppedIsUnlisted, DropsOK, Dropping
    <2>2. ASSUME Quiet => VersionedOK
          PROVE  TableHasVersion
      BY <2>2 DEF TableHasVersion, VersionedOK, Versioned, VersionsOf, At
    <2>3. QED
      BY <2>1, <2>2 DEF ListedIsUsable
  <1>4. QED
    BY <1>1, <1>2, <1>3, CatInvariance, Envs, Dirs, PTL DEF Spec

----------------------------------------------------------------------------
(* The catalog lists versions that were committed                          *)

\* Tables stay, if none is dropped.
LEMMA TablesStay ==
    ASSUME CatInv, ~Drops, NEW s \in Sessions, Acts(s), NEW q \in db.tables
    PROVE  \E r \in db'.tables : r.id = q.id /\ r.uuid = q.uuid
  <1>1. Inv /\ KeysOK(db)
    BY DEF CatInv
  <1>2. CASE RenameRow(s)
    BY <1>1, <1>2, TableRenamed DEF RenameRow
  <1>3. CASE InsertTableRow(s)
    <2>1. PICK t, u : t = ses[s].st.t /\ u = ses[s].uuid
      OBVIOUS
    <2>2. CASE db' = create_table_row(db, t, u)
      BY <1>1, <2>2, TableAdded DEF AddedTable
    <2>3. QED
      BY <1>3, <2>1, <2>2 DEF InsertTableRow
  <1>4. CASE DropDeleteRow(s) \/ DropSchemaRow(s)
    <2>1. ses[s].pc \in {"drop_row", "drop_next"} /\ ses[s].st.op \in {"drop", "drop_schema"}
      BY <1>1, <1>4 DEF DropDeleteRow, DropSchemaRow, At, Inv, SesShape, CtlOK
    <2>2. QED
      BY <1>1, <2>1, AsksOp DEF Drops
  <1>5. ASSUME db'.tables = db.tables
        PROVE  \E r \in db'.tables : r.id = q.id /\ r.uuid = q.uuid
    BY <1>5
  <1>6. CASE InsertVersionRow(s) \/ InsertNewVersion(s)
    <2>1. db'.tables = db.tables
      BY <1>1, <1>6 DEF InsertVersionRow, InsertNewVersion, create_table_version, insert_version, DbShape, Inv
    <2>2. QED
      BY <1>5, <2>1
  <1>7. CASE InsertColumnRows(s) \/ CopyColumns(s)
    BY <1>1, <1>5, <1>7, ColumnsAdded DEF InsertColumnRows, CopyColumns, copy_columns, FewerVersions
  <1>8. CASE TrimVersions(s)
    BY <1>1, <1>5, <1>8, VersionsTrimmed DEF TrimVersions, FewerVersions
  <1>9. CASE ExecCreateSchema(s) \/ FileToTable(s)
    BY <1>1, <1>5, <1>9, SchemaCreated DEF ExecCreateSchema, FileToTable
  <1>10. QED
    BY <1>2, <1>3, <1>4, <1>5, <1>6, <1>7, <1>8, <1>9, DbActions DEF DbAction

\* A version was listed before, or it is a first one, or one that a statement
\* has committed and adds to those of the version it has looked up.
OldVersion(v) == \E w \in db.versions : w.id = v.id /\ w.table = v.table /\ w.version = v.version

NewVersion(s, v) ==
    /\ \A w \in db.versions : w.id < v.id
    /\ \/ InsertVersionRow(s) /\ v.version = 0
       \/ /\ InsertNewVersion(s) /\ v.version = ses[s].base
          /\ \E w \in db.versions : w.id = ses[s].row /\ w.table = v.table

LEMMA VersionInserted ==
    ASSUME Inv, NEW t, NEW n, NEW v \in db'.versions,
           db' = [db EXCEPT !.versions =
                    @ \cup {[id |-> NextId(@), table |-> t, version |-> n, columns |-> FALSE]}]
    PROVE  \/ v \in db.versions
           \/ v.table = t /\ v.version = n /\ \A w \in db.versions : w.id < v.id
  <1>1. PICK i \in Nat : AddedVersion(db, db', [id |-> i, table |-> t, version |-> n, columns |-> FALSE])
    BY VersionAdded
  <1>2. PICK x : x = [id |-> i, table |-> t, version |-> n, columns |-> FALSE]
    OBVIOUS
  <1>3. x.id = i /\ x.table = t /\ x.version = n /\ AddedVersion(db, db', x)
    BY <1>1, <1>2
  <1>4. QED
    BY <1>3 DEF AddedVersion

LEMMA VersionsCome ==
    ASSUME CatInv, NEW s \in Sessions, Acts(s), NEW v \in db'.versions
    PROVE  OldVersion(v) \/ NewVersion(s, v)
  <1>1. Inv /\ KeysOK(db)
    BY DEF CatInv
  <1>2. ASSUME v \in db.versions
        PROVE  OldVersion(v)
    BY <1>2 DEF OldVersion
  <1>3. CASE InsertTableRow(s)
    <2>1. PICK t, u : t = ses[s].st.t /\ u = ses[s].uuid
      OBVIOUS
    <2>2. CASE db' = create_table_row(db, t, u)
      BY <1>1, <1>2, <2>2, TableAdded DEF AddedTable
    <2>3. QED
      BY <1>2, <1>3, <2>1, <2>2 DEF InsertTableRow
  <1>4. CASE InsertVersionRow(s)
    <2>1. PICK i : i = ses[s].row
      OBVIOUS
    <2>2. CASE db' = create_table_version(db, i)
      BY <1>1, <1>2, <1>4, <2>2, VersionInserted DEF create_table_version, NewVersion
    <2>3. QED
      BY <1>2, <1>4, <2>1, <2>2 DEF InsertVersionRow
  <1>5. CASE InsertNewVersion(s)
    <2>1. PICK src, t, n : src = (CHOOSE x \in db.versions : x.id = ses[s].row) /\ t = src.table /\ n = ses[s].base
      OBVIOUS
    <2>2. CASE ses[s].row \in {x.id : x \in db.versions} /\ db' = insert_version(db, ses[s].row, ses[s].base)
      <3>1. src \in db.versions /\ src.id = ses[s].row
        BY <2>1, <2>2
      <3>2. db' = [db EXCEPT !.versions =
                    @ \cup {[id |-> NextId(@), table |-> t, version |-> n, columns |-> FALSE]}]
        BY <2>1, <2>2 DEF insert_version
      <3>3. \/ v \in db.versions
            \/ v.table = t /\ v.version = n /\ \A w \in db.versions : w.id < v.id
        BY <1>1, <3>2, VersionInserted
      <3>4. QED
        BY <1>2, <1>5, <2>1, <3>1, <3>3 DEF NewVersion
    <2>3. QED
      BY <1>2, <1>5, <2>2 DEF InsertNewVersion
  <1>6. CASE InsertColumnRows(s) \/ CopyColumns(s)
    BY <1>1, <1>2, <1>6, ColumnsAdded DEF InsertColumnRows, CopyColumns, copy_columns, FewerVersions, OldVersion
  <1>7. CASE TrimVersions(s)
    BY <1>1, <1>2, <1>7, VersionsTrimmed DEF TrimVersions
  <1>8. CASE ExecCreateSchema(s) \/ FileToTable(s)
    BY <1>1, <1>2, <1>8, SchemaCreated DEF ExecCreateSchema, FileToTable
  <1>9. CASE DropDeleteRow(s) \/ DropSchemaRow(s)
    BY <1>1, <1>2, <1>9, TableDeleted, SchemaDeleted DEF DropDeleteRow, DropSchemaRow, DeletedTables
  <1>10. CASE RenameRow(s)
    BY <1>1, <1>2, <1>10, TableRenamed DEF RenameRow
  <1>11. QED
    BY <1>2, <1>3, <1>4, <1>5, <1>6, <1>7, <1>8, <1>9, <1>10, DbActions DEF DbAction

\* Ids of versions are not given out again, if no table is dropped: VACUUM
\* leaves the last version.
LEMMA VersionIdsStay ==
    ASSUME CatInv, ~Drops, NEW s \in Sessions, Acts(s), NEW v \in db.versions
    PROVE  \E w \in db'.versions : v.id <= w.id
  <1>1. Inv /\ KeysOK(db) /\ v.id \in Nat
    BY DEF CatInv, Inv, DbShape
  <1>2. ASSUME NEW w \in db'.versions, w.id = v.id
        PROVE  \E x \in db'.versions : v.id <= x.id
    BY <1>1, <1>2
  <1>3. CASE InsertTableRow(s)
    <2>1. PICK t, u : t = ses[s].st.t /\ u = ses[s].uuid
      OBVIOUS
    <2>2. CASE db' = create_table_row(db, t, u)
      BY <1>1, <1>2, <2>2, TableAdded DEF AddedTable
    <2>3. QED
      BY <1>2, <1>3, <2>1, <2>2 DEF InsertTableRow
  <1>4. CASE InsertVersionRow(s) \/ InsertNewVersion(s)
    <2>1. db.versions \subseteq db'.versions
      BY <1>1, <1>4 DEF InsertVersionRow, InsertNewVersion, create_table_version, insert_version, DbShape, Inv
    <2>2. QED
      BY <1>2, <2>1
  <1>5. CASE InsertColumnRows(s) \/ CopyColumns(s)
    BY <1>1, <1>2, <1>5, ColumnsAdded DEF InsertColumnRows, CopyColumns, copy_columns
  <1>6. CASE TrimVersions(s)
    <2>1. CASE UNCHANGED db
      BY <1>2, <2>1
    <2>2. ASSUME NEW i, db' = delete_old_versions(db, i)
          PROVE  \E w \in db'.versions : v.id <= w.id
      BY <1>1, <1>2, <2>2, VersionsTrimmed
    <2>3. QED
      BY <1>6, <2>1, <2>2 DEF TrimVersions
  <1>7. CASE ExecCreateSchema(s) \/ FileToTable(s)
    BY <1>1, <1>2, <1>7, SchemaCreated DEF ExecCreateSchema, FileToTable
  <1>8. CASE DropDeleteRow(s) \/ DropSchemaRow(s)
    <2>1. ses[s].pc \in {"drop_row", "drop_next"} /\ ses[s].st.op \in {"drop", "drop_schema"}
      BY <1>1, <1>8 DEF DropDeleteRow, DropSchemaRow, At, Inv, SesShape, CtlOK
    <2>2. QED
      BY <1>1, <2>1, AsksOp DEF Drops
  <1>9. CASE RenameRow(s)
    BY <1>1, <1>2, <1>9, TableRenamed DEF RenameRow
  <1>10. QED
    BY <1>2, <1>3, <1>4, <1>5, <1>6, <1>7, <1>8, <1>9, DbActions DEF DbAction

\* The version that a statement has looked up is one of the table it wrote to.
RowOf(x) ==
    /\ \A v \in db.versions : \A r \in db.tables : v.id = x.row /\ v.table = r.id => r.uuid = x.uuid
    /\ \E v \in db.versions : x.row \in Nat /\ x.row <= v.id

\* What a statement is going to record was committed to the table it has looked
\* up.
RecordOK(x) ==
    /\ x.pc = "commit" /\ x.st.op \in Inserts => x.tab = x.uuid
    /\ x.pc \in {"last_version", "new_version"} => Dir(x.uuid) /\ x.base \in DOMAIN log[x.uuid]
    /\ x.pc = "new_version" => RowOf(x)

RecordsOK ==
    /\ \A r \in db.tables : \A v \in db.versions : v.table = r.id => v.version \in DOMAIN log[r.uuid]
    /\ \A s \in Sessions : RecordOK(ses[s])

\* No entry of a log goes, if no table is dropped.
LEMMA LogKept ==
    ASSUME AtomicRename, Inv, ~Drops, [Next]_vars, NEW u, Dir(u)
    PROVE  Dir(u)' /\ DOMAIN log[u] \subseteq DOMAIN log'[u]
  <1>1. u \in DOMAIN log /\ StoreOK' /\ Grow /\ work' = work
    BY StoreStep DEF StoreGoal, Grow, Dir
  <1>2. purged' = {}
    BY <1>1, WorkKept DEF StoreOK
  <1>3. Dir(u)' /\ Alive(u)'
    BY <1>1, <1>2 DEF Grow, Dir, Alive
  <1>4. QED
    BY <1>1, <1>3 DEF Grow

LEMMA ActsNext ==
    ASSUME NEW s \in Sessions, Acts(s)
    PROVE  [Next]_vars
  BY DEF Acts, Next

\* The table of a version keeps its directory.
LEMMA SameTable ==
    ASSUME CatInv, KeysOK(db'), ~Drops, NEW s \in Sessions, Acts(s), NEW w \in db.versions,
           NEW r \in db'.tables, w.table = r.id
    PROVE  \E q \in db.tables : q.id = w.table /\ q.uuid = r.uuid
  <1>1. PICK q \in db.tables : q.id = w.table
    BY DEF CatInv, KeysOK
  <1>2. PICK x \in db'.tables : x.id = q.id /\ x.uuid = q.uuid
    BY TablesStay
  <1>3. x = r
    BY <1>1, <1>2 DEF KeysOK
  <1>4. QED
    BY <1>1, <1>2, <1>3

LEMMA ListsStep ==
    ASSUME AtomicRename, CatInv, CatInv', RecordsOK, ~Drops, NEW s \in Sessions, Acts(s),
           NEW r \in db'.tables, NEW v \in db'.versions, v.table = r.id
    PROVE  v.version \in DOMAIN log'[r.uuid]
  <1>1. /\ Inv /\ KeysOK(db) /\ KeysOK(db') /\ [Next]_vars
        /\ DbOK(db) /\ Dir(r.uuid)' /\ StoreOK' /\ work' = work
    BY ActsNext, StoreStep DEF CatInv, Inv, DbOK, StoreGoal, Grow
  <1>2. CASE OldVersion(v)
    <2>1. PICK w \in db.versions : w.table = v.table /\ w.version = v.version
      BY <1>2 DEF OldVersion
    <2>2. PICK q \in db.tables : q.id = w.table /\ q.uuid = r.uuid
      BY <1>1, <2>1, SameTable
    <2>3. v.version \in DOMAIN log[q.uuid] /\ Dir(q.uuid)
      BY <1>1, <2>1, <2>2 DEF RecordsOK, DbOK
    <2>4. PICK u : u = q.uuid
      OBVIOUS
    <2>5. DOMAIN log[u] \subseteq DOMAIN log'[u]
      BY <1>1, <2>3, <2>4, LogKept
    <2>6. QED
      BY <2>2, <2>3, <2>4, <2>5
  <1>3. CASE InsertVersionRow(s) /\ v.version = 0
    <2>1. purged' = {}
      BY <1>1, WorkKept DEF StoreOK
    <2>2. QED
      BY <1>1, <1>3, <2>1 DEF Dir, Loadable
  <1>4. ASSUME InsertNewVersion(s), v.version = ses[s].base,
               NEW w \in db.versions, w.id = ses[s].row, w.table = v.table
        PROVE  v.version \in DOMAIN log'[r.uuid]
    <2>1. RecordOK(ses[s]) /\ ses[s].pc = "new_version" /\ log' = log
      BY <1>4 DEF RecordsOK, InsertNewVersion, At, storeVars
    <2>2. PICK q \in db.tables : q.id = w.table /\ q.uuid = r.uuid
      BY <1>1, <1>4, SameTable
    <2>3. r.uuid = ses[s].uuid
      BY <1>4, <2>1, <2>2 DEF RecordOK, RowOf
    <2>4. QED
      BY <1>4, <2>1, <2>3 DEF RecordOK
  <1>5. QED
    BY <1>2, <1>3, <1>4, VersionsCome DEF NewVersion

LEMMA RowOfKept ==
    ASSUME CatInv, CatInv', ~Drops, NEW s \in Sessions, Acts(s), NEW x, RowOf(x)
    PROVE  RowOf(x)'
  <1>1. /\ KeysOK(db) /\ KeysOK(db')
        /\ \A v \in db.versions : v.id \in Nat
        /\ \A v \in db'.versions : v.id \in Nat
    BY DEF CatInv, Inv, DbShape
  <1>2. PICK w \in db.versions : x.row \in Nat /\ x.row <= w.id
    BY DEF RowOf
  <1>3. PICK z \in db'.versions : w.id <= z.id
    BY VersionIdsStay
  <1>4. x.row <= z.id
    BY <1>1, <1>2, <1>3
  <1>5. ASSUME NEW v \in db'.versions, NEW r \in db'.tables, v.id = x.row, v.table = r.id
        PROVE  r.uuid = x.uuid
    <2>1. ~NewVersion(s, v)
      BY <1>1, <1>2, <1>5 DEF NewVersion
    <2>2. PICK y \in db.versions : y.id = v.id /\ y.table = v.table
      BY <1>5, <2>1, VersionsCome DEF OldVersion
    <2>3. PICK q \in db.tables : q.id = y.table /\ q.uuid = r.uuid
      BY <1>1, <1>5, <2>2, SameTable
    <2>4. QED
      BY <1>5, <2>2, <2>3 DEF RowOf
  <1>6. QED
    BY <1>2, <1>4, <1>5 DEF RowOf

LEMMA RecordKept ==
    ASSUME AtomicRename, CatInv, CatInv', ~Drops, NEW s \in Sessions, Acts(s), NEW x, RecordOK(x)
    PROVE  RecordOK(x)'
  <1>1. Inv /\ [Next]_vars
    BY ActsNext DEF CatInv
  <1>2. PICK u : u = x.uuid
    OBVIOUS
  <1>3. ASSUME Dir(u), x.base \in DOMAIN log[u]
        PROVE  Dir(u)' /\ x.base \in DOMAIN log'[u]
    BY <1>1, <1>3, LogKept
  <1>4. RowOf(x) => RowOf(x)'
    BY RowOfKept
  <1>5. QED
    BY <1>2, <1>3, <1>4 DEF RecordOK

\* An INSERT commits to the directory it has written to.
LEMMA InsertHome ==
    ASSUME Inv, NEW s \in Sessions, Acts(s), ses'[s].pc = "commit", ses'[s].st.op \in Inserts
    PROVE  ses'[s].tab = ses'[s].uuid
  <1>1. /\ DOMAIN ses = Sessions /\ DOMAIN ses[s] = SesFields /\ SesOK(ses[s])
        /\ CtlOK(ses[s].pc, ses[s].st.op) /\ Arrival(s, ses'[s].pc)
    BY Arrives DEF Inv, SesShape
  <1>2. ASSUME NEW ok, End(s, ok)
        PROVE  FALSE
    BY <1>2, EndIdle
  <1>3. CASE LoadTable(s)
    <2>1. PICK b : ses' = [ses EXCEPT ![s].pc = "commit", ![s].base = b]
      BY <1>2, <1>3 DEF LoadTable
    <2>2. ses'[s].tab = ses[s].tab /\ ses'[s].uuid = ses[s].uuid /\ ses'[s].st = ses[s].st
      BY <1>1, <2>1 DEF SesFields
    <2>3. QED
      BY <1>1, <1>3, <2>2 DEF LoadTable, At, SesOK
  <1>4. CASE Upload(s)
    <2>1. PICK A : ses' = [ses EXCEPT ![s].adds = A,
                      ![s].pc = IF Op(s) \in {"update", "delete"} THEN "commit" ELSE "load"]
      BY <1>4 DEF Upload
    <2>2. ses'[s].st = ses[s].st /\ ses'[s].pc = IF Op(s) \in {"update", "delete"} THEN "commit" ELSE "load"
      BY <1>1, <2>1 DEF SesFields
    <2>3. QED
      BY <2>2 DEF Op, Inserts
  <1>5. CASE TableDir(s)
    <2>1. ses'[s].st = ses[s].st /\ (Op(s) = "delete" \/ ses[s].pc = "dir")
      BY <1>5, TableDirFields
    <2>2. QED
      BY <1>1, <2>1 DEF CtlOK, Inserts, Op
  <1>6. CASE ExecDelete(s) \/ ExecTruncate(s)
    <2>1. ses[s].st.op \in {"delete", "truncate"}
      BY <1>1, <1>6 DEF ExecDelete, ExecTruncate, At, Op, CtlOK
    <2>2. ASSUME CanLoad(s), NEW hit, NEW pc, LoadedWith(s, hit, pc)
          PROVE  ses'[s].st = ses[s].st
      BY <2>2, LoadedFields DEF LoadedFrom
    <2>3. ses'[s].st = ses[s].st
      BY <1>2, <1>6, <2>2 DEF ExecDelete, ExecTruncate, LoadError
    <2>4. QED
      BY <2>1, <2>3 DEF Inserts
  <1>7. QED
    BY <1>1, <1>3, <1>4, <1>5, <1>6 DEF Arrival

LEMMA CommitRecord ==
    ASSUME CatInv, RecordsOK, ~Retargets, Stable => LinksOK, NEW s \in Sessions, Acts(s),
           ses'[s].pc = "last_version"
    PROVE  ses'[s].uuid = ses[s].uuid /\ Dir(ses[s].uuid) /\ ses'[s].base \in DOMAIN log'[ses[s].uuid]
  <1>1. /\ Inv /\ DOMAIN ses = Sessions /\ DOMAIN ses[s] = SesFields /\ SesOK(ses[s])
        /\ CtlOK(ses[s].pc, ses[s].st.op) /\ Arrival(s, ses'[s].pc) /\ RecordOK(ses[s])
    BY Arrives DEF CatInv, Inv, SesShape, RecordsOK
  <1>2. ASSUME NEW ok, End(s, ok)
        PROVE  FALSE
    BY <1>1, <1>2, EndIdle
  <1>3. Commit(s) /\ ses[s].pc = "commit"
    BY <1>1 DEF Arrival, Commit, At
  <1>4. PICK u, v, A, R : /\ u = ses[s].tab /\ log' = [log EXCEPT ![u] = WithCommit(@, v, A, R)]
                          /\ Op(s) # "truncate"
                          /\ ses' = [ses EXCEPT ![s].pc = "last_version", ![s].base = v]
    <2>1. PICK u, v, A, R : /\ u = ses[s].tab /\ v = NextVersion(log[u], CommitBase(s))
                            /\ A = ses[s].adds /\ R = ses[s].rems
      OBVIOUS
    <2>2. /\ log' = [log EXCEPT ![u] = WithCommit(@, v, A, R)] /\ Op(s) # "truncate"
          /\ ses' = [ses EXCEPT ![s].pc = "last_version", ![s].base = v]
      BY <1>2, <1>3, <2>1 DEF Commit
    <2>3. QED
      BY <2>1, <2>2
  <1>5. ses'[s].uuid = ses[s].uuid /\ ses'[s].base = v
    BY <1>1, <1>4 DEF SesFields
  <1>6. ses[s].tab = ses[s].uuid
    <2>1. CASE ses[s].st.op \in Inserts
      BY <1>1, <1>3, <2>1 DEF RecordOK
    <2>2. CASE ses[s].st.op \in {"update", "delete"}
      <3>1. Stable
        BY <1>1, <1>3, <2>2, AsksOp DEF Retargets
      <3>2. QED
        BY <1>3, <2>2, <3>1 DEF LinksOK, LinkOK
    <2>3. QED
      BY <1>1, <1>3, <1>4, <2>1, <2>2 DEF CtlOK, Op
  <1>7. Dir(u) /\ u \in DOMAIN log
    BY <1>1, <1>3, <1>4 DEF SesOK, Loaded, At_Version, Dir
  <1>8. v \in DOMAIN WithCommit(log[u], v, A, R)
    BY DEF WithCommit
  <1>9. log'[u] = WithCommit(log[u], v, A, R)
    BY <1>4, <1>7
  <1>10. QED
    BY <1>4, <1>5, <1>6, <1>7, <1>8, <1>9

\* The last version of a table, looked up by the directory.
LEMMA LastVersionIs ==
    ASSUME CatInv, NEW u, NEW i \in last_version(db, u)
    PROVE  /\ \A v \in db.versions : \A r \in db.tables : v.id = i /\ v.table = r.id => r.uuid = u
           /\ \E v \in db.versions : i \in Nat /\ i <= v.id
  <1> DEFINE W == {w \in db.versions : \E r \in db.tables : r.id = w.table /\ r.uuid = u}
             ids == {v.id : v \in W}
  <1>1. KeysOK(db) /\ \A v \in db.versions : v.id \in Nat
    BY DEF CatInv, Inv, DbShape
  <1>2. PICK n \in Nat : \A v \in db.versions : v.id <= n
    BY DEF CatInv, Inv, DbShape
  <1>3. ids # {} /\ i = Max(ids)
    BY DEF last_version
  <1>4. ids \in SUBSET Nat /\ \A y \in ids : y <= n
    BY <1>1, <1>2
  <1>5. Max(ids) \in ids
    BY <1>2, <1>3, <1>4, MaxOf
  <1>6. PICK w \in W : w.id = i
    BY <1>3, <1>5
  <1>7. PICK q \in db.tables : q.id = w.table /\ q.uuid = u
    BY <1>6
  <1>8. i \in Nat /\ i <= w.id
    BY <1>1, <1>6
  <1>9. ASSUME NEW v \in db.versions, NEW r \in db.tables, v.id = i, v.table = r.id
        PROVE  r.uuid = u
    <2>1. v = w
      BY <1>1, <1>6, <1>9 DEF KeysOK
    <2>2. r = q
      BY <1>1, <1>7, <1>9, <2>1 DEF KeysOK
    <2>3. QED
      BY <1>7, <2>2
  <1>10. QED
    BY <1>6, <1>8, <1>9

LEMMA SelectRecord ==
    ASSUME CatInv, RecordsOK, NEW s \in Sessions, Acts(s), ses'[s].pc = "new_version"
    PROVE  /\ ses'[s].uuid = ses[s].uuid /\ ses'[s].base = ses[s].base
           /\ Dir(ses[s].uuid) /\ ses[s].base \in DOMAIN log[ses[s].uuid]
           /\ RowOf(ses'[s]) /\ UNCHANGED <<db, log>>
  <1>1. /\ Inv /\ DOMAIN ses = Sessions /\ DOMAIN ses[s] = SesFields
        /\ Arrival(s, ses'[s].pc) /\ RecordOK(ses[s])
    BY Arrives DEF CatInv, Inv, SesShape, RecordsOK
  <1>2. ASSUME NEW ok, End(s, ok)
        PROVE  FALSE
    BY <1>1, <1>2, EndIdle
  <1>3. SelectLastVersion(s) /\ ses[s].pc = "last_version" /\ UNCHANGED <<db, log>>
    BY <1>1 DEF Arrival, SelectLastVersion, At, storeVars
  <1>4. PICK i \in last_version(db, ses[s].uuid) :
           ses' = [ses EXCEPT ![s].pc = "new_version", ![s].row = i]
    BY <1>2, <1>3 DEF SelectLastVersion
  <1>5. ses'[s].uuid = ses[s].uuid /\ ses'[s].base = ses[s].base /\ ses'[s].row = i
    BY <1>1, <1>4 DEF SesFields
  <1>6. RowOf(ses'[s])
    <2>1. PICK u : u = ses[s].uuid
      OBVIOUS
    <2>2. /\ \A v \in db.versions : \A r \in db.tables : v.id = i /\ v.table = r.id => r.uuid = u
          /\ \E v \in db.versions : i \in Nat /\ i <= v.id
      BY <1>4, <2>1, LastVersionIs
    <2>3. QED
      BY <1>5, <2>1, <2>2 DEF RowOf
  <1>7. QED
    BY <1>1, <1>3, <1>5, <1>6 DEF RecordOK

LEMMA RecordsStep ==
    ASSUME AtomicRename, CatInv, CatInv', RecordsOK, ~Drops, ~Retargets, Stable => LinksOK, [Next]_vars
    PROVE  RecordsOK'
  <1>1. CASE UNCHANGED vars
    BY <1>1 DEF vars, RecordsOK, RecordOK, RowOf, Dir, Loadable
  <1>2. ASSUME NEW s \in Sessions, Acts(s)
        PROVE  RecordsOK'
    <2>1. Inv /\ Others(s)
      BY <1>2, Arrives DEF CatInv
    <2>2. ASSUME NEW r \in Sessions \ {s}
          PROVE  RecordOK(ses[r])'
      <3>1. PICK x : x = ses[r]
        OBVIOUS
      <3>2. RecordOK(x)'
        BY <1>2, <3>1, RecordKept DEF RecordsOK
      <3>3. QED
        BY <2>1, <3>1, <3>2 DEF Others
    <2>3. RecordOK(ses[s])'
      <3>1. PICK u, b, x : u = ses[s].uuid /\ b = ses[s].base /\ x = ses'[s]
        OBVIOUS
      <3>2. CASE x.pc = "last_version"
        <4>1. x.uuid = u /\ Dir(u) /\ x.base \in DOMAIN log'[u]
          BY <1>2, <3>1, <3>2, CommitRecord
        <4>2. Dir(u)'
          BY <2>1, <4>1, LogKept
        <4>3. RecordOK(x)'
          BY <3>2, <4>1, <4>2 DEF RecordOK
        <4>4. QED
          BY <3>1, <4>3
      <3>3. CASE x.pc = "new_version"
        <4>1. x.uuid = u /\ x.base = b /\ Dir(u) /\ b \in DOMAIN log[u] /\ RowOf(x) /\ UNCHANGED <<db, log>>
          BY <1>2, <3>1, <3>3, SelectRecord
        <4>2. Dir(u)' /\ RowOf(x)'
          BY <2>1, <4>1, LogKept DEF RowOf
        <4>3. RecordOK(x)'
          BY <3>3, <4>1, <4>2 DEF RecordOK
        <4>4. QED
          BY <3>1, <4>3
      <3>4. CASE x.pc \notin {"last_version", "new_version"}
        <4>1. RecordOK(x)'
          BY <1>2, <2>1, <3>1, <3>4, InsertHome DEF RecordOK
        <4>2. QED
          BY <3>1, <4>1
      <3>5. QED
        BY <3>2, <3>3, <3>4
    <2>4. QED
      BY <1>2, <2>2, <2>3, ListsStep DEF RecordsOK
  <1>3. QED
    BY <1>1, <1>2, NextActs

LEMMA RecordsInit ==
    ASSUME AtomicRename, Init
    PROVE  RecordsOK
  <1>1. PICK N, i : N = SetupDirs /\ i = Workload.imports
    OBVIOUS
  <1>2. N \in Nat /\ i \in {0, 1}
    BY <1>1, SetupIs
  <1>3. /\ log = [u \in 1 .. N |-> IF u <= i THEN <<>>
                     ELSE WithCommit(WithCommit(<<>>, 0, {}, {}), 1, {u}, {})]
        /\ ses = [s \in Sessions |-> Idle]
    BY <1>1 DEF Init
  <1>4. ASSUME NEW r \in db.tables, NEW v \in db.versions, v.table = r.id
        PROVE  v.version \in DOMAIN log[r.uuid]
    <2>1. PICK c \in Nat : \E order : SetupRows(order, c)
      BY SetupRowsAre
    <2>2. PICK order : SetupRows(order, c)
      BY <2>1
    <2>3. PICK n \in Workload.tables : r.uuid = i + order[n]
      BY <1>1, <2>2 DEF SetupRows
    <2>4. v.version \in {0, 1}
      BY <2>2 DEF SetupRows
    <2>5. order[n] \in 1 .. c
      BY <2>2 DEF SetupRows
    <2>6. r.uuid \in Nat /\ ~ (r.uuid <= i)
      BY <1>2, <2>3, <2>5
    <2>7. r.uuid \in 1 .. N
      BY <1>3, InitInv DEF Inv, DbOK, Dir
    <2>8. log[r.uuid] = WithCommit(WithCommit(<<>>, 0, {}, {}), 1, {r.uuid}, {})
      BY <1>3, <2>6, <2>7
    <2>9. DOMAIN log[r.uuid] = 0 .. 1
      BY <2>6, <2>8, SetupLog
    <2>10. QED
      BY <2>4, <2>9
  <1>5. \A s \in Sessions : RecordOK(ses[s])
    BY <1>3 DEF RecordOK, Idle
  <1>6. QED
    BY <1>4, <1>5 DEF RecordsOK

\* A version that the catalog lists is one of the log of its table, although the
\* commit, the lookup of the last version and the insertion of the next one are
\* three steps with those of other statements in between: no statement lists
\* what another table has committed.  A DROP is excluded, because the catalog
\* gives the row ids of dropped tables and versions again, and so is an UPDATE or
\* DELETE that meets a RENAME, which may commit to another table than it records.
THEOREM VersionsAreCommitted ==
    ASSUME AtomicRename PROVE Spec => [](~Drops /\ ~Retargets => VersionsCommitted)
  <1> DEFINE Steady == ~Drops /\ ~Retargets
  <1>1. Init => (Steady => RecordsOK)
    BY RecordsInit
  <1>2. CatInv /\ CatInv' /\ (Stable => LinksOK) /\ (Steady => RecordsOK) /\ [Next]_vars
          => (Steady => RecordsOK)'
    <2>1. ASSUME CatInv, [Next]_vars
          PROVE  Steady' <=> Steady
      BY <2>1, StoreStep, WorkKept DEF StoreGoal, Grow, CatInv, Retargets, Stable, Asks
    <2>2. QED
      BY <2>1, RecordsStep
  <1>3. RecordsOK => VersionsCommitted
    BY DEF RecordsOK, VersionsCommitted, VersionsOf
  <1>4. QED
    BY <1>1, <1>2, <1>3, CatInvariance, Links, PTL DEF Spec

----------------------------------------------------------------------------
(* A query sees what was committed when it came in                         *)

Creates == Asks("create") \/ Asks("ctas") \/ Asks("upload") \/ Asks("convert")

\* What a query may not miss was a version of the table, and still is one if
\* the table is there.
Noted(x) == x.seen[2] = -1 \/ At_Version(x.seen[1], x.seen[2])

\* No table in memory is behind what a query may not miss.
Current(x) ==
    \A n \in DOMAIN mem.tables : mem.tables[n].uuid = x.seen[1] =>
        mem.tables[n].version = NotLoaded \/ mem.tables[n].version >= x.seen[2]

\* A snapshot of the catalog has no table loaded.
Unloaded(m) == \A n \in DOMAIN m.tables : m.tables[n].version = NotLoaded

SeenOK(x) ==
    /\ x.pc \notin Creating
    /\ x.pc = "register" => Unloaded(x.snap)
    /\ x.st.op = "select" =>
         /\ x.pc \in {"reload", "register", "plan"} => Noted(x)
         /\ x.pc = "plan" => Current(x)
         /\ x.pc \in {"etag", "read"} /\ x.uuid = x.seen[1] => x.base >= x.seen[2]

AllSeen == \A s \in Sessions : SeenOK(ses[s])

\* A table that is loaded now is not behind.
LEMMA LatestIsCurrent ==
    ASSUME Inv, ~Creates, NEW x, Noted(x), Dir(x.seen[1]), Loadable(x.seen[1])
    PROVE  Latest(x.seen[1]) >= x.seen[2]
  <1>1. PICK u, v : u = x.seen[1] /\ v = x.seen[2]
    OBVIOUS
  <1>2. Alive(u)
    BY <1>1 DEF Alive, TakesOver, Creates
  <1>3. Latest(u) \in Nat /\ \A w \in DOMAIN log[u] : w <= Latest(u)
    BY <1>1, LatestThere DEF Inv, Dir
  <1>4. CASE v = -1
    BY <1>1, <1>3, <1>4
  <1>5. CASE v \in Nat /\ v \in DOMAIN log[u]
    BY <1>1, <1>3, <1>5
  <1>6. QED
    BY <1>1, <1>2, <1>4, <1>5 DEF Noted, At_Version

LEMMA MemCurrent ==
    ASSUME Inv, ~Creates, AllSeen, NEW s \in Sessions, Acts(s), NEW x, Noted(x), Current(x)
    PROVE  Current(x)'
  <1>1. CASE LookedUp(mem')
    <2>1. ASSUME NEW n \in DOMAIN mem.tables, mem.tables[n].uuid = x.seen[1]
          PROVE  mem'.tables[n].version = NotLoaded \/ mem'.tables[n].version >= x.seen[2]
      <3>1. Dir(x.seen[1])
        BY <2>1 DEF Inv, MapOK, EntryOK
      <3>2. CASE mem'.tables[n].version = mem.tables[n].version
        BY <2>1, <3>2 DEF Current
      <3>3. CASE Loadable(x.seen[1]) /\ mem'.tables[n].version = Latest(x.seen[1])
        BY <3>1, <3>3, LatestIsCurrent
      <3>4. QED
        BY <1>1, <2>1, <3>2, <3>3 DEF LookedUp
    <2>2. QED
      BY <1>1, <2>1 DEF LookedUp, Current
  <1>2. CASE RegisterCatalog(s)
    BY <1>2 DEF RegisterCatalog, At, AllSeen, SeenOK, Unloaded, Current
  <1>3. CASE RegisterTable(s)
    BY <1>3 DEF RegisterTable, At, AllSeen, SeenOK, Creating
  <1>4. QED
    BY <1>1, <1>2, <1>3, MemMoves

LEMMA SeenKept ==
    ASSUME AtomicRename, Inv, ~Creates, AllSeen, NEW s \in Sessions, Acts(s), NEW x, SeenOK(x)
    PROVE  SeenOK(x)'
  <1>1. Grow
    BY ActsNext, StoreStep DEF StoreGoal
  <1>2. Noted(x) => Noted(x)'
    <2>1. PICK u, v : u = x.seen[1] /\ v = x.seen[2]
      OBVIOUS
    <2>2. At_Version(u, v) => At_Version(u, v)'
      BY <1>1, VersionKept
    <2>3. QED
      BY <2>1, <2>2 DEF Noted
  <1>3. QED
    BY <1>2, MemCurrent DEF SeenOK, Unloaded

\* A step of a query keeps what it may not miss.
LEMMA SeenSame ==
    ASSUME Inv, NEW s \in Sessions, NEW y, y = ses'[s],
           BuildCatalog(s) \/ RegisterCatalog(s) \/ ExecuteQuery(s) \/ PlanTimeTravel(s), y # Idle
    PROVE  y.seen = ses[s].seen /\ y.st = ses[s].st /\ y.uuid = ses[s].uuid /\ y.base = ses[s].base
  <1>1. DOMAIN ses = Sessions /\ DOMAIN ses[s] = SesFields
    BY DEF Inv, SesShape
  <1>2. ASSUME NEW pc, Goto(s, pc)
        PROVE  y.seen = ses[s].seen /\ y.st = ses[s].st /\ y.uuid = ses[s].uuid /\ y.base = ses[s].base
    BY <1>1, <1>2 DEF Goto, SesFields
  <1>3. ASSUME NEW ok
        PROVE  ~End(s, ok)
    BY <1>1 DEF End
  <1>4. CASE BuildCatalog(s)
    BY <1>1, <1>4 DEF BuildCatalog, SesFields
  <1>5. CASE RegisterCatalog(s)
    BY <1>1, <1>5 DEF RegisterCatalog, SesFields
  <1>6. QED
    BY <1>2, <1>3, <1>4, <1>5 DEF ExecuteQuery, PlanTimeTravel

LEMMA SnapUnloaded ==
    ASSUME Inv, NEW s \in Sessions, BuildCatalog(s)
    PROVE  Unloaded(ses'[s].snap)
  <1>1. PICK l : l = list_collections(db).tables
    OBVIOUS
  <1>2. PICK z : z = [schemas |-> db.schemas,
                      tables |-> [i \in Names(db) |-> [uuid |-> l[i], version |-> NotLoaded]],
                      versioned |-> {}]
    OBVIOUS
  <1>3. ses' = [ses EXCEPT ![s].pc = "register", ![s].snap = z]
    BY <1>1, <1>2 DEF BuildCatalog
  <1>4. ses'[s].snap = z
    BY <1>3 DEF Inv, SesShape, SesFields
  <1>5. QED
    BY <1>2, <1>4 DEF Unloaded

\* A query begins: it may not miss the last version of its table.
LEMMA BeginSeen ==
    ASSUME Inv, NEW s \in Sessions, NEW r \in Workload.requests, Begin(s, r), NEW y, y = ses'[s]
    PROVE  Noted(y)'
  <1>1. PICK u : u = list_collections(db).tables[r.t]
    OBVIOUS
  <1>2. PICK n : n = IF r.op = "select" /\ r.t \in Names(db)
                     THEN <<u, IF Loadable(u) THEN Latest(u) ELSE -1>> ELSE <<0, -1>>
    OBVIOUS
  <1>3. ses'[s].seen = n /\ UNCHANGED <<log, purged, work>>
    <2>1. ses' = [ses EXCEPT ![s] = [Idle EXCEPT !.pc = "reload", !.st = r, !.seen = n]]
      BY <1>1, <1>2 DEF Begin
    <2>2. ses'[s].seen = n
      BY <2>1 DEF Inv, SesShape, Idle
    <2>3. QED
      BY <2>2 DEF Begin
  <1>4. n[2] = -1 \/ At_Version(n[1], n[2])
    <2>1. CASE r.t \in Names(db) /\ Loadable(u)
      <3>1. \E q \in db.tables : q.name = r.t
        BY <2>1 DEF Names
      <3>2. u = (CHOOSE q \in db.tables : q.name = r.t).uuid
        BY <1>1, <2>1 DEF list_collections
      <3>3. Dir(u)
        BY <3>1, <3>2 DEF Inv, DbOK
      <3>4. At_Version(u, Latest(u))
        BY <2>1, <3>3, LatestThere DEF Inv, Dir, At_Version
      <3>5. QED
        BY <1>2, <2>1, <3>4
    <2>2. CASE ~ (r.t \in Names(db) /\ Loadable(u))
      BY <1>2, <2>2
    <2>3. QED
      BY <2>1, <2>2
  <1>5. (n[2] = -1 \/ At_Version(n[1], n[2]))'
    BY <1>3, <1>4, WorkKept DEF At_Version, Dir, Alive, Loadable
  <1>6. QED
    BY <1>3, <1>5 DEF Noted

\* A query is planned over a table that is not behind.
LEMMA PlanSeen ==
    ASSUME Inv, ~Creates, AllSeen, NEW s \in Sessions, Plan(s),
           NEW y, y = ses'[s], y.pc = "etag", y.uuid = y.seen[1]
    PROVE  y.base >= y.seen[2]
  <1>1. PICK t, u, v : t = ses[s].st.t /\ u = UuidOf(t) /\ v = VersionOf(t)
    OBVIOUS
  <1>2. DOMAIN ses = Sessions /\ DOMAIN ses[s] = SesFields /\ SesShape
    BY DEF Inv, SesShape
  <1>3. /\ ses[s].pc = "plan" /\ Op(s) = "select" /\ Found(t)
        /\ ses' = [ses EXCEPT ![s].pc = "etag", ![s].uuid = u, ![s].base = v, ![s].adds = Active(u, v)]
    <2>1. ~Goto(s, "uuid") /\ ~Goto(s, "exec") /\ ~End(s, FALSE)
      <3>1. \A pc : Goto(s, pc) => ses'[s].pc = pc
        BY <1>2, GotoArrival
      <3>2. End(s, FALSE) => ses'[s].pc = "idle"
        BY EndIdle
      <3>3. QED
        BY <3>1, <3>2
    <2>2. ~PlanError(s) /\ Op(s) = "select"
      BY <2>1 DEF Plan
    <2>3. QED
      BY <1>1, <2>1, <2>2 DEF Plan, PlanError, At, Op
  <1>4. y.uuid = u /\ y.base = v /\ y.seen = ses[s].seen
    <2>1. PICK a : a = Active(u, v)
      OBVIOUS
    <2>2. ses' = [ses EXCEPT ![s].pc = "etag", ![s].uuid = u, ![s].base = v, ![s].adds = a]
      BY <1>3, <2>1
    <2>3. QED
      BY <1>2, <2>2 DEF SesFields
  <1>5. PICK x : x = ses[s]
    OBVIOUS
  <1>6. Noted(x) /\ Current(x) /\ x.seen[1] = u /\ x.seen[2] = y.seen[2]
    BY <1>3, <1>4, <1>5 DEF AllSeen, SeenOK, Op
  <1>7. LookedUp(Touched(t)) /\ t \in DOMAIN mem.tables /\ mem.tables[t].uuid = u /\ Dir(u)
    BY <1>1, <1>3, TouchedIs DEF Found, UuidOf, Inv, MapOK, EntryOK
  <1>8. CASE mem.tables[t].version = NotLoaded
    <2>1. At_Version(u, v) /\ Loadable(u)
      BY <1>1, <1>3, <1>7, <1>8, FoundIs DEF Found
    <2>2. v # NotLoaded
      BY <2>1 DEF At_Version, NotLoaded
    <2>3. v = Latest(u)
      BY <1>1, <1>7, <1>8, <2>2 DEF LookedUp, VersionOf
    <2>4. QED
      BY <1>4, <1>6, <1>7, <2>1, <2>3, LatestIsCurrent
  <1>9. CASE mem.tables[t].version # NotLoaded
    <2>1. v = mem.tables[t].version
      BY <1>1, <1>9 DEF VersionOf, Touched
    <2>2. QED
      BY <1>4, <1>6, <1>7, <1>9, <2>1 DEF Current
  <1>10. QED
    BY <1>8, <1>9

\* What the acting session does.
LEMMA SeenOwn ==
    ASSUME AtomicRename, Inv, ~Creates, AllSeen, NEW s \in Sessions, Acts(s), NEW y, y = ses'[s]
    PROVE  SeenOK(y)'
  <1>1. PICK x : x = ses[s]
    OBVIOUS
  <1>2. SeenOK(x) /\ CtlOK(x.pc, x.st.op) /\ (x.pc # "idle" => Asks(x.st.op))
    BY <1>1, AsksOp DEF AllSeen, Inv, SesShape
  <1>3. Arrival(s, y.pc)
    BY Arrives
  <1>4. SeenOK(x)'
    BY <1>2, SeenKept
  <1>5. y.pc \notin Creating
    <2>1. CASE y.pc = "table_row"
      <3>1. x.pc \in {"create", "convert"}
        BY <1>1, <1>3, <2>1 DEF Arrival, CreateDelta, ConvertDelta, At
      <3>2. QED
        BY <1>2, <3>1 DEF CtlOK, Creates
    <2>2. ASSUME y.pc \in {"version_row", "column_rows", "register_table"}
          PROVE  x.pc \in Creating
      BY <1>1, <1>3, <2>2 DEF Arrival, InsertTableRow, InsertVersionRow, InsertColumnRows, At, Creating
    <2>3. QED
      BY <1>2, <2>1, <2>2 DEF SeenOK, Creating
  <1>6. CASE y.pc = "reload"
    <2>1. CASE FileToTable(s)
      BY <1>1, <1>2, <2>1 DEF FileToTable, At, CtlOK, Creates
    <2>2. ASSUME NEW r \in Workload.requests, Begin(s, r)
          PROVE  SeenOK(y)'
      <3>1. Noted(y)'
        BY <2>2, BeginSeen
      <3>2. QED
        BY <1>6, <3>1 DEF SeenOK, Creating
    <2>3. QED
      BY <1>3, <1>6, <2>1, <2>2 DEF Arrival
  <1>7. CASE y.pc = "register"
    <2>1. BuildCatalog(s) /\ x.pc = "reload" /\ y # Idle
      BY <1>1, <1>3, <1>7 DEF Arrival, BuildCatalog, At, Idle
    <2>2. Unloaded(y.snap) /\ y.seen = x.seen /\ y.st = x.st
      BY <1>1, <2>1, SnapUnloaded, SeenSame
    <2>3. x.st.op = "select" => Noted(y)'
      BY <1>4, <2>1, <2>2 DEF SeenOK, Noted
    <2>4. QED
      BY <1>5, <1>7, <2>2, <2>3 DEF SeenOK, Unloaded
  <1>8. CASE y.pc = "plan"
    <2>1. RegisterCatalog(s) /\ x.pc = "register" /\ y # Idle /\ mem' = x.snap
      BY <1>1, <1>3, <1>8 DEF Arrival, RegisterCatalog, At, Idle
    <2>2. y.seen = x.seen /\ y.st = x.st
      BY <1>1, <2>1, SeenSame
    <2>3. x.st.op = "select" => Noted(y)'
      BY <1>4, <2>1, <2>2 DEF SeenOK, Noted
    <2>4. Current(y)'
      BY <1>2, <2>1 DEF SeenOK, Unloaded, Current
    <2>5. QED
      BY <1>5, <1>8, <2>2, <2>3, <2>4 DEF SeenOK
  <1>9. CASE y.pc = "etag"
    BY <1>3, <1>5, <1>9, PlanSeen DEF Arrival, SeenOK
  <1>10. CASE y.pc = "read"
    <2>1. ExecuteQuery(s) \/ PlanTimeTravel(s)
      BY <1>3, <1>10 DEF Arrival
    <2>2. y # Idle
      BY <1>10 DEF Idle
    <2>3. y.seen = x.seen /\ y.st = x.st /\ y.uuid = x.uuid /\ y.base = x.base
      BY <1>1, <2>1, <2>2, SeenSame
    <2>4. x.pc = "etag" \/ x.pc = "plan_travel"
      BY <1>1, <2>1 DEF ExecuteQuery, PlanTimeTravel, At
    <2>5. QED
      BY <1>2, <1>5, <1>10, <2>3, <2>4 DEF SeenOK, CtlOK
  <1>11. QED
    BY <1>5, <1>6, <1>7, <1>8, <1>9, <1>10 DEF SeenOK

LEMMA SeenStep ==
    ASSUME AtomicRename, CatInv, ~Creates, AllSeen, [Next]_vars
    PROVE  AllSeen'
  <1>1. CASE UNCHANGED vars
    BY <1>1, WorkKept DEF vars, AllSeen, SeenOK, Noted, Current, At_Version, Dir, Alive, Loadable
  <1>2. ASSUME NEW s \in Sessions, Acts(s)
        PROVE  AllSeen'
    <2>1. Inv /\ Others(s)
      BY <1>2, Arrives DEF CatInv
    <2>2. ASSUME NEW r \in Sessions
          PROVE  SeenOK(ses[r])'
      <3>1. PICK x : x = ses'[r]
        OBVIOUS
      <3>2. CASE r = s
        BY <1>2, <2>1, <3>1, <3>2, SeenOwn
      <3>3. CASE r # s
        <4>1. x = ses[r]
          BY <2>1, <2>2, <3>1, <3>3 DEF Others
        <4>2. SeenOK(x)'
          BY <1>2, <2>1, <4>1, SeenKept DEF AllSeen
        <4>3. QED
          BY <3>1, <4>2
      <3>4. QED
        BY <3>2, <3>3
    <2>3. QED
      BY <2>2 DEF AllSeen
  <1>3. QED
    BY <1>1, <1>2, NextActs

\* A query sees at least what was committed when its request came in, however
\* the map it is planned over is replaced and filled by other sessions, and
\* whatever they commit, vacuum, rename or drop meanwhile.  Statements that make
\* tables are excluded: their last step puts a new table at version 0 into a map
\* that may have been rebuilt, without the table, after others wrote to it.
THEOREM ReadsAreFresh == ASSUME AtomicRename PROVE Spec => [](~Creates => ReadsFresh)
  <1>1. Init => (~Creates => AllSeen)
    BY DEF Init, AllSeen, SeenOK, Idle, Creating
  <1>2. CatInv /\ (~Creates => AllSeen) /\ [Next]_vars => (~Creates => AllSeen)'
    <2>1. ASSUME CatInv, [Next]_vars
          PROVE  Creates' <=> Creates
      BY <2>1, StoreStep, WorkKept DEF StoreGoal, Grow, CatInv, Creates, Asks
    <2>2. QED
      BY <2>1, SeenStep
  <1>3. AllSeen => ReadsFresh
    BY DEF AllSeen, SeenOK, ReadsFresh, Op
  <1>4. QED
    BY <1>1, <1>2, <1>3, CatInvariance, PTL DEF Spec

=============================================================================
