----------------------------- MODULE Statements -----------------------------
(* Sessions that execute SQL statements and uploads in one Seafowl context:  *)
(* src/context/{logical,physical,delta,mod}.rs over the metadata database    *)
(* (Repository), the Delta tables in the object store and the catalog held   *)
(* in memory, which every session shares and every statement reloads.        *)
(*                                                                           *)
(* A step is what runs between two awaits that reach the database or the     *)
(* object store.  A row is named by the file its INSERT wrote, a file by a   *)
(* number, a table's directory by the number that stands for its uuid.       *)
EXTENDS Integers, Sequences, TLC, Functions, Repository

CONSTANTS
  Sessions,       \* concurrent requests
  Tables,         \* table names: pairs <<schema, name>>
  DefaultSchema,
  Workloads,      \* what may be asked of the system, by name: see IsWorkload
  AtomicRename    \* rename_if_not_exists refuses to replace a log entry

(* A request: what to do (op), with which table (t), the other name of a     *)
(* RENAME (to), and its option (opt): IF [NOT] EXISTS, or a WHERE clause.    *)
Ops == {"create", "ctas", "convert", "insert", "update", "delete", "truncate",
        "vacuum", "drop", "rename", "create_schema", "drop_schema", "upload",
        "select", "travel"}

Schemas == {n[1] : n \in Tables} \cup {DefaultSchema}

(* The tables that exist at the start, with one row each; how many           *)
(* directories of Parquet files a CONVERT may name (0 or 1); the statements  *)
(* that may be issued and how many of them; and how many calls to the        *)
(* database or the object store may fail.                                    *)
IsWorkload(w) ==
  /\ \A r \in w.requests : r.op \in Ops /\ r.t \in Tables /\ r.to \in Tables /\ r.opt \in BOOLEAN
  /\ w.tables \subseteq Tables /\ IsFiniteSet(w.tables)
  /\ w.imports \in {0, 1}
  /\ (\E r \in w.requests : r.op = "convert") => w.imports = 1
  /\ w.statements \in Nat /\ w.faults \in Nat

ASSUME StatementsAssumption ==
  /\ \A n \in DOMAIN Workloads : IsWorkload(Workloads[n])
  /\ <<>> \notin Tables /\ AtomicRename \in BOOLEAN

VARIABLES
  work,     \* the name of the workload of this behaviour
  db,       \* the metadata database: schemas, tables, versions
  log,      \* log[u]: the Delta log of directory u, a function from versions to commits
  objs,     \* objs[u]: the data files in directory u
  rows,     \* rows[f]: the rows in data file f
  mem,      \* the catalog in memory: schemas, tables, and tables at a version
  ses,      \* what each session is doing
  cache,    \* cache[s]: the last result an HTTP client got, with its ETag
  out,      \* out[s]: how the last statement of a session ended
  budget,   \* statements not yet issued
  faults,   \* faults not yet happened
  purged    \* history: directories a DROP has deleted from

vars == <<work, db, log, objs, rows, mem, ses, cache, out, budget, faults, purged>>

Workload == Workloads[work]

NoMap  == [schemas |-> {}, tables |-> <<>>, versioned |-> {}]
NoTag  == [uuid |-> 0, version |-> -1, body |-> {}]
NoRequest == [op |-> "none"]

(* The text of an error, in place of rows. *)
ErrorBody == {0}

(* uuid: the directory that is written to; tab: the Delta table the session  *)
(* holds, loaded at version base; adds, rems: the files of its next commit;  *)
(* row, new: ids of rows in the database; left: tables a DROP SCHEMA has yet *)
(* to drop, cur the one it is at; seen: the table's state when a read began. *)
(* A read keeps the files of its plan in adds.                               *)
Idle == [pc |-> "idle", st |-> NoRequest, snap |-> NoMap, uuid |-> 0, tab |-> 0,
         base |-> -1, adds |-> {}, rems |-> {}, row |-> 0, new |-> 0,
         left |-> {}, cur |-> <<>>, again |-> FALSE, seen |-> <<0, -1>>]

(* ------------------------------ Delta tables ----------------------------- *)

Loadable(u) == 0 \in DOMAIN log[u]

Latest(u) == Max(DOMAIN log[u])

(* The data files of a table at a version. *)
Active(u, v) ==
  {f \in UNION {log[u][w].add : w \in {x \in DOMAIN log[u] : x <= v}} :
     ~ \E w \in DOMAIN log[u] : w <= v /\ f \in log[u][w].rem}

RowsIn(files) == UNION {rows[f] : f \in files}

Body(u, v) == RowsIn(Active(u, v))

(* The next version a commit based on version v can have.  With a rename     *)
(* that refuses to replace, it is the first one that nobody has written.     *)
NextVersion(l, v) ==
  IF AtomicRename THEN Min((v + 1 .. v + 1 + Cardinality(DOMAIN l)) \ DOMAIN l)
  ELSE v + 1

(* delta-rs refuses a commit that removes a file some later commit removed.  *)
Conflict(u, v, rems) ==
  AtomicRename /\ \E w \in DOMAIN log[u] : w > v /\ log[u][w].rem \cap rems # {}

WithCommit(l, v, add, rem) ==
  [w \in DOMAIN l \cup {v} |-> IF w = v THEN [add |-> add, rem |-> rem] ELSE l[w]]

(* ------------------------- The catalog in memory ------------------------- *)

NotLoaded == -1

(* A table provider is found if the name is in the map and, when the table   *)
(* was not loaded yet, its log can be.                                       *)
Found(n) ==
  /\ n \in DOMAIN mem.tables
  /\ mem.tables[n].version = NotLoaded => Loadable(mem.tables[n].uuid)

(* Looking a table up loads it, once.                                        *)
Touched(n) ==
  LET e == mem.tables[n]
  IN  IF e.version = NotLoaded
      THEN [mem EXCEPT !.tables[n].version = Latest(e.uuid)]
      ELSE mem

UuidOf(n) == mem.tables[n].uuid
VersionOf(n) == Touched(n).tables[n].version

(* ------------------------------- Sessions -------------------------------- *)

At(s, pc) == ses[s].pc = pc
Op(s) == ses[s].st.op

(* The statement ends, with success or with an error. *)
End(s, ok) ==
  /\ ses' = [ses EXCEPT ![s] = Idle]
  /\ out' = [out EXCEPT ![s] = IF ok THEN "ok" ELSE "error"]

Goto(s, pc) == ses' = [ses EXCEPT ![s].pc = pc] /\ UNCHANGED out

dbVars == <<db>>
storeVars == <<log, objs, rows, purged>>
envVars == <<work, cache, budget, faults>>

(* The next statement of a session: an HTTP or Flight request, or one of the *)
(* statements of a multi-statement query, which are executed one by one.     *)
Begin(s, r) ==
  /\ At(s, "idle")
  /\ budget > 0
  /\ budget' = budget - 1
  /\ ses' = [ses EXCEPT ![s] =
       [Idle EXCEPT !.pc = "reload", !.st = r,
          !.seen = IF r.op = "select" /\ r.t \in Names(db)
                   THEN LET u == list_collections(db).tables[r.t]
                        IN  <<u, IF Loadable(u) THEN Latest(u) ELSE -1>>
                   ELSE <<0, -1>>]]
  /\ out' = [out EXCEPT ![s] = "none"]
  /\ UNCHANGED <<work, db, log, objs, rows, mem, cache, faults, purged>>

(* reload_schema: build_catalog queries the database, *)
BuildCatalog(s) ==
  /\ At(s, "reload")
  /\ ses' = [ses EXCEPT ![s].pc = "register",
               ![s].snap = [schemas   |-> db.schemas,
                            tables    |-> [n \in Names(db) |->
                               [uuid |-> list_collections(db).tables[n], version |-> NotLoaded]],
                            versioned |-> {}]]
  /\ UNCHANGED <<db, storeVars, mem, envVars, out>>

RegisterCatalog_KeepLoaded(s) ==
  /\ At(s, "register")
  /\ mem' = [ses[s].snap EXCEPT !.tables =
       [n \in DOMAIN @ |-> IF n \in DOMAIN mem.tables THEN mem.tables[n] ELSE @[n]]]
  /\ ses' = [ses EXCEPT ![s].snap = NoMap, ![s].pc = "plan"]
  /\ UNCHANGED <<db, storeVars, envVars, out>>

(* then register_catalog replaces the map all sessions use.                  *)
RegisterCatalog(s) ==
  /\ At(s, "register")
  /\ mem' = ses[s].snap
  /\ ses' = [ses EXCEPT ![s].snap = NoMap,
               ![s].pc = IF Op(s) # "upload" THEN "plan"
                         ELSE IF ses[s].again THEN "create" ELSE "file_to_table"]
  /\ UNCHANGED <<db, storeVars, envVars, out>>

(* create_logical_plan_from_statement.  Queries, INSERT, UPDATE and DELETE   *)
(* need their table; RENAME needs the old name and not the new one; the      *)
(* other statements are not looked at before they are executed.              *)
PlanError(s) ==
  LET st == ses[s].st
  IN  CASE st.op \in {"select", "insert", "update", "delete"} -> ~ Found(st.t)
        [] st.op = "rename" -> ~ Found(st.t) \/ Found(st.to)
        [] OTHER -> FALSE

Plan(s) ==
  /\ At(s, "plan") /\ Op(s) # "travel"
  /\ \/ PlanError(s) /\ End(s, FALSE) /\ UNCHANGED mem
     \/ /\ ~ PlanError(s)
        /\ IF Op(s) = "select"
           THEN /\ ses' = [ses EXCEPT ![s].pc = "etag", ![s].uuid = UuidOf(ses[s].st.t),
                             ![s].base = VersionOf(ses[s].st.t),
                             ![s].adds = Active(UuidOf(ses[s].st.t), VersionOf(ses[s].st.t))]
                /\ UNCHANGED out
           ELSE Goto(s, IF Op(s) = "insert" THEN "uuid" ELSE "exec")
        /\ mem' = IF Op(s) \in {"select", "insert", "update", "delete", "rename"}
                  THEN Touched(ses[s].st.t) ELSE mem
  /\ UNCHANGED <<db, storeVars, envVars>>

(* ------------------------ CREATE TABLE and CONVERT ----------------------- *)

(* CREATE TABLE AS does nothing IF NOT EXISTS and the table is there; plain  *)
(* CREATE TABLE does not look at the option.                                 *)
ExecCreate(s) ==
  /\ At(s, "exec") /\ Op(s) \in {"create", "ctas", "convert"}
  /\ IF Op(s) = "ctas" /\ ses[s].st.opt /\ Found(ses[s].st.t)
     THEN End(s, TRUE) /\ mem' = Touched(ses[s].st.t)
     ELSE Goto(s, IF Op(s) = "convert" THEN "convert" ELSE "create") /\ UNCHANGED mem
  /\ UNCHANGED <<db, storeVars, envVars>>

(* create_delta_table: the Delta log comes first, in a new directory, *)
CreateDelta(s) ==
  /\ At(s, "create")
  /\ \/ ses[s].st.t[1] \notin db.schemas /\ End(s, FALSE) /\ UNCHANGED <<log, objs>>
     \/ /\ ses[s].st.t[1] \in db.schemas
        /\ log' = Append(log, WithCommit(<<>>, 0, {}, {}))
        /\ objs' = Append(objs, {})
        /\ ses' = [ses EXCEPT ![s].pc = "table_row", ![s].uuid = Len(log) + 1]
        /\ UNCHANGED out
  /\ UNCHANGED <<db, rows, purged, mem, envVars>>

(* or in the directory whose files a CONVERT takes over; one that has a log  *)
(* already is left alone and not registered, one without files is refused.   *)
ConvertDelta(s) ==
  /\ At(s, "convert")
  /\ \/ /\ ses[s].st.t[1] \notin db.schemas \/ (~ Loadable(1) /\ objs[1] = {})
        /\ End(s, FALSE) /\ UNCHANGED log
     \/ ses[s].st.t[1] \in db.schemas /\ Loadable(1) /\ End(s, TRUE) /\ UNCHANGED log
     \/ /\ ses[s].st.t[1] \in db.schemas
        /\ ~ Loadable(1) /\ objs[1] # {}
        /\ log' = [log EXCEPT ![1] = WithCommit(<<>>, 0, objs[1], {})]
        /\ ses' = [ses EXCEPT ![s].pc = "table_row", ![s].uuid = 1]
        /\ UNCHANGED out
  /\ UNCHANGED <<db, objs, rows, purged, mem, envVars>>

(* Then the catalog, in three statements (TableStore::create): the row of    *)
(* the table, unless the schema is gone or the name is taken,                *)
InsertTableRow(s) ==
  /\ At(s, "table_row")
  /\ LET t == ses[s].st.t
         fails == t[1] \notin db.schemas \/ t \in Names(db)
     IN  \/ fails /\ End(s, FALSE) /\ UNCHANGED db
         \/ /\ ~ fails
            /\ db' = create_table_row(db, t, ses[s].uuid)
            /\ ses' = [ses EXCEPT ![s].pc = "version_row", ![s].row = NextId(db.tables)]
            /\ UNCHANGED out
  /\ UNCHANGED <<storeVars, mem, envVars>>

(* the row of its first version, unless the table is gone, *)
InsertVersionRow(s) ==
  /\ At(s, "version_row")
  /\ LET gone == ses[s].row \notin {r.id : r \in db.tables}
     IN  \/ gone /\ End(s, FALSE) /\ UNCHANGED db
         \/ /\ ~ gone
            /\ db' = create_table_version(db, ses[s].row)
            /\ ses' = [ses EXCEPT ![s].pc = "column_rows", ![s].new = NextId(db.versions)]
            /\ UNCHANGED out
  /\ UNCHANGED <<storeVars, mem, envVars>>

(* the rows of its columns, unless the version is gone.                      *)
InsertColumnRows(s) ==
  /\ At(s, "column_rows")
  /\ LET gone == ses[s].new \notin {v.id : v \in db.versions}
     IN  \/ gone /\ End(s, FALSE) /\ UNCHANGED db
         \/ ~ gone /\ db' = create_table_columns(db, ses[s].new) /\ Goto(s, "register_table")
  /\ UNCHANGED <<storeVars, mem, envVars>>

(* Finally the map in memory, which may have been reloaded since.            *)
RegisterTable(s) ==
  /\ At(s, "register_table")
  /\ LET t == ses[s].st.t
         fails == t[1] \notin mem.schemas \/ t \in DOMAIN mem.tables
     IN  \/ fails /\ End(s, FALSE) /\ UNCHANGED mem
         \/ /\ ~ fails
            /\ mem' = [mem EXCEPT !.tables =
                         [n \in DOMAIN @ \cup {t} |->
                            IF n = t THEN [uuid |-> ses[s].uuid, version |-> 0] ELSE @[n]]]
            /\ IF Op(s) \in {"ctas", "upload"} THEN Goto(s, "uuid") ELSE End(s, TRUE)
  /\ UNCHANGED <<db, storeVars, envVars>>

(* file_to_table: the schema is looked up by its name, the table without     *)
(* its schema, that is in the default one.  A schema that is missing is      *)
(* created, and the catalog reloaded.                                        *)
FileToTable(s) ==
  /\ At(s, "file_to_table")
  /\ LET t == ses[s].st.t
         unqualified == <<DefaultSchema, t[2]>>
     IN  \/ /\ t[1] \in mem.schemas
            /\ Goto(s, IF Found(unqualified) THEN "uuid" ELSE "create")
            /\ mem' = IF Found(unqualified) THEN Touched(unqualified) ELSE mem
            /\ UNCHANGED db
         \/ /\ t[1] \notin mem.schemas /\ t[1] \in db.schemas
            /\ End(s, FALSE) /\ UNCHANGED <<db, mem>>
         \/ /\ t[1] \notin mem.schemas /\ t[1] \notin db.schemas
            /\ db' = create_collection(db, t[1])
            /\ ses' = [ses EXCEPT ![s].pc = "reload", ![s].again = TRUE]
            /\ UNCHANGED <<mem, out>>
  /\ UNCHANGED <<storeVars, envVars>>

(* ----------------------- INSERT, UPDATE and DELETE ----------------------- *)

(* plan_to_delta_table: the directory comes from the map in memory,          *)
GetTableUuid(s) ==
  /\ At(s, "uuid")
  /\ LET t == ses[s].st.t
     IN  \/ ~ Found(t) /\ End(s, FALSE) /\ UNCHANGED mem
         \/ /\ Found(t)
            /\ mem' = Touched(t)
            /\ ses' = [ses EXCEPT ![s].pc = "upload", ![s].uuid = UuidOf(t), ![s].tab = UuidOf(t)]
            /\ UNCHANGED out
  /\ UNCHANGED <<db, storeVars, envVars>>

(* plan_to_object_store writes the new files there, *)
Upload(s) ==
  /\ At(s, "upload")
  /\ LET f == Len(rows) + 1
     IN  /\ \/ Op(s) \in {"insert", "ctas", "upload"} /\ rows' = Append(rows, {f})
            \/ Op(s) = "update" /\ rows' = Append(rows, RowsIn(ses[s].rems))
            \/ Op(s) = "delete" /\ \E kept \in SUBSET RowsIn(ses[s].rems) :
                                      rows' = Append(rows, kept)
         /\ objs' = [objs EXCEPT ![ses[s].uuid] = @ \cup {f}]
         /\ ses' = [ses EXCEPT ![s].adds = {f},
                      ![s].pc = IF Op(s) \in {"update", "delete"} THEN "commit" ELSE "load"]
  /\ UNCHANGED <<db, log, purged, mem, envVars, out>>

(* the table is loaded, *)
LoadTable(s) ==
  /\ At(s, "load")
  /\ \/ ~ Loadable(ses[s].tab) /\ End(s, FALSE)
     \/ /\ Loadable(ses[s].tab)
        /\ ses' = [ses EXCEPT ![s].pc = "commit", ![s].base = Latest(ses[s].tab)]
        /\ UNCHANGED out
  /\ UNCHANGED <<db, storeVars, mem, envVars>>

(* UPDATE, DELETE, TRUNCATE and VACUUM load it first.                        *)
CanLoad(s) == Found(ses[s].st.t) /\ Loadable(UuidOf(ses[s].st.t))

LoadError(s) == ~ CanLoad(s) /\ End(s, FALSE) /\ UNCHANGED mem

LoadedWith(s, hit, pc) ==
  LET u == UuidOf(ses[s].st.t)
  IN  /\ mem' = Touched(ses[s].st.t)
      /\ ses' = [ses EXCEPT ![s].tab = u, ![s].base = Latest(u), ![s].rems = hit, ![s].pc = pc]
      /\ UNCHANGED out

(* The files that may hold rows a WHERE clause matches; all without one.     *)
Hits(s) ==
  LET files == Active(UuidOf(ses[s].st.t), Latest(UuidOf(ses[s].st.t)))
  IN  IF ses[s].st.opt THEN SUBSET files ELSE {files}

ExecUpdate(s) ==
  /\ At(s, "exec") /\ Op(s) = "update"
  /\ \/ LoadError(s)
     \/ CanLoad(s) /\ \E hit \in Hits(s) : LoadedWith(s, hit, "dir")
  /\ UNCHANGED <<db, storeVars, envVars>>

(* What a DELETE leaves of the files it hits is written to a new one; without*)
(* a WHERE clause, or when nothing is hit, there is nothing to write.        *)
ExecDelete(s) ==
  /\ At(s, "exec_delete")
  /\ \/ LoadError(s)
     \/ /\ CanLoad(s)
        /\ \E hit \in Hits(s) :
             LoadedWith(s, hit, IF ses[s].st.opt /\ hit # {} THEN "upload" ELSE "commit")
  /\ UNCHANGED <<db, storeVars, envVars>>

ExecTruncate(s) ==
  /\ At(s, "exec") /\ Op(s) = "truncate"
  /\ \/ LoadError(s)
     \/ CanLoad(s) /\ \E hit \in Hits(s) : LoadedWith(s, hit, "commit")
  /\ UNCHANGED <<db, storeVars, envVars>>

TableDir_Swapped(s) ==
  /\ At(s, "dir") \/ (At(s, "exec") /\ Op(s) = "delete")
  /\ Found(ses[s].st.t)
  /\ mem' = Touched(ses[s].st.t)
  /\ ses' = [ses EXCEPT ![s].uuid = UuidOf(ses[s].st.t),
               ![s].pc = CASE Op(s) = "delete" -> "exec_delete"
                           [] ses[s].rems = {} -> "upload"
                           [] OTHER -> "commit"]
  /\ UNCHANGED <<db, storeVars, envVars, out>>

(* The directory of the new files is looked up on its own, in the map as it  *)
(* is then (after the load in UPDATE, before it in DELETE): nothing ties it  *)
(* to the table that is loaded.                                              *)
TableDir(s) ==
  /\ At(s, "dir") \/ (At(s, "exec") /\ Op(s) = "delete")
  /\ LET t == ses[s].st.t
     IN  \/ ~ Found(t) /\ End(s, FALSE) /\ UNCHANGED mem
         \/ /\ Found(t)
            /\ mem' = Touched(t)
            /\ ses' = [ses EXCEPT ![s].uuid = UuidOf(t),
                         ![s].pc = CASE Op(s) = "delete" -> "exec_delete"
                                     [] ses[s].rems # {} -> "upload"
                                     [] OTHER -> "commit"]
            /\ UNCHANGED out
  /\ UNCHANGED <<db, storeVars, envVars>>

CommitBase_Reload(s) == IF Loadable(ses[s].tab) THEN Latest(ses[s].tab) ELSE ses[s].base

(* The version a commit is checked against: the one that was loaded.         *)
CommitBase(s) == ses[s].base

(* commit: a new version of the table that was loaded.  TRUNCATE ends here;  *)
(* the others record the version in the catalog.                             *)
Commit(s) ==
  /\ At(s, "commit")
  /\ LET u == ses[s].tab
         v == NextVersion(log[u], CommitBase(s))
     IN  \/ Conflict(u, CommitBase(s), ses[s].rems) /\ End(s, FALSE) /\ UNCHANGED log
         \/ /\ ~ Conflict(u, CommitBase(s), ses[s].rems)
            /\ log' = [log EXCEPT ![u] = WithCommit(@, v, ses[s].adds, ses[s].rems)]
            /\ IF Op(s) = "truncate" THEN End(s, TRUE)
               ELSE ses' = [ses EXCEPT ![s].pc = "last_version", ![s].base = v] /\ UNCHANGED out
  /\ UNCHANGED <<db, objs, rows, purged, mem, envVars>>

(* create_new_version, its three statements. *)
SelectLastVersion(s) ==
  /\ At(s, "last_version")
  /\ \/ last_version(db, ses[s].uuid) = {} /\ End(s, FALSE)
     \/ \E id \in last_version(db, ses[s].uuid) :
          ses' = [ses EXCEPT ![s].pc = "new_version", ![s].row = id] /\ UNCHANGED out
  /\ UNCHANGED <<db, storeVars, mem, envVars>>

InsertNewVersion(s) ==
  /\ At(s, "new_version")
  /\ LET gone == ses[s].row \notin {v.id : v \in db.versions}
     IN  \/ gone /\ End(s, FALSE) /\ UNCHANGED db
         \/ /\ ~ gone
            /\ db' = insert_version(db, ses[s].row, ses[s].base)
            /\ ses' = [ses EXCEPT ![s].pc = "new_columns", ![s].new = NextId(db.versions)]
            /\ UNCHANGED out
  /\ UNCHANGED <<storeVars, mem, envVars>>

CopyColumns(s) ==
  /\ At(s, "new_columns")
  /\ LET orphan == /\ \E v \in db.versions : v.id = ses[s].row /\ v.columns
                   /\ ses[s].new \notin {v.id : v \in db.versions}
     IN  End(s, ~ orphan) /\ db' = copy_columns(db, ses[s].row, ses[s].new)
  /\ UNCHANGED <<storeVars, mem, envVars>>

(* --------------------------------- VACUUM -------------------------------- *)

(* VACUUM: a table that is not found is not vacuumed, only trimmed.          *)
ExecVacuum(s) ==
  /\ At(s, "exec") /\ Op(s) = "vacuum"
  /\ \/ Found(ses[s].st.t) /\ LoadError(s)
     \/ ~ Found(ses[s].st.t) /\ Goto(s, "trim") /\ UNCHANGED mem
     \/ CanLoad(s) /\ LoadedWith(s, {}, "vacuum")
  /\ UNCHANGED <<db, storeVars, envVars>>

Tombstones_Untracked(u, v) == objs[u] \ Active(u, v)

(* The files that a version of the table has removed; *)
Tombstones(u, v) ==
  {f \in objs[u] : f \notin Active(u, v) /\ \E w \in DOMAIN log[u] : w <= v /\ f \in log[u][w].rem}

(* with no retention they are all deleted, between two commits, if there are *)
(* any;                                                                      *)
Vacuum(s) ==
  /\ At(s, "vacuum")
  /\ LET u == ses[s].tab
         b == ses[s].base
         dead == Tombstones(u, b)
         start == WithCommit(log[u], NextVersion(log[u], b), {}, {})
     IN  IF dead = {} THEN UNCHANGED <<log, objs>>
         ELSE /\ objs' = [objs EXCEPT ![u] = @ \ dead]
              /\ log' = [log EXCEPT ![u] = WithCommit(start, NextVersion(start, b), {}, {})]
  /\ Goto(s, "trim")
  /\ UNCHANGED <<db, rows, purged, mem, envVars>>

(* then all versions but the last leave the catalog.                         *)
TrimVersions(s) ==
  /\ At(s, "trim")
  /\ LET t == get_table(db, ses[s].st.t)
     IN  \/ t = {} /\ End(s, FALSE) /\ UNCHANGED db
         \/ \E r \in t : End(s, TRUE) /\ db' = delete_old_versions(db, r.id)
  /\ UNCHANGED <<storeVars, mem, envVars>>

(* ---------------------------------- DROP --------------------------------- *)

(* DROP TABLE: a table that cannot be loaded is taken not to exist under IF  *)
(* EXISTS; otherwise its files are not deleted, and its row is.              *)
ExecDrop(s) ==
  /\ At(s, "exec") /\ Op(s) = "drop"
  /\ LET t == ses[s].st.t
     IN  \/ ~ Found(t) /\ ses[s].st.opt /\ End(s, TRUE) /\ UNCHANGED mem
         \/ /\ ~ Found(t) /\ ~ ses[s].st.opt
            /\ ses' = [ses EXCEPT ![s].pc = "drop_get", ![s].cur = t] /\ UNCHANGED <<mem, out>>
         \/ /\ Found(t)
            /\ mem' = Touched(t)
            /\ ses' = [ses EXCEPT ![s].pc = "purge", ![s].uuid = UuidOf(t), ![s].cur = t]
            /\ UNCHANGED out
  /\ UNCHANGED <<db, storeVars, envVars>>

(* delete_delta_table lists and deletes everything in the directory.         *)
Purge(s) ==
  /\ At(s, "purge")
  /\ log' = [log EXCEPT ![ses[s].uuid] = <<>>]
  /\ objs' = [objs EXCEPT ![ses[s].uuid] = {}]
  /\ purged' = purged \cup {ses[s].uuid}
  /\ Goto(s, "drop_get")
  /\ UNCHANGED <<db, rows, mem, envVars>>

(* A failure in the middle is logged by DROP TABLE and ends DROP SCHEMA.     *)
PurgeFails(s) ==
  /\ At(s, "purge") /\ faults > 0
  /\ faults' = faults - 1
  /\ \E kept \in SUBSET objs[ses[s].uuid] : objs' = [objs EXCEPT ![ses[s].uuid] = kept]
  /\ \/ log' = [log EXCEPT ![ses[s].uuid] = <<>>]
     \/ UNCHANGED log
  /\ purged' = purged \cup {ses[s].uuid}
  /\ IF Op(s) = "drop" THEN Goto(s, "drop_get") ELSE End(s, FALSE)
  /\ UNCHANGED <<work, db, rows, mem, cache, budget>>

DropGetTable_ByMemory(s) ==
  /\ At(s, "drop_get")
  /\ \/ ses[s].cur \in DOMAIN mem.tables /\ End(s, TRUE)
     \/ ses[s].cur \notin DOMAIN mem.tables /\ End(s, FALSE)
  /\ UNCHANGED <<db, storeVars, mem, envVars>>

(* TableStore::delete: the id of the row is looked up by name, *)
DropGetTable(s) ==
  /\ At(s, "drop_get")
  /\ LET t == get_table(db, ses[s].cur)
     IN  \/ t = {} /\ End(s, FALSE)
         \/ \E r \in t : /\ ses' = [ses EXCEPT ![s].pc = "drop_row", ![s].row = r.id]
                         /\ UNCHANGED out
  /\ UNCHANGED <<db, storeVars, mem, envVars>>

(* and the row with that id deleted.                                         *)
DropDeleteRow(s) ==
  /\ At(s, "drop_row")
  /\ LET gone == ses[s].row \notin {r.id : r \in db.tables}
     IN  \/ gone /\ End(s, FALSE) /\ UNCHANGED db
         \/ /\ ~ gone
            /\ db' = delete_table(db, ses[s].row)
            /\ IF Op(s) = "drop" THEN End(s, TRUE) ELSE Goto(s, "drop_next")
  /\ UNCHANGED <<storeVars, mem, envVars>>

(* DROP SCHEMA takes the tables of the schema from the map in memory, those  *)
(* that time travel has put there among them,                                *)
ExecDropSchema(s) ==
  /\ At(s, "exec") /\ Op(s) = "drop_schema"
  /\ LET schema == ses[s].st.t[1]
     IN  \/ schema \notin mem.schemas /\ End(s, ses[s].st.opt)
         \/ /\ schema \in mem.schemas
            /\ ses' = [ses EXCEPT ![s].pc = "drop_next",
                         ![s].left = {n \in DOMAIN mem.tables : n[1] = schema}
                                       \cup {x \in mem.versioned : x[1][1] = schema}]
            /\ UNCHANGED out
  /\ UNCHANGED <<db, storeVars, mem, envVars>>

(* deletes one after the other, *)
DropNextTable(s) ==
  /\ At(s, "drop_next")
  /\ \E n \in ses[s].left \ mem.versioned :
       \/ ~ Found(n) /\ End(s, FALSE) /\ UNCHANGED mem
       \/ /\ Found(n)
          /\ mem' = Touched(n)
          /\ ses' = [ses EXCEPT ![s].pc = "purge", ![s].uuid = UuidOf(n), ![s].cur = n,
                       ![s].left = @ \ {n}]
          /\ UNCHANGED out
  /\ UNCHANGED <<db, storeVars, envVars>>

(* (a table at a version has the files of its table, and a name that is that *)
(* of no row: the files are deleted, and then the statement fails)           *)
DropNextVersion(s) ==
  /\ At(s, "drop_next")
  /\ \E x \in ses[s].left \cap mem.versioned :
       ses' = [ses EXCEPT ![s].pc = "purge", ![s].uuid = x[2], ![s].cur = <<>>]
  /\ UNCHANGED <<db, storeVars, mem, envVars, out>>

(* and then the schema, with whatever tables it has by now.                  *)
DropSchemaRow(s) ==
  /\ At(s, "drop_next") /\ ses[s].left = {}
  /\ LET schema == ses[s].st.t[1]
     IN  /\ End(s, schema \in db.schemas)
         /\ db' = delete_collection(db, schema)
  /\ UNCHANGED <<storeVars, mem, envVars>>

(* ----------------------- CREATE SCHEMA and RENAME ------------------------ *)

ExecCreateSchema(s) ==
  /\ At(s, "exec") /\ Op(s) = "create_schema"
  /\ LET schema == ses[s].st.t[1]
     IN  /\ End(s, schema \notin db.schemas)
         /\ db' = create_collection(db, schema)
  /\ UNCHANGED <<storeVars, mem, envVars>>

(* TableStore::update: the id by name, and the new schema if it differs, *)
RenameGetTable(s) ==
  /\ At(s, "exec") /\ Op(s) = "rename"
  /\ LET st == ses[s].st
         t == get_table(db, st.t)
         fails == t = {} \/ (st.to[1] # st.t[1] /\ st.to[1] \notin db.schemas)
     IN  \/ fails /\ End(s, FALSE)
         \/ /\ ~ fails
            /\ \E r \in t : ses' = [ses EXCEPT ![s].pc = "rename_row", ![s].row = r.id]
            /\ UNCHANGED out
  /\ UNCHANGED <<db, storeVars, mem, envVars>>

(* then the row with that id; names are unique in a schema.                  *)
RenameRow(s) ==
  /\ At(s, "rename_row")
  /\ LET to == ses[s].st.to
         fails == \/ ses[s].row \notin {r.id : r \in db.tables}
                  \/ to \in Names(db)
                  \/ to[1] \notin db.schemas
     IN  /\ End(s, ~ fails)
         /\ db' = IF fails THEN db ELSE rename_table(db, ses[s].row, to)
  /\ UNCHANGED <<storeVars, mem, envVars>>

(* --------------------------------- Reads --------------------------------- *)

(* cached_read_query: the ETag stands for the tables of the plan and their   *)
(* versions.  A client that has a result with this ETag is told to keep it;  *)
NotModified(s) ==
  /\ At(s, "etag")
  /\ cache[s].uuid = ses[s].uuid /\ cache[s].version = ses[s].base
  /\ End(s, TRUE)
  /\ UNCHANGED <<db, storeVars, mem, envVars>>

ExecuteQuery(s) ==
  /\ At(s, "etag")
  /\ ~ (cache[s].uuid = ses[s].uuid /\ cache[s].version = ses[s].base)
  /\ Goto(s, "read")
  /\ UNCHANGED <<db, storeVars, mem, envVars>>

Read_TagLate(s) ==
  /\ At(s, "read")
  /\ LET u == ses[s].uuid
     IN  /\ End(s, ses[s].adds \subseteq objs[u])
         /\ cache' = IF ses[s].adds \subseteq objs[u] /\ Op(s) = "select" /\ Loadable(u)
                     THEN [cache EXCEPT ![s] = [uuid |-> u, version |-> Latest(u),
                                                body |-> RowsIn(ses[s].adds)]]
                     ELSE cache
  /\ UNCHANGED <<work, db, storeVars, mem, budget, faults>>

(* otherwise the files of the planned version are read.  When one is gone,   *)
(* or the store fails, the answer has the status and the ETag of a result    *)
(* all the same, and the text of the error in its body.                      *)
Read(s) ==
  /\ At(s, "read")
  /\ \E failing \in {0, 1} \cap 0 .. faults :
       LET u == ses[s].uuid
           there == ses[s].adds \subseteq objs[u] /\ failing = 0
       IN  /\ End(s, there)
           /\ faults' = faults - failing
           /\ cache' = IF Op(s) = "select"
                       THEN [cache EXCEPT ![s] =
                               [uuid |-> u, version |-> ses[s].base,
                                body |-> IF there THEN RowsIn(ses[s].adds) ELSE ErrorBody]]
                       ELSE cache
  /\ UNCHANGED <<work, db, storeVars, mem, budget>>

(* rewrite_time_travel_query registers the table at a version in the map of  *)
(* the session state, which is the one all sessions share,                   *)
RewriteTimeTravel(s) ==
  /\ At(s, "plan") /\ Op(s) = "travel"
  /\ LET t == ses[s].st.t
     IN  \/ ~ Found(t) /\ End(s, FALSE) /\ UNCHANGED mem
         \/ /\ Found(t) /\ ~ Loadable(UuidOf(t)) /\ End(s, FALSE) /\ mem' = Touched(t)
         \/ /\ Found(t) /\ Loadable(UuidOf(t))
            /\ \E v \in DOMAIN log[UuidOf(t)] :
                 /\ mem' = [Touched(t) EXCEPT !.versioned = @ \cup {<<t, UuidOf(t), v>>}]
                 /\ ses' = [ses EXCEPT ![s].pc = "plan_travel", ![s].uuid = UuidOf(t),
                              ![s].base = v, ![s].adds = Active(UuidOf(t), v)]
            /\ UNCHANGED out
  /\ UNCHANGED <<db, storeVars, envVars>>

(* and the query, rewritten to name that version, is planned over it.        *)
PlanTimeTravel(s) ==
  /\ At(s, "plan_travel")
  /\ \/ <<ses[s].st.t, ses[s].uuid, ses[s].base>> \in mem.versioned /\ Goto(s, "read")
     \/ <<ses[s].st.t, ses[s].uuid, ses[s].base>> \notin mem.versioned /\ End(s, FALSE)
  /\ UNCHANGED <<db, storeVars, mem, envVars>>

(* A call to the database or the object store fails, or the request is       *)
(* dropped: nothing is rolled back.                                          *)
Fail(s) ==
  /\ ~ At(s, "idle") /\ faults > 0
  /\ faults' = faults - 1
  /\ End(s, FALSE)
  /\ UNCHANGED <<work, db, storeVars, mem, cache, budget>>

(* ------------------------------ Specification ---------------------------- *)

SetupDirs == Workload.imports + Cardinality(Workload.tables)

(* The tables of the start were created (version 0) and inserted into once,  *)
(* in some order.                                                            *)
SetupDb(order) ==
  [schemas  |-> {DefaultSchema} \cup {n[1] : n \in Workload.tables},
   tables   |-> {[id |-> order[n], name |-> n, uuid |-> Workload.imports + order[n]] :
                   n \in Workload.tables},
   versions |-> {[id |-> 2 * order[n] - i, table |-> order[n], version |-> 1 - i,
                  columns |-> TRUE] : n \in Workload.tables, i \in {0, 1}}]

Init ==
  /\ work \in DOMAIN Workloads
  /\ \E order \in [Workload.tables -> 1 .. Cardinality(Workload.tables)] :
       IsInjective(order) /\ db = SetupDb(order)
  /\ log = [u \in 1 .. SetupDirs |->
              IF u <= Workload.imports THEN <<>>
              ELSE WithCommit(WithCommit(<<>>, 0, {}, {}), 1, {u}, {})]
  /\ objs = [u \in 1 .. SetupDirs |-> {u}]
  /\ rows = [f \in 1 .. SetupDirs |-> {f}]
  /\ mem = NoMap
  /\ ses = [s \in Sessions |-> Idle]
  /\ cache = [s \in Sessions |-> NoTag]
  /\ out = [s \in Sessions |-> "none"]
  /\ budget = Workload.statements
  /\ faults = Workload.faults
  /\ purged = {}

Query(s) ==
  \/ \E r \in Workload.requests : Begin(s, r)
  \/ BuildCatalog(s) \/ RegisterCatalog(s) \/ Plan(s)
  \/ NotModified(s) \/ ExecuteQuery(s) \/ Read(s)
  \/ RewriteTimeTravel(s) \/ PlanTimeTravel(s)

Dml(s) ==
  \/ GetTableUuid(s) \/ Upload(s) \/ LoadTable(s)
  \/ ExecUpdate(s) \/ ExecDelete(s) \/ ExecTruncate(s) \/ TableDir(s) \/ Commit(s)
  \/ SelectLastVersion(s) \/ InsertNewVersion(s) \/ CopyColumns(s)
  \/ ExecVacuum(s) \/ Vacuum(s) \/ TrimVersions(s)

Ddl(s) ==
  \/ ExecCreate(s) \/ CreateDelta(s) \/ ConvertDelta(s)
  \/ InsertTableRow(s) \/ InsertVersionRow(s) \/ InsertColumnRows(s) \/ RegisterTable(s)
  \/ FileToTable(s)
  \/ ExecDrop(s) \/ Purge(s) \/ PurgeFails(s) \/ DropGetTable(s) \/ DropDeleteRow(s)
  \/ ExecDropSchema(s) \/ DropNextTable(s) \/ DropNextVersion(s) \/ DropSchemaRow(s)
  \/ ExecCreateSchema(s) \/ RenameGetTable(s) \/ RenameRow(s)

Next == \E s \in Sessions : Query(s) \/ Dml(s) \/ Ddl(s) \/ Fail(s)

Spec == Init /\ [][Next]_vars

(* ------------------------------- Properties ------------------------------ *)

(* Types, and the keys of the database: no two rows share an id, a name or a *)
(* directory, so that a DROP or a DML of one table does not touch another,   *)
(* and no version is left without its table.                                 *)
TypeOK ==
  /\ db.schemas \subseteq Schemas
  /\ \A r \in db.tables : /\ r.name \in Tables /\ r.name[1] \in db.schemas
                          /\ r.uuid \in DOMAIN log
  /\ \A r, q \in db.tables : r.id = q.id \/ r.name = q.name \/ r.uuid = q.uuid => r = q
  /\ \A v, w \in db.versions : v.id = w.id => v = w
  /\ \A v \in db.versions : \E r \in db.tables : r.id = v.table
  /\ DOMAIN objs = DOMAIN log
  /\ \A u \in DOMAIN log : objs[u] \subseteq DOMAIN rows
  /\ \A u \in DOMAIN log : \A v \in DOMAIN log[u] :
       v \in Nat /\ log[u][v].add \cup log[u][v].rem \subseteq DOMAIN rows
  /\ DOMAIN mem.tables \subseteq Tables
  /\ \A s \in Sessions : ses[s].pc # "idle" => ses[s].st \in Workload.requests
  /\ budget \in 0 .. Workload.statements /\ faults \in 0 .. Workload.faults
  /\ purged \subseteq DOMAIN log

(* Every file the current version of a table refers to is in its directory,  *)
(* whatever uploads, commits and VACUUMs (which keep no old files at all)    *)
(* are in progress; only DROP takes files away from a table.                 *)
FilesPresent ==
  \A u \in DOMAIN log \ purged : Loadable(u) => Active(u, Latest(u)) \subseteq objs[u]

(* No row is in two files of a table: UPDATEs and DELETEs that rewrite the   *)
(* same files at the same time cannot both be committed.                     *)
RowsOnce ==
  \A u \in DOMAIN log : Loadable(u) =>
    \A f, g \in Active(u, Latest(u)) : f # g => rows[f] \cap rows[g] = {}

(* A row leaves a table only by a DELETE or TRUNCATE (or with the table):    *)
(* no commit undoes what another session has committed in the meantime.      *)
NoLostRows ==
  [][\A u \in DOMAIN log \ purged' :
       Loadable(u) =>
         \/ Body(u, Latest(u)) \subseteq Body(u, Latest(u))'
         \/ \E s \in Sessions : /\ At(s, "commit") /\ ses'[s].pc # "commit"
                                /\ Op(s) \in {"delete", "truncate"}]_vars

Asks(op) == \E r \in Workload.requests : r.op = op

(* A version the catalog lists is a version of that table's Delta log (where *)
(* no CREATE TABLE AS can get the row ids of a table that was dropped under  *)
(* an INSERT).                                                               *)
VersionsCommitted ==
  ~ (Asks("drop") /\ Asks("ctas")) => \A r \in db.tables : r.uuid \notin purged =>
    \A v \in VersionsOf(db, r.id) : v.version \in DOMAIN log[r.uuid]

(* A query sees at least what was committed when its request came in,        *)
(* although the catalog it is planned over is shared and reloaded by others. *)
ReadsFresh ==
  \A s \in Sessions :
    ses[s].pc \in {"etag", "read"} /\ Op(s) = "select" /\ ses[s].uuid = ses[s].seen[1]
      => ses[s].base >= ses[s].seen[2]

(* The rows a client keeps under an ETag are those of the version the ETag   *)
(* stands for, although the table may change between planning and reading.   *)
CacheMatchesTag ==
  \A s \in Sessions :
    cache[s] # NoTag /\ cache[s].uuid \notin purged /\ cache[s].body # ErrorBody =>
      cache[s].body = Body(cache[s].uuid, cache[s].version)

(* Time travel into a schema that is dropped: see DropNextVersion.           *)
DropsVersions == Asks("drop_schema") /\ Asks("travel")

(* A table in the catalog whose files were deleted is being dropped: nobody  *)
(* else meets a name that leads nowhere (without faults, renames, and time   *)
(* travel beside DROP SCHEMA).                                               *)
DroppedIsUnlisted ==
  Workload.faults = 0 /\ ~ Asks("rename") /\ ~ DropsVersions =>
    \A r \in db.tables : r.uuid \in purged =>
      \E s \in Sessions : ses[s].pc \in {"drop_get", "drop_row"} /\ ses[s].cur = r.name

(* A table in the catalog has a version to copy the next one from, unless    *)
(* the statement that writes it is under way: a session that finds the table *)
(* before would commit to it and then fail (without faults).                 *)
TableHasVersion ==
  Workload.faults = 0 => \A r \in db.tables : VersionsOf(db, r.id) = {} =>
    \E s \in Sessions : At(s, "version_row") /\ ses[s].row = r.id

(* A table the catalog lists can be used: its directory is there and it has  *)
(* a version, but for the moments in which a DROP has deleted its files and  *)
(* not yet its row, or a CREATE has not yet written the version (without     *)
(* faults; the first half also without renames, and without time travel      *)
(* beside DROP SCHEMA).                                                      *)
ListedIsUsable == DroppedIsUnlisted /\ TableHasVersion
=============================================================================
