------------------------------- MODULE Server -------------------------------
(***************************************************************************)
(* The life of Seafowl processes: loading and validating the settings,      *)
(* build_context with its default database and schema, the frontends and    *)
(* the garbage collection as subsystems of one top level, and the graceful  *)
(* shutdown (main.rs, config/).  Several processes may share a catalog and  *)
(* an object store; what a process keeps in memory goes when it ends.       *)
(* Of the statements only CREATE TABLE is here, in its two steps: module    *)
(* Statements has them all, and a garbage collection pass is module Admin.  *)
(***************************************************************************)
EXTENDS Naturals, FiniteSets

CONSTANTS Server,        \* processes of the deployment
          Table,         \* tables a process may create
          Deployment,    \* what each process is started with: [Server -> Given]
          Unset,         \* the settings an empty configuration leaves
          MaxCrashes     \* bound on kills and failing lookups

VARIABLES given,     \* command line and configuration file of each process
          conf,      \* the settings a running process has loaded
          phase,     \* how far main() has got
          exit,      \* how the last run of the process ended
          cat,       \* catalogs: the shared one and one per process
          objects,   \* object stores: tables with a directory in them
          busy,      \* frontends with a request in flight
          creating,  \* CREATE TABLEs between Delta log and catalog row: <<frontend, table>>
          ended,     \* subsystems that have returned
          cut,       \* requests in flight when a process ended by itself
          skipped,   \* history: the lookups of this start whose failure was ignored
          left,      \* history: tables whose CREATE ended without a catalog row, by store
          crashes

serverVars == <<given, conf, phase, exit, cat, objects, busy, creating, ended, cut,
                skipped, left, crashes>>

Frontend == {"http", "flight", "postgres"}
Shared == "shared"
Where == Server \cup {Shared}

InMemory == {"memory", "mode_memory"}  \* ":memory:", and "sqlite://...?mode=memory"
OwnCatalog == InMemory \cup {"file", "read_only", "postgres"}

(* SeafowlConfig with the parts that decide what main() does *)
Settings == [catalog : OwnCatalog \cup {"none"}, store : {"none", "memory", "local", "s3"},
             region : BOOLEAN, low_memory : BOOLEAN, frontends : SUBSET Frontend,
             gc : BOOLEAN]

(* --config (the default path or another one), the file there, --one-off *)
Given == [default_path : BOOLEAN, exists : BOOLEAN, settings : Settings, one_off : BOOLEAN]

(* What the constants may be. *)
ServerParametersOK ==
    /\ Shared \notin Server
    /\ Deployment \subseteq [Server -> Given]
    /\ Unset \in Settings

(* build_default_config: local data, SQLite file, HTTP only *)
DefaultConfig == [catalog |-> "file", store |-> "local", region |-> FALSE,
                  low_memory |-> FALSE, frontends |-> {"http"}, gc |-> FALSE]

validate_config_Lax(c) ==
    /\ ~ (c.store = "s3" /\ ~ c.region)
    /\ ~ c.low_memory

(* validate_config: a DSN is in memory when it contains ":memory:" *)
validate_config(c) ==
    /\ (c.catalog = "memory") = (c.store = "memory")
    /\ ~ (c.store = "s3" /\ ~ c.region)
    /\ ~ c.low_memory

(* The catalog and the store a process works on *)
CatalogAt(c, p) == IF c.catalog \in InMemory THEN p ELSE Shared
StoreAt(c, p) == IF c.store = "memory" THEN p ELSE Shared

Writable(c) == c.catalog \in OwnCatalog \ {"read_only"}

NoDatabase == [exists |-> FALSE, db |-> FALSE, schema |-> FALSE, tables |-> {}]

ServerInit == /\ given \in Deployment
              /\ conf = [p \in Server |-> Unset]
              /\ phase = [p \in Server |-> "off"]
              /\ exit = [p \in Server |-> "none"]
              /\ cat = [w \in Where |-> NoDatabase]
              /\ objects = [w \in Where |-> {}]
              /\ busy = [p \in Server |-> {}]
              /\ creating = [p \in Server |-> {}]
              /\ ended = [p \in Server |-> {}]
              /\ skipped = [p \in Server |-> {}]
              /\ left = [w \in Where |-> {}]
              /\ cut = [p \in Server |-> {}]
              /\ crashes = 0

(* The tables that requests of p are creating. *)
Creating(p) == {x[2] : x \in creating[p]}

(* The end of process p: its memory, and the requests it was serving, are gone *)
Ends(p, how) ==
    /\ phase' = [phase EXCEPT ![p] = "off"]
    /\ exit' = [exit EXCEPT ![p] = how]
    /\ conf' = [conf EXCEPT ![p] = Unset]
    /\ cat' = [cat EXCEPT ![p] = NoDatabase]
    /\ objects' = [objects EXCEPT ![p] = {}]
    /\ busy' = [busy EXCEPT ![p] = {}]
    /\ creating' = [creating EXCEPT ![p] = {}]
    /\ ended' = [ended EXCEPT ![p] = {}]
    /\ cut' = [cut EXCEPT ![p] = busy[p]]
    /\ skipped' = [skipped EXCEPT ![p] = {}]
    /\ left' = [w \in Where |-> IF w = p THEN {}
                               ELSE IF w = StoreAt(conf[p], p) THEN left[w] \cup Creating(p)
                               ELSE left[w]]
    /\ crashes' = IF how = "killed" THEN crashes + 1 ELSE crashes
    /\ UNCHANGED given

Goes(p, where) ==
    /\ phase' = [phase EXCEPT ![p] = where]
    /\ UNCHANGED <<given, exit, conf, busy, creating, ended, cut, skipped, left, crashes>>

(***************************************************************************)
(* Start                                                                   *)
(***************************************************************************)
(* The file if there is one or another path was asked for, else the        *)
(* default settings, which are written to the default path.                *)
Loaded(g) == IF g.exists THEN g.settings
             ELSE IF g.default_path THEN DefaultConfig ELSE Unset

LoadConfig(p) ==
    LET g == given[p]
        c == Loaded(g)
    IN  /\ phase[p] = "off"
        /\ \/ /\ validate_config(c)
              /\ phase' = [phase EXCEPT ![p] = "connect"]
              /\ conf' = [conf EXCEPT ![p] = c]
              /\ exit' = [exit EXCEPT ![p] = "none"]
              /\ cut' = [cut EXCEPT ![p] = {}]
              /\ given' = [given EXCEPT ![p].exists = g.exists \/ g.default_path,
                                        ![p].settings = c]
              /\ UNCHANGED <<cat, objects, busy, creating, ended, skipped, left, crashes>>
           \/ ~ validate_config(c) /\ Ends(p, "failed")

(* build_metastore: a SQLite file or a Postgres schema is created and       *)
(* migrated if needed, except in read-only mode; no catalog and a remote    *)
(* one (Clade) have no databases of their own.                              *)
Connect(p) ==
    LET c == conf[p]
        w == CatalogAt(c, p)
    IN  /\ phase[p] = "connect"
        /\ \/ /\ c.catalog = "none"
              /\ Goes(p, "collect") /\ UNCHANGED <<cat, objects>>
           \/ /\ Writable(c)
              /\ cat' = [cat EXCEPT ![w].exists = TRUE]
              /\ Goes(p, "get_database") /\ UNCHANGED objects
           \/ /\ c.catalog = "read_only" /\ cat[w].exists
              /\ Goes(p, "get_database") /\ UNCHANGED <<cat, objects>>
           \/ c.catalog = "read_only" /\ ~ cat[w].exists /\ Ends(p, "failed")

GetDefaultDatabase_AlwaysCreate(p) ==
           /\ phase[p] = "get_database"
           /\ Goes(p, "create_database")
           /\ UNCHANGED <<cat, objects>>

(* metastore.catalogs.get(DEFAULT_DB), then create(DEFAULT_DB).unwrap() *)
GetDefaultDatabase(p) ==
           /\ phase[p] = "get_database"
           /\ Goes(p, IF cat[CatalogAt(conf[p], p)].db THEN "get_schema" ELSE "create_database")
           /\ UNCHANGED <<cat, objects>>

CreateDefaultDatabase(p) ==
           LET w == CatalogAt(conf[p], p)
           IN  /\ phase[p] = "create_database"
               /\ \/ /\ Writable(conf[p]) /\ ~ cat[w].db
                     /\ cat' = [cat EXCEPT ![w].db = TRUE]
                     /\ Goes(p, "get_schema") /\ UNCHANGED objects
                  \/ (~ Writable(conf[p]) \/ cat[w].db) /\ Ends(p, "failed")

(* metastore.schemas.get(DEFAULT_DB, DEFAULT_SCHEMA), then create(..)?,     *)
(* which looks the database up again.                                       *)
GetSchema(p) ==
    /\ phase[p] = "get_schema"
    /\ Goes(p, IF cat[CatalogAt(conf[p], p)].schema THEN "collect" ELSE "create_schema")
    /\ UNCHANGED <<cat, objects>>

CreateSchema(p) ==
    LET w == CatalogAt(conf[p], p)
    IN  /\ phase[p] = "create_schema"
        /\ \/ /\ Writable(conf[p]) /\ cat[w].db /\ ~ cat[w].schema
              /\ cat' = [cat EXCEPT ![w].schema = TRUE]
              /\ Goes(p, "collect") /\ UNCHANGED objects
           \/ (~ Writable(conf[p]) \/ ~ cat[w].db \/ cat[w].schema) /\ Ends(p, "failed")

(* A lookup fails otherwise than by finding nothing: build_context takes    *)
(* that for success.                                                        *)
LookupFails(p) ==
    /\ crashes < MaxCrashes
    /\ \/ /\ phase[p] = "get_database"
          /\ phase' = [phase EXCEPT ![p] = "get_schema"]
          /\ skipped' = [skipped EXCEPT ![p] = @ \cup {"database"}]
       \/ /\ phase[p] = "get_schema"
          /\ phase' = [phase EXCEPT ![p] = "collect"]
          /\ skipped' = [skipped EXCEPT ![p] = @ \cup {"schema"}]
    /\ crashes' = crashes + 1
    /\ UNCHANGED <<given, exit, conf, cat, objects, busy, creating, ended, cut, left>>

(* The garbage collection of every start, then the mode of the process:     *)
(* one-off command, or the frontends; without any the process gives up.     *)
Start(p) ==
    /\ phase[p] = "collect"
    /\ \/ given[p].one_off /\ Ends(p, "clean")
       \/ /\ ~ given[p].one_off /\ conf[p].frontends # {}
          /\ Goes(p, "serving") /\ UNCHANGED <<cat, objects>>
       \/ ~ given[p].one_off /\ conf[p].frontends = {} /\ Ends(p, "failed")

(***************************************************************************)
(* Service                                                                 *)
(***************************************************************************)
Request(p, f) ==
    /\ phase[p] = "serving" /\ f \in conf[p].frontends \ ended[p]
    /\ busy' = [busy EXCEPT ![p] = @ \cup {f}]
    /\ UNCHANGED <<given, conf, phase, exit, cat, objects, creating, ended, cut, skipped, left, crashes>>

Response(p, f) ==
    /\ f \in busy[p] /\ \A x \in creating[p] : x[1] # f
    /\ busy' = [busy EXCEPT ![p] = @ \ {f}]
    /\ UNCHANGED <<given, conf, phase, exit, cat, objects, creating, ended, cut, skipped, left, crashes>>

(* CREATE TABLE by a request in flight: a directory with a Delta log, if    *)
(* there is a schema to put the table in,                                   *)
CreateLog(p, f, t) ==
    /\ f \in busy[p] /\ \A x \in creating[p] : x[1] # f
    /\ Writable(conf[p]) /\ conf[p].store # "none"
    /\ cat[CatalogAt(conf[p], p)].schema
    /\ objects' = [objects EXCEPT ![StoreAt(conf[p], p)] = @ \cup {t}]
    /\ creating' = [creating EXCEPT ![p] = @ \cup {<<f, t>>}]
    /\ UNCHANGED <<given, conf, phase, exit, cat, busy, ended, cut, skipped, left, crashes>>

(* then the catalog row, which a table of that name or an error prevents:   *)
(* the directory stays.                                                     *)
CreateTable(p, f, t) ==
    LET c == CatalogAt(conf[p], p)
        s == StoreAt(conf[p], p)
    IN  /\ <<f, t>> \in creating[p]
        /\ creating' = [creating EXCEPT ![p] = @ \ {<<f, t>>}]
        /\ \/ /\ t \notin cat[c].tables
              /\ cat' = [cat EXCEPT ![c].tables = @ \cup {t}]
              /\ UNCHANGED left
           \/ /\ left' = [left EXCEPT ![s] = @ \cup {t}]
              /\ UNCHANGED cat
        /\ UNCHANGED <<given, conf, phase, exit, objects, busy, ended, cut, skipped, crashes>>

(***************************************************************************)
(* Shutdown                                                                *)
(***************************************************************************)
(* A signal, or a frontend that panics (its address is taken): the top      *)
(* level asks every subsystem to stop.                                      *)
Signal(p) ==
    /\ phase[p] = "serving"
    /\ \/ UNCHANGED ended
       \/ \E f \in conf[p].frontends : ended' = [ended EXCEPT ![p] = {"panic", f}]
    /\ phase' = [phase EXCEPT ![p] = "stopping"]
    /\ UNCHANGED <<given, conf, exit, cat, objects, busy, creating, cut, skipped, left, crashes>>

Subsystems(p) == conf[p].frontends \cup
                 (IF conf[p].gc /\ conf[p].store # "none" THEN {"gc"} ELSE {})

(* HTTP and Flight serve until their requests in flight are answered; the   *)
(* Postgres server is dropped by select! and waits for none.                *)
Drained(p, f) == f = "postgres" \/ f \notin busy[p]

FrontendEnds(p, f) ==
    /\ phase[p] = "stopping" /\ f \in conf[p].frontends \ ended[p]
    /\ Drained(p, f)
    /\ ended' = [ended EXCEPT ![p] = @ \cup {f}]
    /\ UNCHANGED <<given, conf, phase, exit, cat, objects, busy, creating, cut, skipped, left, crashes>>

(* handle_shutdown_requests(...).unwrap(): all subsystems returned *)
Finish(p) ==
    /\ phase[p] = "stopping" /\ Subsystems(p) \subseteq ended[p]
    /\ Ends(p, IF "panic" \in ended[p] THEN "failed" ELSE "clean")

ShutdownTimeout_GcEnds(p) ==
    /\ phase[p] = "stopping" /\ ~ (Subsystems(p) \ {"gc"} \subseteq ended[p])
    /\ Ends(p, "failed")

(* ... or five seconds have gone by: the error is unwrapped, a panic.  The  *)
(* garbage collection loops for ever and never looks at its handle.         *)
ShutdownTimeout(p) ==
    /\ phase[p] = "stopping" /\ ~ (Subsystems(p) \subseteq ended[p])
    /\ Ends(p, "failed")

(* The process is killed at any point *)
Kill(p) == phase[p] # "off" /\ crashes < MaxCrashes /\ Ends(p, "killed")

Startup(p) == \/ LoadConfig(p) \/ Connect(p) \/ GetDefaultDatabase(p) \/ CreateDefaultDatabase(p)
              \/ GetSchema(p) \/ CreateSchema(p) \/ Start(p)

ServerNext == \E p \in Server :
                  \/ Startup(p)
                  \/ LookupFails(p)
                  \/ \E f \in Frontend :
                       \/ Request(p, f) \/ Response(p, f) \/ FrontendEnds(p, f)
                       \/ \E t \in Table : CreateLog(p, f, t) \/ CreateTable(p, f, t)
                  \/ Signal(p) \/ Finish(p) \/ ShutdownTimeout(p) \/ Kill(p)

(* main() goes on by itself, a supervisor starts a process that ended, and  *)
(* the five seconds pass; requests and signals need not come.               *)
ServerSpec == /\ ServerInit /\ [][ServerNext]_serverVars
              /\ \A p \in Server : /\ WF_serverVars(Startup(p))
                                   /\ WF_serverVars(Finish(p) \/ ShutdownTimeout(p))

(***************************************************************************)
(* Properties                                                              *)
(***************************************************************************)

(* The tables that some process is creating in a store. *)
InFlight(w) ==
    {t \in Table : \E q \in Server : t \in Creating(q) /\ StoreAt(conf[q], q) = w}

(* Every table a serving process lists has its directory in the store, and  *)
(* a directory without a table is one that a CREATE TABLE has not listed    *)
(* yet, or left behind when it failed or its process ended, however often   *)
(* processes were restarted or killed: what validate_config refuses mixed   *)
(* in-memory settings for.                                                  *)
RestartConsistent ==
    \A p \in Server :
        phase[p] = "serving" /\ Writable(conf[p]) =>
            LET s == StoreAt(conf[p], p)
                tables == cat[CatalogAt(conf[p], p)].tables
            IN  /\ tables \subseteq objects[s]
                /\ objects[s] \ tables \subseteq left[s] \cup InFlight(s)

(* A process serves with the default database and schema in its catalog,    *)
(* even if an earlier start was killed half way or another process was      *)
(* creating them at the same time (build_context), unless the lookup of the *)
(* schema failed in its start, which is ignored; a failing lookup of the    *)
(* database alone is caught by the schema that cannot be created.           *)
DefaultSchemaServed ==
    \A p \in Server :
        phase[p] = "serving" /\ conf[p].catalog # "none" =>
            LET k == cat[CatalogAt(conf[p], p)]
            IN  /\ k.schema \/ "schema" \in skipped[p]
                /\ k.db \/ {"database", "schema"} \subseteq skipped[p]

(* What a process serves is consistent, in these two ways. *)
ServesConsistently == RestartConsistent /\ DefaultSchemaServed

(* A process that reports a clean exit answered every HTTP and Flight       *)
(* request it had accepted (the graceful shutdown of both servers).         *)
CleanExitAnswersAll ==
    \A p \in Server : exit[p] = "clean" => cut[p] \subseteq {"postgres"}

(* A process that was asked to stop ends, whatever its requests and its     *)
(* garbage collection do.                                                   *)
ShutdownEnds == \A p \in Server : phase[p] = "stopping" ~> phase[p] = "off"

(* Settings with which a process is expected to serve. *)
Startable(g) == /\ ~ g.one_off /\ validate_config(Loaded(g))
                /\ Loaded(g).catalog # "read_only" /\ Loaded(g).frontends # {}
=============================================================================
