-------------------------------- MODULE Admin --------------------------------
(* Databases, user-defined functions and the deletion of the tables earlier  *)
(* releases dropped lazily: what else the metadata database keeps, the       *)
(* functions registered in memory, and the garbage collector of main.rs and  *)
(* utils.rs.  Several Seafowl instances may share the metadata database and  *)
(* the object store; each runs a collector.                                  *)
EXTENDS Integers, Sequences, Repository

CONSTANTS
  Sessions,       \* concurrent requests to one instance
  Instances,      \* processes that run the collector
  Requests,       \* the statements that may be issued
  InitialStatus,  \* deletion status of the dropped tables at the start, by uuid
  Objects,        \* the objects in the directory of each dropped table
  StoredFunctions,\* what the database may hold of functions when the instance starts
  MaxStatements, MaxFaults,
  ListFaults,     \* a listing may leave objects out (an error in its stream)
  DeleteIsIdempotent \* deleting a missing object succeeds (cloud), or fails (local)

Statuses == {"PENDING", "RETRY", "FAILED"}

(* A request: op, the database or functions it names, the new definition,    *)
(* and its option: IF [NOT] EXISTS, or OR REPLACE.                           *)
ParametersOK ==
  /\ \A r \in Requests : r.op \in {"create_database", "create_function", "drop_function", "call"}
                         /\ Len(r.names) > 0 /\ r.opt \in BOOLEAN
  /\ \A u \in DOMAIN InitialStatus : InitialStatus[u] \in Statuses
  /\ MaxStatements \in Nat /\ MaxFaults \in Nat
  /\ ListFaults \in BOOLEAN /\ DeleteIsIdempotent \in BOOLEAN

VARIABLES
  db,      \* databases, default_schemas (databases that have one), functions, dropped
  udfs,    \* the functions registered in the session context, by name
  objs,    \* objs[u]: the objects in the directory of a dropped table
  ses, gc, \* what each session and each collector is doing
  unfinished,     \* history: databases whose CREATE failed before the default schema
  budget, faults

vars == <<db, udfs, objs, ses, gc, unfinished, budget, faults>>

NoDefs == <<>>
Resting == [pc |-> "idle", st |-> <<>>, snap |-> NoDefs, out |-> "none"]
Waiting == [pc |-> "wait", todo |-> {}, uuid |-> 0, status |-> "PENDING", left |-> {}]

At(s, pc) == ses[s].pc = pc
Op(s) == ses[s].st.op
Goto(s, pc) == ses' = [ses EXCEPT ![s].pc = pc]
End(s, out) == ses' = [ses EXCEPT ![s] = [Resting EXCEPT !.out = out]]
gcVars == <<objs, gc>>
Spend == faults > 0 /\ faults' = faults - 1

(* register_udf: a function of the same name is replaced. *)
Registered(defs) ==
  [f \in DOMAIN udfs \cup DOMAIN defs |-> IF f \in DOMAIN defs THEN defs[f] ELSE udfs[f]]

(* -------------------------------- Statements ----------------------------- *)

Begin(s, r) ==
  /\ At(s, "idle") /\ budget > 0
  /\ budget' = budget - 1
  /\ ses' = [ses EXCEPT ![s] = [Resting EXCEPT !.pc = "reload", !.st = r]]
  /\ UNCHANGED <<db, udfs, gcVars, unfinished, faults>>

(* reload_schema: build_functions lists the functions of the database, *)
BuildFunctions(s) ==
  /\ At(s, "reload")
  /\ ses' = [ses EXCEPT ![s].pc = "register", ![s].snap = db.functions]
  /\ UNCHANGED <<db, udfs, gcVars, unfinished, budget, faults>>

RegisterFunctions_Replace(s) ==
  /\ At(s, "register")
  /\ udfs' = ses[s].snap
  /\ Goto(s, "exec")
  /\ UNCHANGED <<db, gcVars, unfinished, budget, faults>>

(* and every one is registered, in a context that all sessions share.        *)
(* Nothing is ever taken out of it.                                          *)
RegisterFunctions(s) ==
  /\ At(s, "register")
  /\ udfs' = Registered(ses[s].snap)
  /\ Goto(s, "exec")
  /\ UNCHANGED <<db, gcVars, unfinished, budget, faults>>

(* One of them cannot be registered, and the ones after it are not.          *)
RegisterSome(s) ==
  /\ At(s, "register") /\ Spend
  /\ \E known \in SUBSET DOMAIN ses[s].snap :
       udfs' = Registered([f \in known |-> ses[s].snap[f]])
  /\ End(s, "error")
  /\ UNCHANGED <<db, gcVars, unfinished, budget>>

(* CREATE DATABASE: an existing one is an error unless IF NOT EXISTS; a      *)
(* lookup that fails counts as no database,                                  *)
GetDatabase(s) ==
  /\ At(s, "exec") /\ Op(s) = "create_database"
  /\ \/ /\ ses[s].st.names[1] \in db.databases
        /\ End(s, IF ses[s].st.opt THEN "ok" ELSE "error") /\ UNCHANGED faults
     \/ ses[s].st.names[1] \notin db.databases /\ Goto(s, "database_row") /\ UNCHANGED faults
     \/ Goto(s, "database_row") /\ Spend
  /\ UNCHANGED <<db, udfs, gcVars, unfinished, budget>>

(* the row is inserted unless another session has, *)
CreateDatabase(s) ==
  /\ At(s, "database_row")
  /\ \/ ses[s].st.names[1] \in db.databases /\ End(s, "error") /\ UNCHANGED db
     \/ /\ ses[s].st.names[1] \notin db.databases
        /\ db' = create_database(db, ses[s].st.names[1])
        /\ Goto(s, "schema_row")
  /\ UNCHANGED <<udfs, gcVars, unfinished, budget, faults>>

(* and then the row of its default schema.                                   *)
CreateDefaultSchema(s) ==
  /\ At(s, "schema_row")
  /\ db' = [db EXCEPT !.default_schemas = @ \cup {ses[s].st.names[1]}]
  /\ End(s, "ok")
  /\ UNCHANGED <<udfs, gcVars, unfinished, budget, faults>>

(* CREATE FUNCTION registers the function, *)
RegisterFunction(s) ==
  /\ At(s, "exec") /\ Op(s) = "create_function"
  /\ udfs' = Registered([f \in {ses[s].st.names[1]} |-> ses[s].st.def])
  /\ Goto(s, "function_row")
  /\ UNCHANGED <<db, gcVars, unfinished, budget, faults>>

(* and persists it: a name that is taken is an error unless OR REPLACE.      *)
PersistFunction(s) ==
  /\ At(s, "function_row")
  /\ LET f == ses[s].st.names[1]
     IN  \/ f \in DOMAIN db.functions /\ ~ ses[s].st.opt /\ End(s, "error") /\ UNCHANGED db
         \/ /\ f \notin DOMAIN db.functions \/ ses[s].st.opt
            /\ db' = create_function(db, f, ses[s].st.def)
            /\ End(s, "ok")
  /\ UNCHANGED <<udfs, gcVars, unfinished, budget, faults>>

(* DROP FUNCTION: no row deleted is an error unless IF EXISTS.               *)
DropFunction(s) ==
  /\ At(s, "exec") /\ Op(s) = "drop_function"
  /\ db' = drop_function(db, ses[s].st.names)
  /\ End(s, IF db' # db \/ ses[s].st.opt THEN "ok" ELSE "error")
  /\ UNCHANGED <<udfs, gcVars, unfinished, budget, faults>>

(* A query that calls a function is planned over the registered ones.        *)
PlanCall(s) ==
  /\ At(s, "exec") /\ Op(s) = "call"
  /\ IF ses[s].st.names[1] \in DOMAIN udfs THEN Goto(s, "run") ELSE End(s, "error")
  /\ UNCHANGED <<db, udfs, gcVars, unfinished, budget, faults>>

RunCall(s) ==
  /\ At(s, "run")
  /\ End(s, "ok")
  /\ UNCHANGED <<db, udfs, gcVars, unfinished, budget, faults>>

(* A call of the statement fails, or the request is abandoned at it: nothing *)
(* that was done is undone.                                                  *)
Fail(s) ==
  /\ ~ At(s, "idle") /\ Spend
  /\ End(s, "error")
  /\ unfinished' = IF At(s, "schema_row") THEN unfinished \cup {ses[s].st.names[1]} ELSE unfinished
  /\ UNCHANGED <<db, udfs, gcVars, budget>>

(* ---------------------------- Garbage collection ------------------------- *)

InGc(i, pc) == gc[i].pc = pc
GcGoto(i, pc) == gc' = [gc EXCEPT ![i].pc = pc]
sessionVars == <<udfs, ses, unfinished, budget>>

Collectable_PendingOnly(rows) == {u \in DOMAIN rows : rows[u] = "PENDING"}

(* The dropped tables a round works on: those that have not failed.          *)
Collectable(rows) == {u \in DOMAIN rows : rows[u] # "FAILED"}

(* A tick of the interval: the dropped tables and their statuses are read.   *)
GetDroppedTables(i) ==
  /\ InGc(i, "wait") /\ Collectable(db.dropped) # {}
  /\ gc' = [gc EXCEPT ![i].pc = "next",
              ![i].todo = {<<u, db.dropped[u]>> : u \in Collectable(db.dropped)}]
  /\ UNCHANGED <<db, objs, sessionVars, faults>>

(* delete_in_prefix: the objects that the listing has; its errors, which     *)
(* hide objects, are skipped.                                                *)
ListPrefix(i) ==
  /\ InGc(i, "next")
  /\ \E dt \in gc[i].todo : \E listed \in SUBSET objs[dt[1]] :
       /\ \/ listed = objs[dt[1]] /\ UNCHANGED faults
          \/ listed # objs[dt[1]] /\ ListFaults /\ faults > 0 /\ faults' = faults - 1
       /\ gc' = [gc EXCEPT ![i].pc = "delete", ![i].todo = @ \ {dt}, ![i].uuid = dt[1],
                   ![i].status = dt[2], ![i].left = listed]
  /\ UNCHANGED <<db, objs, sessionVars>>

(* An object is deleted, unless another collector was faster and the store   *)
(* minds, or the call fails: then the rest is left alone.                    *)
DeleteObject(i) ==
  /\ InGc(i, "delete")
  /\ \E o \in gc[i].left :
       \/ /\ o \in objs[gc[i].uuid] \/ DeleteIsIdempotent
          /\ objs' = [objs EXCEPT ![gc[i].uuid] = @ \ {o}]
          /\ gc' = [gc EXCEPT ![i].left = @ \ {o}]
          /\ UNCHANGED faults
       \/ /\ o \notin objs[gc[i].uuid] /\ ~ DeleteIsIdempotent
          /\ GcGoto(i, "failed")
          /\ UNCHANGED <<objs, faults>>
       \/ faults > 0 /\ faults' = faults - 1 /\ GcGoto(i, "failed") /\ UNCHANGED objs
  /\ UNCHANGED <<db, sessionVars>>

AfterFailure_RetryFirst(status) == IF status = "PENDING" THEN "RETRY" ELSE "FAILED"

(* The status after a failed attempt.                                        *)
AfterFailure(status) == IF status # "PENDING" THEN "RETRY" ELSE "FAILED"

(* A failed attempt: the new status is written, if the row is still there    *)
(* and the write does not fail, which is only logged.                        *)
RecordFailure(i) ==
  /\ InGc(i, "failed")
  /\ \/ db' = update_dropped_table(db, gc[i].uuid, AfterFailure(gc[i].status)) /\ UNCHANGED faults
     \/ faults > 0 /\ faults' = faults - 1 /\ UNCHANGED db
  /\ GcGoto(i, "next")
  /\ UNCHANGED <<objs, sessionVars>>

RecordSuccess_Early(i) ==
  /\ InGc(i, "delete")
  /\ db' = delete_dropped_table(db, gc[i].uuid)
  /\ UNCHANGED <<gc, objs, sessionVars, faults>>

(* Nothing is left: the row goes, or the write fails, which is only logged.  *)
RecordSuccess(i) ==
  /\ InGc(i, "delete") /\ gc[i].left = {}
  /\ \/ db' = delete_dropped_table(db, gc[i].uuid) /\ UNCHANGED faults
     \/ faults > 0 /\ faults' = faults - 1 /\ UNCHANGED db
  /\ GcGoto(i, "next")
  /\ UNCHANGED <<objs, sessionVars>>

EndRound(i) ==
  /\ InGc(i, "next") /\ gc[i].todo = {}
  /\ gc' = [gc EXCEPT ![i] = Waiting]
  /\ UNCHANGED <<db, objs, sessionVars, faults>>

(* The process is restarted; the first tick comes at once.                   *)
Restart(i) ==
  /\ ~ InGc(i, "wait") /\ faults > 0
  /\ faults' = faults - 1
  /\ gc' = [gc EXCEPT ![i] = Waiting]
  /\ UNCHANGED <<db, objs, sessionVars>>

(* ------------------------------ Specification ---------------------------- *)

Init ==
  /\ \E stored \in StoredFunctions :
       db = [databases |-> {}, default_schemas |-> {}, functions |-> stored,
             dropped |-> InitialStatus]
  /\ udfs = NoDefs
  /\ objs = [u \in DOMAIN InitialStatus |-> Objects]
  /\ ses = [s \in Sessions |-> Resting]
  /\ gc = [i \in Instances |-> Waiting]
  /\ unfinished = {}
  /\ budget = MaxStatements /\ faults = MaxFaults

Statement(s) ==
  \/ \E r \in Requests : Begin(s, r)
  \/ BuildFunctions(s) \/ RegisterFunctions(s) \/ RegisterSome(s)
  \/ GetDatabase(s) \/ CreateDatabase(s) \/ CreateDefaultSchema(s)
  \/ RegisterFunction(s) \/ PersistFunction(s) \/ DropFunction(s)
  \/ PlanCall(s) \/ RunCall(s) \/ Fail(s)

Collect(i) ==
  \/ GetDroppedTables(i) \/ ListPrefix(i) \/ DeleteObject(i)
  \/ RecordFailure(i) \/ RecordSuccess(i) \/ EndRound(i)

Next ==
  \/ \E s \in Sessions : Statement(s)
  \/ \E i \in Instances : Collect(i) \/ Restart(i)

(* The interval of the collector keeps ticking and every call returns.       *)
Spec == Init /\ [][Next]_vars /\ \A i \in Instances : WF_vars(Collect(i))

(* ------------------------------- Properties ------------------------------ *)

(* utils.rs: the row of a dropped table goes when its directory was cleaned  *)
(* up, whatever the collectors of several instances do to it at once.        *)
RowGoneMeansClean ==
  \A u \in DOMAIN objs : u \notin DOMAIN db.dropped => objs[u] = {}

(* A dropped table is deleted or left for manual deletion.                   *)
Settled(u) == u \notin DOMAIN db.dropped \/ db.dropped[u] = "FAILED"

(* A table that needs manual deletion stays reported as such: no collector   *)
(* that read an older status puts it back among those that are retried.      *)
KeepsFailed ==
  \A u \in DOMAIN db.dropped \cap DOMAIN db'.dropped :
    db.dropped[u] = "FAILED" => db'.dropped[u] = "FAILED"
FailedIsFinal == [][KeepsFailed]_vars

(* physical.rs, CREATE DATABASE: a database that a session whose IF NOT      *)
(* EXISTS finds it cannot use, for want of its default schema, is being      *)
(* created, or is one whose CREATE failed between its two rows.              *)
DatabaseHasSchema ==
  \A d \in db.databases \ db.default_schemas :
    d \in unfinished \/ \E s \in Sessions : At(s, "schema_row") /\ ses[s].st.names[1] = d

(* context/mod.rs, reload_schema: when a query is planned every function the *)
(* database holds is registered, although sessions create, replace and drop  *)
(* functions in one registry while others go through older lists.            *)
StoredIsCallable ==
  \A s \in Sessions : At(s, "exec") /\ Op(s) = "call" => DOMAIN db.functions \subseteq DOMAIN udfs

(* What CREATE DATABASE and CREATE FUNCTION have stored can be used.         *)
CreatedIsUsable == DatabaseHasSchema /\ StoredIsCallable

==============================================================================
