--------------------------- MODULE ServicesProofs ----------------------------
(***************************************************************************)
(* What runs beside and in front of the queries, for any number of clients, *)
(* sessions and processes: garbage collection of dropped tables and CREATE  *)
(* DATABASE or FUNCTION (Admin: RowGoneMeansClean, FailedIsFinal,           *)
(* CreatedIsUsable);                                                        *)
(* over HTTP nobody writes or reads without being allowed to, and an answer *)
(* tells what was executed (Frontends); what a serving process lists is     *)
(* what its object store holds, it has the default database and schema, and *)
(* a clean exit has answered every request that is waited for (Server).     *)
(***************************************************************************)
EXTENDS Admin, Frontends, Server, TLAPS, FiniteSetTheorems

----------------------------------------------------------------------------
(***************************************************************************)
(* Admin                                                                   *)
(***************************************************************************)

Uuids == DOMAIN InitialStatus

\* A row of dropped_table as a collector reads it.
DroppedRow == Uuids \X Statuses

\* What a collector keeps.
Collector == [pc     : {"wait", "next", "delete", "failed"},
              todo   : SUBSET DroppedRow,
              uuid   : Uuids \cup {0},
              status : Statuses,
              left   : SUBSET Objects]

----------------------------------------------------------------------------
(* The inductive invariants                                                *)

\* The shape of the metadata database, the directories and the collectors.
GcShape ==
    /\ DOMAIN db = {"databases", "default_schemas", "functions", "dropped"}
    /\ DOMAIN db.dropped \subseteq Uuids
    /\ objs \in [Uuids -> SUBSET Objects]
    /\ gc \in [Instances -> Collector]
    /\ \A i \in Instances : gc[i].pc \in {"delete", "failed"} => gc[i].uuid \in Uuids

\* A row that is not left for manual deletion has the status it had when the
\* releases that drop tables lazily were replaced.
RowStatus(u, status) ==
    \/ status = InitialStatus[u]
    \/ InitialStatus[u] = "PENDING" /\ status = "FAILED"

\* A collector knows that status, and works on no table left for manual deletion.
Known(u, status) == status = InitialStatus[u] /\ status # "FAILED"

StatusKnown ==
    /\ \A u \in DOMAIN db.dropped : RowStatus(u, db.dropped[u])
    /\ \A i \in Instances :
         /\ \A dt \in gc[i].todo : Known(dt[1], dt[2])
         /\ gc[i].pc \in {"delete", "failed"} => Known(gc[i].uuid, gc[i].status)

\* What a collector has not deleted yet includes all that is there.
LeftCovers ==
    \A i \in Instances : gc[i].pc = "delete" => objs[gc[i].uuid] \subseteq gc[i].left

\* The shape of the sessions.
SesShape ==
    /\ DOMAIN ses = Sessions
    /\ \A s \in Sessions : DOMAIN ses[s] = {"pc", "st", "snap", "out"}

\* What a session knows of the functions F of the database and those, U, that
\* are registered: once it has registered what it read, none is missing.
KnowsFunctions(x, F, U) ==
    /\ x.pc = "register" => F \subseteq U \cup DOMAIN x.snap
    /\ x.pc \notin {"idle", "reload", "register"} => F \subseteq U
    /\ x.pc = "function_row" => x.st.names[1] \in U

FunctionsKnown ==
    \A s \in Sessions : KnowsFunctions(ses[s], DOMAIN db.functions, DOMAIN udfs)

----------------------------------------------------------------------------
(* Lemmas                                                                  *)

\* The statements of sessions leave the dropped tables alone.
LEMMA StatementKeepsDropped ==
    ASSUME GcShape, NEW s \in Sessions, Statement(s)
    PROVE  /\ UNCHANGED <<objs, gc>>
           /\ DOMAIN db' = DOMAIN db
           /\ db'.dropped = db.dropped
  <1> USE DEF GcShape, Collector, gcVars
  <1>1. ASSUME NEW r \in Requests, Begin(s, r)
        PROVE  UNCHANGED <<objs, gc, db>>
    BY <1>1 DEF Begin
  <1>2. CASE BuildFunctions(s) \/ RegisterFunctions(s) \/ RegisterSome(s) \/ GetDatabase(s)
             \/ RegisterFunction(s) \/ PlanCall(s) \/ RunCall(s) \/ Fail(s)
    BY <1>2 DEF BuildFunctions, RegisterFunctions, RegisterSome, GetDatabase, RegisterFunction,
                PlanCall, RunCall, Fail
  <1>3. CASE CreateDatabase(s)
    BY <1>3 DEF CreateDatabase, create_database
  <1>4. CASE CreateDefaultSchema(s)
    BY <1>4 DEF CreateDefaultSchema
  <1>5. CASE PersistFunction(s)
    BY <1>5 DEF PersistFunction, create_function
  <1>6. CASE DropFunction(s)
    BY <1>6 DEF DropFunction, drop_function
  <1>7. QED
    BY <1>1, <1>2, <1>3, <1>4, <1>5, <1>6 DEF Statement

\* The statements on the metadata database that a collector executes.
LEMMA DroppedUpdate ==
    ASSUME GcShape, NEW u, NEW status, db' = update_dropped_table(db, u, status)
    PROVE  /\ DOMAIN db' = DOMAIN db
           /\ DOMAIN db'.dropped = DOMAIN db.dropped
           /\ \A v \in DOMAIN db.dropped :
                db'.dropped[v] = IF v = u THEN status ELSE db.dropped[v]
  BY DEF GcShape, update_dropped_table

LEMMA DroppedDelete ==
    ASSUME GcShape, NEW u, db' = delete_dropped_table(db, u)
    PROVE  /\ DOMAIN db' = DOMAIN db
           /\ DOMAIN db'.dropped = DOMAIN db.dropped \ {u}
           /\ \A v \in DOMAIN db.dropped \ {u} : db'.dropped[v] = db.dropped[v]
  BY DEF GcShape, delete_dropped_table

LEMMA InitGc == ASSUME ParametersOK PROVE Init => GcShape /\ StatusKnown /\ LeftCovers
  BY DEF ParametersOK, Init, GcShape, Collector, StatusKnown, LeftCovers, Waiting, Statuses, Uuids, RowStatus

\* Every step keeps the shape.
LEMMA GcShapeStep ==
    ASSUME ParametersOK, GcShape, StatusKnown, [Next]_vars
    PROVE  GcShape'
  <1> USE DEF GcShape, Collector, sessionVars
  <1>1. ASSUME NEW s \in Sessions, Statement(s)
        PROVE  GcShape'
    BY <1>1, StatementKeepsDropped
  <1>2. ASSUME NEW i \in Instances, GetDroppedTables(i)
        PROVE  GcShape'
    <2> DEFINE read == {<<u, db.dropped[u]>> : u \in Collectable(db.dropped)}
    <2> HIDE DEF Collector
    <2>1. read \in SUBSET DroppedRow
      BY DEF DroppedRow, Collectable, StatusKnown, RowStatus, ParametersOK, Statuses, Uuids
    <2>2. gc' = [gc EXCEPT ![i].pc = "next", ![i].todo = read] /\ UNCHANGED <<db, objs>>
      BY <1>2 DEF GetDroppedTables
    <2> HIDE DEF read
    <2>3. gc' \in [Instances -> Collector]
      <3>1. [gc[i] EXCEPT !.pc = "next", !.todo = read] \in Collector
        BY <2>1 DEF Collector
      <3>2. QED
        BY <2>2, <3>1
    <2>4. \A j \in Instances : gc'[j].pc \in {"delete", "failed"} => gc'[j].uuid \in Uuids
      BY <2>2
    <2>5. QED
      BY <2>2, <2>3, <2>4
  <1>3. ASSUME NEW i \in Instances, ListPrefix(i)
        PROVE  GcShape'
    <2>1. PICK dt \in gc[i].todo : \E listed \in SUBSET objs[dt[1]] :
             gc' = [gc EXCEPT ![i].pc = "delete", ![i].todo = @ \ {dt}, ![i].uuid = dt[1],
                              ![i].status = dt[2], ![i].left = listed]
      BY <1>3 DEF ListPrefix
    <2>2. dt \in DroppedRow /\ SUBSET objs[dt[1]] \subseteq SUBSET Objects
      BY DEF DroppedRow
    <2>3. QED
      BY <1>3, <2>1, <2>2 DEF ListPrefix, DroppedRow
  <1>4. ASSUME NEW i \in Instances, DeleteObject(i)
        PROVE  GcShape'
    BY <1>4 DEF DeleteObject, InGc, GcGoto
  <1>5. ASSUME NEW i \in Instances, RecordFailure(i)
        PROVE  GcShape'
    <2>1. DOMAIN db' = DOMAIN db /\ DOMAIN db'.dropped \subseteq DOMAIN db.dropped
      BY <1>5, DroppedUpdate DEF RecordFailure
    <2>2. QED
      BY <1>5, <2>1 DEF RecordFailure, GcGoto
  <1>6. ASSUME NEW i \in Instances, RecordSuccess(i)
        PROVE  GcShape'
    <2>1. db' = db \/ db' = delete_dropped_table(db, gc[i].uuid)
      BY <1>6 DEF RecordSuccess
    <2>2. DOMAIN db' = DOMAIN db /\ DOMAIN db'.dropped \subseteq DOMAIN db.dropped
      BY <2>1, DroppedDelete
    <2>3. QED
      BY <1>6, <2>2 DEF RecordSuccess, GcGoto
  <1>7. ASSUME NEW i \in Instances, EndRound(i) \/ Restart(i)
        PROVE  GcShape'
    BY <1>7 DEF EndRound, Restart, Waiting, Statuses
  <1>8. CASE UNCHANGED vars
    BY <1>8 DEF vars
  <1>9. QED
    BY <1>1, <1>2, <1>3, <1>4, <1>5, <1>6, <1>7, <1>8 DEF Next, Collect

\* Every step keeps the statuses, and no failed table is retried.
LEMMA StatusStep ==
    ASSUME ParametersOK, GcShape, StatusKnown, [Next]_vars
    PROVE  StatusKnown' /\ KeepsFailed
  <1> USE DEF GcShape, Collector, StatusKnown, Known, RowStatus, KeepsFailed, sessionVars, InGc, GcGoto
  <1>1. ASSUME NEW s \in Sessions, Statement(s)
        PROVE  StatusKnown' /\ KeepsFailed
    BY <1>1, StatementKeepsDropped
  <1>2. ASSUME NEW i \in Instances, GetDroppedTables(i)
        PROVE  StatusKnown' /\ KeepsFailed
    BY <1>2 DEF GetDroppedTables, Collectable
  <1>3. ASSUME NEW i \in Instances, ListPrefix(i)
        PROVE  StatusKnown' /\ KeepsFailed
    BY <1>3 DEF ListPrefix
  <1>4. ASSUME NEW i \in Instances, DeleteObject(i)
        PROVE  StatusKnown' /\ KeepsFailed
    BY <1>4 DEF DeleteObject
  <1>5. ASSUME NEW i \in Instances, RecordFailure(i)
        PROVE  StatusKnown' /\ KeepsFailed
    <2>1. CASE UNCHANGED db
      BY <1>5, <2>1 DEF RecordFailure
    <2>2. CASE db' = update_dropped_table(db, gc[i].uuid, AfterFailure(gc[i].status))
      <3>1. RowStatus(gc[i].uuid, AfterFailure(gc[i].status))
        BY <1>5 DEF RecordFailure, AfterFailure, ParametersOK, Statuses, Uuids
      <3>2. \A u \in DOMAIN db'.dropped :
               u \in DOMAIN db.dropped
               /\ db'.dropped[u] = IF u = gc[i].uuid THEN AfterFailure(gc[i].status)
                                                     ELSE db.dropped[u]
        BY <2>2, DroppedUpdate
      <3>3. db.dropped[gc[i].uuid] = "FAILED" /\ gc[i].uuid \in DOMAIN db.dropped
               => AfterFailure(gc[i].status) = "FAILED"
        BY <1>5 DEF RecordFailure, AfterFailure
      <3>4. KeepsFailed
        BY <3>2, <3>3
      <3>5. \A u \in DOMAIN db'.dropped : RowStatus(u, db'.dropped[u])
        BY <3>1, <3>2
      <3>6. QED
        BY <1>5, <3>4, <3>5 DEF RecordFailure
    <2>3. QED
      BY <1>5, <2>1, <2>2 DEF RecordFailure
  <1>6. ASSUME NEW i \in Instances, RecordSuccess(i)
        PROVE  StatusKnown' /\ KeepsFailed
    <2>1. db' = db \/ db' = delete_dropped_table(db, gc[i].uuid)
      BY <1>6 DEF RecordSuccess
    <2>2. \A u \in DOMAIN db'.dropped : u \in DOMAIN db.dropped /\ db'.dropped[u] = db.dropped[u]
      BY <2>1, DroppedDelete
    <2>3. QED
      BY <1>6, <2>2 DEF RecordSuccess
  <1>7. ASSUME NEW i \in Instances, EndRound(i) \/ Restart(i)
        PROVE  StatusKnown' /\ KeepsFailed
    BY <1>7 DEF EndRound, Restart, Waiting
  <1>8. CASE UNCHANGED vars
    BY <1>8 DEF vars
  <1>9. QED
    BY <1>1, <1>2, <1>3, <1>4, <1>5, <1>6, <1>7, <1>8 DEF Next, Collect

\* A listing is complete, and a directory only shrinks.
LEMMA LeftStep ==
    ASSUME ~ ListFaults, GcShape, LeftCovers, [Next]_vars
    PROVE  LeftCovers'
  <1> USE DEF GcShape, Collector, LeftCovers, sessionVars, InGc, GcGoto
  <1>1. ASSUME NEW s \in Sessions, Statement(s)
        PROVE  LeftCovers'
    BY <1>1, StatementKeepsDropped
  <1>2. ASSUME NEW i \in Instances, GetDroppedTables(i)
        PROVE  LeftCovers'
    BY <1>2 DEF GetDroppedTables
  <1>3. ASSUME NEW i \in Instances, ListPrefix(i)
        PROVE  LeftCovers'
    BY <1>3 DEF ListPrefix
  <1>4. ASSUME NEW i \in Instances, DeleteObject(i)
        PROVE  LeftCovers'
    BY <1>4 DEF DeleteObject
  <1>5. ASSUME NEW i \in Instances, RecordFailure(i) \/ RecordSuccess(i)
        PROVE  LeftCovers'
    BY <1>5 DEF RecordFailure, RecordSuccess
  <1>6. ASSUME NEW i \in Instances, EndRound(i) \/ Restart(i)
        PROVE  LeftCovers'
    BY <1>6 DEF EndRound, Restart, Waiting
  <1>7. CASE UNCHANGED vars
    BY <1>7 DEF vars
  <1>8. QED
    BY <1>1, <1>2, <1>3, <1>4, <1>5, <1>6, <1>7 DEF Next, Collect

\* Rows are deleted by collectors that have nothing left to delete.
LEMMA CleanStep ==
    ASSUME GcShape, LeftCovers, RowGoneMeansClean, [Next]_vars
    PROVE  RowGoneMeansClean'
  <1> USE DEF GcShape, Collector, LeftCovers, RowGoneMeansClean, sessionVars, InGc, GcGoto
  <1>1. ASSUME NEW s \in Sessions, Statement(s)
        PROVE  RowGoneMeansClean'
    BY <1>1, StatementKeepsDropped
  <1>2. ASSUME NEW i \in Instances, GetDroppedTables(i) \/ ListPrefix(i) \/ EndRound(i) \/ Restart(i)
        PROVE  RowGoneMeansClean'
    BY <1>2 DEF GetDroppedTables, ListPrefix, EndRound, Restart
  <1>3. ASSUME NEW i \in Instances, DeleteObject(i)
        PROVE  RowGoneMeansClean'
    BY <1>3 DEF DeleteObject
  <1>4. ASSUME NEW i \in Instances, RecordFailure(i)
        PROVE  RowGoneMeansClean'
    <2>1. DOMAIN db'.dropped = DOMAIN db.dropped
      BY <1>4, DroppedUpdate DEF RecordFailure
    <2>2. QED
      BY <1>4, <2>1 DEF RecordFailure
  <1>5. ASSUME NEW i \in Instances, RecordSuccess(i)
        PROVE  RowGoneMeansClean'
    <2>1. objs[gc[i].uuid] = {}
      BY <1>5 DEF RecordSuccess
    <2>2. db' = db \/ db' = delete_dropped_table(db, gc[i].uuid)
      BY <1>5 DEF RecordSuccess
    <2>3. DOMAIN db.dropped \ {gc[i].uuid} \subseteq DOMAIN db'.dropped
      BY <2>2, DroppedDelete
    <2>4. QED
      BY <1>5, <2>1, <2>3 DEF RecordSuccess
  <1>6. CASE UNCHANGED vars
    BY <1>6 DEF vars
  <1>7. QED
    BY <1>1, <1>2, <1>3, <1>4, <1>5, <1>6 DEF Next, Collect

----------------------------------------------------------------------------
(* CREATE DATABASE and CREATE FUNCTION                                     *)

\* The collectors leave the databases and functions alone.
LEMMA CollectKeepsDatabases ==
    ASSUME GcShape, NEW i \in Instances, Collect(i) \/ Restart(i)
    PROVE  /\ UNCHANGED <<ses, udfs, unfinished>>
           /\ db'.databases = db.databases
           /\ db'.default_schemas = db.default_schemas
           /\ db'.functions = db.functions
  <1> USE DEF sessionVars
  <1>1. CASE GetDroppedTables(i) \/ ListPrefix(i) \/ DeleteObject(i) \/ EndRound(i) \/ Restart(i)
    BY <1>1 DEF GetDroppedTables, ListPrefix, DeleteObject, EndRound, Restart
  <1>2. CASE RecordFailure(i)
    BY <1>2 DEF RecordFailure, GcShape, update_dropped_table
  <1>3. CASE RecordSuccess(i)
    BY <1>3 DEF RecordSuccess, GcShape, delete_dropped_table
  <1>4. QED
    BY <1>1, <1>2, <1>3 DEF Collect

\* The statements keep the shape of the sessions.
LEMMA SesShapeStep ==
    ASSUME GcShape, SesShape, [Next]_vars
    PROVE  SesShape'
  <1> USE DEF SesShape, Goto, End, Resting
  <1>1. ASSUME NEW s \in Sessions, NEW r \in Requests, Begin(s, r)
        PROVE  SesShape'
    BY <1>1 DEF Begin
  <1>2. ASSUME NEW s \in Sessions,
               BuildFunctions(s) \/ RegisterFunctions(s) \/ RegisterSome(s) \/ GetDatabase(s)
        PROVE  SesShape'
    BY <1>2 DEF BuildFunctions, RegisterFunctions, RegisterSome, GetDatabase
  <1>3. ASSUME NEW s \in Sessions,
               CreateDatabase(s) \/ CreateDefaultSchema(s) \/ RegisterFunction(s)
        PROVE  SesShape'
    BY <1>3 DEF CreateDatabase, CreateDefaultSchema, RegisterFunction
  <1>4. ASSUME NEW s \in Sessions,
               PersistFunction(s) \/ DropFunction(s) \/ PlanCall(s) \/ RunCall(s) \/ Fail(s)
        PROVE  SesShape'
    BY <1>4 DEF PersistFunction, DropFunction, PlanCall, RunCall, Fail
  <1>5. ASSUME NEW i \in Instances, Collect(i) \/ Restart(i)
        PROVE  SesShape'
    BY <1>5, CollectKeepsDatabases
  <1>6. CASE UNCHANGED vars
    BY <1>6 DEF vars
  <1>7. QED
    BY <1>1, <1>2, <1>3, <1>4, <1>5, <1>6 DEF Next, Statement

\* A database whose default schema is missing is one that a session creates,
\* or whose CREATE failed.
LEMMA SchemaStep ==
    ASSUME GcShape, SesShape, DatabaseHasSchema, [Next]_vars
    PROVE  DatabaseHasSchema'
  <1> USE DEF GcShape, Collector, SesShape, DatabaseHasSchema, At, Goto, End, Resting
  <1>1. ASSUME NEW s \in Sessions, NEW r \in Requests, Begin(s, r)
        PROVE  DatabaseHasSchema'
    BY <1>1 DEF Begin
  <1>2. ASSUME NEW s \in Sessions,
               BuildFunctions(s) \/ RegisterFunctions(s) \/ RegisterSome(s) \/ GetDatabase(s)
        PROVE  DatabaseHasSchema'
    BY <1>2 DEF BuildFunctions, RegisterFunctions, RegisterSome, GetDatabase
  <1>3. ASSUME NEW s \in Sessions, CreateDatabase(s)
        PROVE  DatabaseHasSchema'
    BY <1>3 DEF CreateDatabase, create_database
  <1>4. ASSUME NEW s \in Sessions, CreateDefaultSchema(s)
        PROVE  DatabaseHasSchema'
    BY <1>4 DEF CreateDefaultSchema
  <1>5. ASSUME NEW s \in Sessions, RegisterFunction(s) \/ PlanCall(s) \/ RunCall(s)
        PROVE  DatabaseHasSchema'
    BY <1>5 DEF RegisterFunction, PlanCall, RunCall
  <1>6. ASSUME NEW s \in Sessions, PersistFunction(s)
        PROVE  DatabaseHasSchema'
    BY <1>6 DEF PersistFunction, create_function
  <1>7. ASSUME NEW s \in Sessions, DropFunction(s)
        PROVE  DatabaseHasSchema'
    BY <1>7 DEF DropFunction, drop_function
  <1>8. ASSUME NEW s \in Sessions, Fail(s)
        PROVE  DatabaseHasSchema'
    BY <1>8 DEF Fail
  <1>9. ASSUME NEW i \in Instances, Collect(i) \/ Restart(i)
        PROVE  DatabaseHasSchema'
    BY <1>9, CollectKeepsDatabases
  <1>10. CASE UNCHANGED vars
    BY <1>10 DEF vars
  <1>11. QED
    BY <1>1, <1>2, <1>3, <1>4, <1>5, <1>6, <1>7, <1>8, <1>9, <1>10 DEF Next, Statement

\* A session moves to y: functions stay registered, and one that is stored is
\* registered already.
LEMMA FunctionsMove ==
    ASSUME SesShape, FunctionsKnown, NEW s \in Sessions, NEW y, ses' = [ses EXCEPT ![s] = y],
           DOMAIN udfs \subseteq DOMAIN udfs',
           DOMAIN db'.functions \subseteq DOMAIN db.functions \cup DOMAIN udfs,
           KnowsFunctions(y, DOMAIN db'.functions, DOMAIN udfs')
    PROVE  FunctionsKnown'
  <1>1. SUFFICES ASSUME NEW q \in Sessions
                 PROVE  KnowsFunctions(ses'[q], DOMAIN db'.functions, DOMAIN udfs')
    BY DEF FunctionsKnown
  <1>2. CASE q = s
    BY <1>2 DEF SesShape
  <1>3. CASE q # s
    <2>1. ses'[q] = ses[q] /\ KnowsFunctions(ses[q], DOMAIN db.functions, DOMAIN udfs)
      BY <1>3 DEF SesShape, FunctionsKnown
    <2>2. QED
      BY <2>1 DEF KnowsFunctions
  <1>4. QED
    BY <1>2, <1>3

\* Registering keeps what is registered.
LEMMA RegisteredFacts ==
    ASSUME NEW defs
    PROVE  DOMAIN Registered(defs) = DOMAIN udfs \cup DOMAIN defs
  BY DEF Registered

\* No step makes a session miss a function.
LEMMA FunctionsStep ==
    ASSUME GcShape, SesShape, FunctionsKnown, [Next]_vars
    PROVE  FunctionsKnown'
  <1> USE DEF KnowsFunctions, At, Op
  <1>1. ASSUME NEW s \in Sessions, NEW out, End(s, out), DOMAIN udfs \subseteq DOMAIN udfs',
               DOMAIN db'.functions \subseteq DOMAIN db.functions \cup DOMAIN udfs
        PROVE  FunctionsKnown'
    <2>1. PICK y : y = [Resting EXCEPT !.out = out]
      OBVIOUS
    <2>2. ses' = [ses EXCEPT ![s] = y] /\ y.pc = "idle"
      BY <1>1, <2>1 DEF End, Resting
    <2>3. QED
      BY <1>1, <2>2, FunctionsMove
  <1>2. ASSUME NEW s \in Sessions, NEW pc, Goto(s, pc), DOMAIN udfs \subseteq DOMAIN udfs',
               db'.functions = db.functions, pc \notin {"idle", "reload", "register"},
               DOMAIN db.functions \subseteq DOMAIN udfs',
               pc = "function_row" => ses[s].st.names[1] \in DOMAIN udfs'
        PROVE  FunctionsKnown'
    <2>1. PICK y : y = [ses[s] EXCEPT !.pc = pc]
      OBVIOUS
    <2>2. ses' = [ses EXCEPT ![s] = y] /\ y.pc = pc /\ y.st = ses[s].st
      BY <1>2, <2>1 DEF Goto, SesShape
    <2>3. QED
      BY <1>2, <2>2, FunctionsMove
  <1>3. ASSUME NEW s \in Sessions, ses[s].pc \notin {"idle", "reload", "register"}
        PROVE  DOMAIN db.functions \subseteq DOMAIN udfs
    BY <1>3 DEF FunctionsKnown
  <1>4. ASSUME NEW s \in Sessions, NEW r \in Requests, Begin(s, r)
        PROVE  FunctionsKnown'
    <2>1. PICK y : y = [Resting EXCEPT !.pc = "reload", !.st = r]
      OBVIOUS
    <2>2. ses' = [ses EXCEPT ![s] = y] /\ y.pc = "reload" /\ UNCHANGED <<db, udfs>>
      BY <1>4, <2>1 DEF Begin, Resting
    <2>3. QED
      BY <2>2, FunctionsMove
  <1>5. ASSUME NEW s \in Sessions, BuildFunctions(s)
        PROVE  FunctionsKnown'
    <2>1. PICK y : y = [ses[s] EXCEPT !.pc = "register", !.snap = db.functions]
      OBVIOUS
    <2>2. /\ ses' = [ses EXCEPT ![s] = y] /\ y.pc = "register" /\ y.snap = db.functions
          /\ UNCHANGED <<db, udfs>>
      BY <1>5, <2>1 DEF BuildFunctions, SesShape
    <2>3. QED
      BY <2>2, FunctionsMove
  <1>6. ASSUME NEW s \in Sessions, RegisterFunctions(s)
        PROVE  FunctionsKnown'
    <2>1. /\ ses[s].pc = "register" /\ DOMAIN udfs' = DOMAIN udfs \cup DOMAIN ses[s].snap
          /\ Goto(s, "exec") /\ UNCHANGED db
      BY <1>6, RegisteredFacts DEF RegisterFunctions
    <2>2. DOMAIN db.functions \subseteq DOMAIN udfs'
      BY <2>1 DEF FunctionsKnown
    <2>3. QED
      BY <1>2, <2>1, <2>2
  <1>7. ASSUME NEW s \in Sessions, RegisterSome(s)
        PROVE  FunctionsKnown'
    <2>1. End(s, "error") /\ UNCHANGED db /\ DOMAIN udfs \subseteq DOMAIN udfs'
      BY <1>7, RegisteredFacts DEF RegisterSome
    <2>2. QED
      BY <1>1, <2>1
  <1>8. ASSUME NEW s \in Sessions, GetDatabase(s)
        PROVE  FunctionsKnown'
    <2>1. /\ ses[s].pc = "exec" /\ UNCHANGED <<db, udfs>>
          /\ Goto(s, "database_row") \/ \E out : End(s, out)
      BY <1>8 DEF GetDatabase
    <2>2. QED
      BY <1>1, <1>2, <1>3, <2>1
  <1>9. ASSUME NEW s \in Sessions, CreateDatabase(s)
        PROVE  FunctionsKnown'
    <2>1. Goto(s, "schema_row") \/ \E out : End(s, out)
      BY <1>9 DEF CreateDatabase
    <2>2. db'.functions = db.functions
      BY <1>9 DEF CreateDatabase, create_database, GcShape
    <2>3. ses[s].pc = "database_row" /\ UNCHANGED udfs
      BY <1>9 DEF CreateDatabase
    <2>4. QED
      BY <1>1, <1>2, <1>3, <2>1, <2>2, <2>3
  <1>10. ASSUME NEW s \in Sessions, CreateDefaultSchema(s)
        PROVE  FunctionsKnown'
    <2>1. End(s, "ok") /\ UNCHANGED udfs /\ db'.functions = db.functions
      BY <1>10 DEF CreateDefaultSchema, GcShape
    <2>2. QED
      BY <1>1, <2>1
  <1>11. ASSUME NEW s \in Sessions, RegisterFunction(s)
        PROVE  FunctionsKnown'
    <2>1. /\ ses[s].pc = "exec" /\ Goto(s, "function_row") /\ UNCHANGED db
          /\ DOMAIN udfs' = DOMAIN udfs \cup {ses[s].st.names[1]}
      BY <1>11, RegisteredFacts DEF RegisterFunction
    <2>2. QED
      BY <1>2, <1>3, <2>1
  <1>12. ASSUME NEW s \in Sessions, PersistFunction(s)
        PROVE  FunctionsKnown'
    <2>1. UNCHANGED udfs /\ \E out : End(s, out)
      BY <1>12 DEF PersistFunction
    <2>2. ses[s].st.names[1] \in DOMAIN udfs
      BY <1>12 DEF PersistFunction, FunctionsKnown
    <2>3. DOMAIN db'.functions \subseteq DOMAIN db.functions \cup {ses[s].st.names[1]}
      BY <1>12 DEF PersistFunction, create_function, GcShape
    <2>4. QED
      BY <1>1, <2>1, <2>2, <2>3
  <1>13. ASSUME NEW s \in Sessions, DropFunction(s)
        PROVE  FunctionsKnown'
    <2>1. UNCHANGED udfs /\ \E out : End(s, out)
      BY <1>13 DEF DropFunction
    <2>2. DOMAIN db'.functions \subseteq DOMAIN db.functions
      BY <1>13 DEF DropFunction, drop_function, GcShape
    <2>3. QED
      BY <1>1, <2>1, <2>2
  <1>14. ASSUME NEW s \in Sessions, PlanCall(s) \/ RunCall(s) \/ Fail(s)
        PROVE  FunctionsKnown'
    <2>1. UNCHANGED <<db, udfs>> /\ (\/ ses[s].pc = "exec" /\ Goto(s, "run")
                                    \/ \E out : End(s, out))
      BY <1>14 DEF PlanCall, RunCall, Fail
    <2>2. QED
      BY <1>1, <1>2, <1>3, <2>1
  <1>15. ASSUME NEW i \in Instances, Collect(i) \/ Restart(i)
        PROVE  FunctionsKnown'
    BY <1>15, CollectKeepsDatabases DEF FunctionsKnown
  <1>16. CASE UNCHANGED vars
    BY <1>16 DEF vars, FunctionsKnown
  <1>17. QED
    BY <1>4, <1>5, <1>6, <1>7, <1>8, <1>9, <1>10, <1>11, <1>12, <1>13, <1>14, <1>15, <1>16
       DEF Next, Statement

----------------------------------------------------------------------------
(* Theorems                                                                *)

LEMMA GcInvariant == ASSUME ParametersOK PROVE Spec => [](GcShape /\ StatusKnown)
  <1>1. Init => GcShape /\ StatusKnown
    BY InitGc
  <1>2. GcShape /\ StatusKnown /\ [Next]_vars => GcShape' /\ StatusKnown'
    BY GcShapeStep, StatusStep
  <1>3. QED
    BY <1>1, <1>2, PTL DEF Spec

\* utils.rs, gc_databases: a row of dropped_table that a collector deletes
\* names a directory that is empty, whatever several instances do at once, and
\* whatever fails or restarts, as long as the listings of delete_in_prefix are
\* complete.
THEOREM CleanWhenGone ==
    ASSUME ParametersOK, ~ ListFaults
    PROVE  Spec => []RowGoneMeansClean
  <1>1. Init => LeftCovers /\ RowGoneMeansClean
    BY InitGc DEF Init, RowGoneMeansClean
  <1>2. GcShape /\ LeftCovers /\ RowGoneMeansClean /\ [Next]_vars
           => LeftCovers' /\ RowGoneMeansClean'
    BY LeftStep, CleanStep
  <1>3. QED
    BY <1>1, <1>2, GcInvariant, PTL DEF Spec

\* utils.rs, gc_databases: no collector, however old the status it read, puts
\* a table that was left for manual deletion back among those to retry.
THEOREM FailedStaysFailed ==
    ASSUME ParametersOK
    PROVE  Spec => FailedIsFinal
  <1>1. GcShape /\ StatusKnown /\ [Next]_vars => [KeepsFailed]_vars
    BY StatusStep
  <1>2. QED
    BY <1>1, GcInvariant, PTL DEF Spec, FailedIsFinal

\* physical.rs, CREATE DATABASE, and context/mod.rs, reload_schema: a database
\* without its default schema is one whose CREATE is still running or failed
\* between its two rows, and when a query is planned every function that the
\* database holds is registered, whatever other sessions create, replace, drop,
\* register from older lists, or fail at.
THEOREM CreatedAreUsable ==
    ASSUME ParametersOK
    PROVE  Spec => []CreatedIsUsable
  <1>1. Init => SesShape /\ DatabaseHasSchema /\ FunctionsKnown
    BY DEF Init, SesShape, DatabaseHasSchema, Resting, FunctionsKnown, KnowsFunctions
  <1>2. GcShape /\ SesShape /\ DatabaseHasSchema /\ FunctionsKnown /\ [Next]_vars
           => SesShape' /\ DatabaseHasSchema' /\ FunctionsKnown'
    BY SesShapeStep, SchemaStep, FunctionsStep
  <1>3. DatabaseHasSchema /\ FunctionsKnown => CreatedIsUsable
    BY DEF CreatedIsUsable, StoredIsCallable, FunctionsKnown, KnowsFunctions, At
  <1>4. QED
    BY <1>1, <1>2, <1>3, GcInvariant, PTL DEF Spec

----------------------------------------------------------------------------
(***************************************************************************)
(* Frontends                                                               *)
(***************************************************************************)

(* ------------------------- The inductive invariant ------------------------ *)

Pcs == {"idle", "auth", "parse", "prepare", "plan", "fetch", "parts"}
FormType == [header : BOOLEAN, schema : BOOLEAN, data : Nat, file : {"", "csv", "exe"}, part : Nat]
SessionType == [pc : Pcs, r : FrontRequests \cup {[front |-> "none"]}, id : Nat, plans : Seq(Nat),
                ticket : Nat, form : FormType]

FrontType ==
  /\ policy \in Policies
  /\ sending \in [Clients -> SessionType]
  /\ reply = [c \in Clients |-> reply[c]]
  /\ \A c \in Clients : reply[c].id \in Nat
  /\ sent \in Nat

(* What the sender of r may do under policy p. *)
MayDo(r, action, p) == can_perform_action(token_to_principal(r.token, p), action, p)

(* What POST /q has checked of the statements: all of them read and reading   *)
(* is allowed, or one of them writes and writing is.                          *)
PostChecked(r, p) ==
  \/ MayDo(r, "Read", p) /\ \A i \in DOMAIN r.stmts : r.stmts[i] # "write"
  \/ MayDo(r, "Write", p) /\ \E i \in DOMAIN r.stmts : r.stmts[i] = "write"

(* The writes of request id, by their places in the sequence of writes and by *)
(* their statements.                                                          *)
Mine(eff, id) == {j \in DOMAIN eff : eff[j].id = id}
Did(eff, id) == {eff[j].stmt : j \in Mine(eff, id)}

(* A statement that was planned when eff had n writes has the writes of the   *)
(* statements before it, and no others of its own request, among them.        *)
SeesBefore(eff, id, i, n) ==
  /\ n \in 0 .. Len(eff)
  /\ \A j \in DOMAIN eff : eff[j].id = id => (j <= n <=> eff[j].stmt < i)

FileParts(parts, n) == {k \in DOMAIN parts : k < n /\ parts[k] \in {"csv", "exe"}}

(* The form holds what the parts before the next one have said. *)
FormSays(form, parts) ==
  /\ form.part \in 1 .. Len(parts) + 1
  /\ form.data = Cardinality(FileParts(parts, form.part))
  /\ form.schema = (\E k \in DOMAIN parts : k < form.part /\ parts[k] = "schema")
  /\ form.header = (\A k \in DOMAIN parts : k < form.part => parts[k] # "has_header")

(* What is known of a request at the step it has come to. *)
SessionChecked(s, p) ==
  /\ s.pc = "idle" => s = NoSession
  /\ s.pc # "idle" => s.r \in FrontRequests /\ s.id # 0
  /\ s.pc = "auth" => s.r.front \in {"get", "post", "upload"}
  /\ s.pc = "fetch" => s.r.front = "do_get"
  /\ s.pc \in {"parse", "prepare", "plan"} => s.r.front \notin {"upload", "do_get"}
  /\ s.pc \in {"parse", "prepare", "plan"} /\ s.r.front = "get" => MayDo(s.r, "Read", p)
  /\ s.pc = "prepare" => Len(s.r.stmts) = 1
  /\ s.pc = "plan" /\ s.r.front = "get" => Len(s.r.stmts) = 1 /\ s.r.stmts[1] = "read"
  /\ s.pc = "plan" /\ s.r.front = "flight" => Len(s.r.stmts) = 1
  /\ s.pc = "plan" /\ s.r.front = "post" => PostChecked(s.r, p)
  /\ s.pc = "parts" => /\ s.r.front = "upload" /\ MayDo(s.r, "Write", p)
                       /\ FormSays(s.form, s.r.parts)
  /\ s.pc # "parts" => s.form = NoForm
  /\ s.pc # "plan" => s.plans = <<>>
  /\ s.pc = "plan" => Len(s.plans) <= Len(s.r.stmts)

SessionDid(s, eff) ==
  s.pc # "idle" => Did(eff, s.id) = IF s.pc = "plan" THEN {i \in Writes(s.r) : i <= Len(s.plans)} ELSE {}

SessionSees(s, eff) ==
  \A i \in DOMAIN s.plans : SeesBefore(eff, s.id, i, s.plans[i])

(* What an answer tells. *)
ReplyTells(a, eff) ==
  a.id # 0 /\ a.r.front # "do_get" =>
    /\ a.r \in FrontRequests
    /\ a.status = "Ok" => Did(eff, a.id) = Writes(a.r)
    /\ a.status = "DataFusionError" => Begun(Did(eff, a.id), a.r)
    /\ a.status \notin {"Ok", "DataFusionError"} => Did(eff, a.id) = {}

ReplySees(a, eff) ==
  a.r.front # "do_get" => \A row \in a.rows : SeesBefore(eff, a.id, row[1], row[2])

ReplyAllowed(a, p) ==
  a.rows # {} /\ IsHttp(a.r) =>
    \/ p.read \in {"any", a.r.token} \/ p.write = a.r.token
    \/ p.write = "any" /\ "write" \in Range(a.r.stmts)

(* A write that was executed. *)
WriteAllowed(e, p) == IsHttp(e.r) => e.r.front # "get" /\ p.write \in {"any", e.r.token}

UploadWhole(e) ==
  e.r.front = "upload" =>
    /\ e.form.data = Cardinality({k \in DOMAIN e.r.parts : e.r.parts[k] \in {"csv", "exe"}})
    /\ e.form.schema = ("schema" \in Range(e.r.parts))
    /\ e.form.header = ("has_header" \notin Range(e.r.parts))

EffectType == [id : Nat, r : FrontRequests, stmt : Nat, form : FormType]

WriteOK(e, p, n) == e.id \in 1 .. n /\ WriteAllowed(e, p) /\ UploadWhole(e)

WritesOnce(eff) == \A i, j \in DOMAIN eff : eff[i].id = eff[j].id /\ eff[i].stmt = eff[j].stmt => i = j

EffectsOK ==
  /\ effects \in Seq(EffectType)
  /\ \A j \in DOMAIN effects : WriteOK(effects[j], policy, sent)
  /\ WritesOnce(effects)

SessionOK(s, eff, p) == SessionChecked(s, p) /\ SessionDid(s, eff) /\ SessionSees(s, eff)
ReplyOK(a, eff, p) == ReplyTells(a, eff) /\ ReplySees(a, eff) /\ ReplyAllowed(a, p)

(* The number of the request that is being served, or that was answered last. *)
Current(s, a) == IF s.pc = "idle" THEN a.id ELSE s.id

ClientsOK ==
  \A c \in Clients :
    /\ SessionOK(sending[c], effects, policy)
    /\ ReplyOK(reply[c], effects, policy)
    /\ sending[c].pc # "idle" => reply[c] = NoReply
    /\ Current(sending[c], reply[c]) <= sent

(* No two clients have the same request. *)
OwnRequests ==
  \A c, d \in Clients : Current(sending[c], reply[c]) # 0 /\ Current(sending[c], reply[c]) = Current(sending[d], reply[d])
                          => c = d

FrontInv == FrontType /\ EffectsOK /\ ClientsOK /\ OwnRequests

(* --------------------------- Steps of one client -------------------------- *)

(* A write is added for request id, which has not executed that statement.    *)
Added(eff, eff2, id, p, n) ==
  \E e \in EffectType : /\ eff2 = Append(eff, e) /\ e.id = id /\ WriteOK(e, p, n)
                        /\ e.stmt \notin Did(eff, id)

LEMMA AppendFacts ==
    ASSUME NEW S, NEW q \in Seq(S), NEW e \in S
    PROVE  /\ Append(q, e) \in Seq(S) /\ Len(Append(q, e)) = Len(q) + 1 /\ Len(q) \in Nat
           /\ DOMAIN q = 1 .. Len(q) /\ DOMAIN Append(q, e) = 1 .. Len(q) + 1
           /\ DOMAIN q \subseteq DOMAIN Append(q, e)
           /\ \A i \in DOMAIN Append(q, e) : i \in DOMAIN q \/ i = Len(q) + 1
           /\ \A i \in DOMAIN q : Append(q, e)[i] = q[i]
           /\ Append(q, e)[Len(q) + 1] = e
  OBVIOUS

(* What a write of another request leaves as it was. *)
LEMMA OthersWrite ==
    ASSUME NEW eff \in Seq(EffectType), NEW e \in EffectType, NEW id, e.id # id
    PROVE  /\ Did(Append(eff, e), id) = Did(eff, id)
           /\ \A i, n : SeesBefore(eff, id, i, n) => SeesBefore(Append(eff, e), id, i, n)
  <1>1. PICK eff2 : eff2 = Append(eff, e)
    OBVIOUS
  <1>2. /\ DOMAIN eff \subseteq DOMAIN eff2
        /\ \A i \in DOMAIN eff2 : i \in DOMAIN eff \/ i = Len(eff) + 1
        /\ \A i \in DOMAIN eff : eff2[i] = eff[i]
        /\ eff2[Len(eff) + 1] = e
    BY <1>1, AppendFacts
  <1>3. \A j \in DOMAIN eff2 : eff2[j].id = id => j \in DOMAIN eff /\ eff2[j] = eff[j]
    BY <1>2
  <1>4. Mine(eff2, id) = Mine(eff, id)
    BY <1>2, <1>3 DEF Mine
  <1>5. \A j \in Mine(eff, id) : eff2[j].stmt = eff[j].stmt
    BY <1>2 DEF Mine
  <1>6. Did(eff2, id) = Did(eff, id)
    BY <1>4, <1>5 DEF Did
  <1>7. ASSUME NEW i, NEW n, SeesBefore(eff, id, i, n)
        PROVE  SeesBefore(eff2, id, i, n)
    <2>1. n \in 0 .. Len(eff2)
      BY <1>1, <1>7, AppendFacts DEF SeesBefore
    <2>2. QED
      BY <1>3, <1>7, <2>1 DEF SeesBefore
  <1>8. QED
    BY <1>1, <1>6, <1>7

LEMMA EffectsGrow ==
    ASSUME FrontType, EffectsOK, NEW id, Added(effects, effects', id, policy, sent),
           policy' = policy, sent' \in Nat, sent' >= sent
    PROVE  EffectsOK'
  <1>1. PICK e \in EffectType : /\ effects' = Append(effects, e) /\ e.id = id /\ WriteOK(e, policy, sent)
                                /\ e.stmt \notin Did(effects, id)
    BY DEF Added
  <1>2. /\ effects' \in Seq(EffectType)
        /\ \A i \in DOMAIN effects' : i \in DOMAIN effects \/ i = Len(effects) + 1
        /\ \A i \in DOMAIN effects : effects'[i] = effects[i]
        /\ effects'[Len(effects) + 1] = e
    BY <1>1, AppendFacts DEF EffectsOK
  <1>3. \A w : WriteOK(w, policy, sent) => WriteOK(w, policy', sent')
    BY DEF WriteOK, FrontType
  <1>4. \A j \in DOMAIN effects' : WriteOK(effects'[j], policy', sent')
    BY <1>1, <1>2, <1>3 DEF EffectsOK
  <1>5. \A j \in DOMAIN effects : effects[j].id = e.id => effects[j].stmt # e.stmt
    BY <1>1 DEF Did, Mine
  <1>6. WritesOnce(effects')
    BY <1>2, <1>5 DEF EffectsOK, WritesOnce
  <1>7. QED
    BY <1>2, <1>4, <1>6 DEF EffectsOK

(* One client's step: its session becomes s and its last answer a, no write   *)
(* or one of its own request is executed.                                     *)
LEMMA ClientStep ==
    ASSUME FrontInv, NEW c \in Clients, NEW s \in SessionType, NEW a, a.id \in Nat,
           sending' = [sending EXCEPT ![c] = s], reply' = [reply EXCEPT ![c] = a],
           policy' = policy, sent' \in Nat, sent' >= sent,
           \/ effects' = effects
           \/ Added(effects, effects', sending[c].id, policy, sent) /\ sending[c].pc # "idle",
           SessionOK(s, effects', policy), ReplyOK(a, effects', policy),
           s.pc # "idle" => a = NoReply,
           \/ Current(s, a) = Current(sending[c], reply[c])
           \/ Current(s, a) = sent + 1 /\ sent' = sent + 1
    PROVE  FrontInv'
  <1>1. FrontType'
    BY DEF FrontInv, FrontType
  <1>2. EffectsOK'
    <2>1. CASE effects' = effects
      <3>1. \A w : WriteOK(w, policy, sent) => WriteOK(w, policy', sent')
        BY DEF WriteOK, FrontType, FrontInv
      <3>2. QED
        BY <2>1, <3>1 DEF FrontInv, EffectsOK
    <2>2. CASE Added(effects, effects', sending[c].id, policy, sent)
      BY <2>2, EffectsGrow DEF FrontInv
    <2>3. QED
      BY <2>1, <2>2
  <1>3. /\ sending'[c] = s /\ reply'[c] = a
        /\ \A d \in Clients \ {c} : sending'[d] = sending[d] /\ reply'[d] = reply[d]
    BY DEF FrontInv, FrontType
  <1>4. ASSUME NEW d \in Clients, d # c
        PROVE  SessionOK(sending[d], effects', policy) /\ ReplyOK(reply[d], effects', policy)
    <2>1. SessionOK(sending[d], effects, policy) /\ ReplyOK(reply[d], effects, policy)
      BY DEF FrontInv, ClientsOK
    <2>2. CASE effects' = effects
      BY <2>1, <2>2
    <2>3. CASE Added(effects, effects', sending[c].id, policy, sent) /\ sending[c].pc # "idle"
      <3>1. PICK e \in EffectType : effects' = Append(effects, e) /\ e.id = sending[c].id
        BY <2>3 DEF Added
      <3>2. e.id # 0 /\ Current(sending[c], reply[c]) = e.id
        BY <2>3, <3>1 DEF FrontInv, ClientsOK, SessionOK, SessionChecked, Current
      <3>3. Current(sending[d], reply[d]) # e.id
        BY <1>4, <3>2 DEF FrontInv, OwnRequests
      <3>4. effects \in Seq(EffectType)
        BY DEF FrontInv, EffectsOK
      <3>5. SessionOK(sending[d], effects', policy)
        <4>1. CASE sending[d].pc = "idle"
          <5>1. sending[d] = NoSession
            BY <2>1, <4>1 DEF SessionOK, SessionChecked
          <5>2. DOMAIN sending[d].plans = {}
            BY <5>1 DEF NoSession
          <5>3. QED
            BY <2>1, <4>1, <5>2 DEF SessionOK, SessionDid, SessionSees
        <4>2. CASE sending[d].pc # "idle"
          <5>1. e.id # sending[d].id
            BY <3>3, <4>2 DEF Current
          <5>2. /\ Did(effects', sending[d].id) = Did(effects, sending[d].id)
                /\ \A i, n : SeesBefore(effects, sending[d].id, i, n) => SeesBefore(effects', sending[d].id, i, n)
            BY <3>1, <3>4, <5>1, OthersWrite
          <5>3. QED
            BY <2>1, <5>2 DEF SessionOK, SessionDid, SessionSees
        <4>3. QED
          BY <4>1, <4>2
      <3>6. ReplyOK(reply[d], effects', policy)
        <4>1. e.id # reply[d].id
          <5>1. CASE sending[d].pc = "idle"
            BY <3>3, <5>1 DEF Current
          <5>2. CASE sending[d].pc # "idle"
            BY <3>2, <5>2 DEF FrontInv, ClientsOK, NoReply
          <5>3. QED
            BY <5>1, <5>2
        <4>2. /\ Did(effects', reply[d].id) = Did(effects, reply[d].id)
              /\ \A i, n : SeesBefore(effects, reply[d].id, i, n) => SeesBefore(effects', reply[d].id, i, n)
          BY <3>1, <3>4, <4>1, OthersWrite
        <4>3. QED
          BY <2>1, <4>2 DEF ReplyOK, ReplyTells, ReplySees
      <3>7. QED
        BY <3>5, <3>6
    <2>4. QED
      BY <2>2, <2>3
  <1>5. \A d \in Clients : Current(sending[d], reply[d]) \in Nat /\ Current(sending[d], reply[d]) <= sent
    BY DEF FrontInv, ClientsOK, Current, FrontType, SessionType
  <1>6. Current(s, a) \in Nat /\ Current(s, a) <= sent'
    BY <1>5 DEF FrontInv, FrontType
  <1>7. ClientsOK'
    <2>1. SUFFICES ASSUME NEW d \in Clients
                   PROVE  /\ SessionOK(sending'[d], effects', policy')
                          /\ ReplyOK(reply'[d], effects', policy')
                          /\ sending'[d].pc # "idle" => reply'[d] = NoReply
                          /\ Current(sending'[d], reply'[d]) <= sent'
      BY DEF ClientsOK
    <2>2. CASE d = c
      BY <1>3, <1>6, <2>2
    <2>3. CASE d # c
      <3>1. sending[d].pc # "idle" => reply[d] = NoReply
        BY DEF FrontInv, ClientsOK
      <3>2. Current(sending[d], reply[d]) <= sent'
        BY <1>5 DEF FrontInv, FrontType
      <3>3. QED
        BY <1>3, <1>4, <2>3, <3>1, <3>2
    <2>4. QED
      BY <2>2, <2>3
  <1>8. OwnRequests'
    <2>1. ASSUME NEW d \in Clients, d # c, Current(s, a) # 0
          PROVE  Current(s, a) # Current(sending[d], reply[d])
      <3>1. CASE Current(s, a) = Current(sending[c], reply[c])
        BY <2>1, <3>1 DEF FrontInv, OwnRequests
      <3>2. CASE Current(s, a) = sent + 1
        BY <1>5, <3>2 DEF FrontInv, FrontType
      <3>3. QED
        BY <2>1, <3>1, <3>2
    <2>2. SUFFICES ASSUME NEW d \in Clients, NEW f \in Clients, d # f, Current(sending'[d], reply'[d]) # 0
                   PROVE  Current(sending'[d], reply'[d]) # Current(sending'[f], reply'[f])
      BY DEF OwnRequests
    <2>3. CASE d = c
      BY <1>3, <2>1, <2>2, <2>3
    <2>4. CASE f = c
      BY <1>3, <2>1, <2>2, <2>4
    <2>5. CASE d # c /\ f # c
      BY <1>3, <2>2, <2>5 DEF FrontInv, OwnRequests
    <2>6. QED
      BY <2>3, <2>4, <2>5
  <1>9. QED
    BY <1>1, <1>2, <1>7, <1>8 DEF FrontInv

LEMMA RequestFacts ==
    ASSUME FrontParametersOK, NEW r \in FrontRequests
    PROVE  /\ r.front \in Fronts /\ r.token \in Tokens
           /\ r.stmts \in Seq(Statements) /\ r.parts \in Seq(Parts)
           /\ Len(r.stmts) \in Nat /\ DOMAIN r.stmts = 1 .. Len(r.stmts)
           /\ Len(r.parts) \in Nat /\ DOMAIN r.parts = 1 .. Len(r.parts)
           /\ \A i \in DOMAIN r.stmts : r.stmts[i] \in Statements
  BY DEF FrontParametersOK

LEMMA SessionFacts ==
    ASSUME FrontInv, NEW c \in Clients
    PROVE  /\ sending[c] \in SessionType /\ SessionOK(sending[c], effects, policy)
           /\ sending[c].pc # "idle" => reply[c] = NoReply /\ sending[c].r \in FrontRequests /\ sending[c].id # 0
           /\ sending[c].id \in Nat /\ sending[c].plans \in Seq(Nat) /\ sending[c].form \in FormType
           /\ sending[c].pc # "idle" => sending[c].id \in 1 .. sent
           /\ sent \in Nat
  <1>1. sending[c] \in SessionType /\ sent \in Nat
    BY DEF FrontInv, FrontType
  <1>2. SessionOK(sending[c], effects, policy) /\ (sending[c].pc # "idle" => reply[c] = NoReply)
        /\ Current(sending[c], reply[c]) <= sent
    BY DEF FrontInv, ClientsOK
  <1>3. sending[c].pc # "idle" => sending[c].r \in FrontRequests /\ sending[c].id # 0
    BY <1>2 DEF SessionOK, SessionChecked
  <1>4. sending[c].id \in Nat /\ sending[c].plans \in Seq(Nat) /\ sending[c].form \in FormType
    BY <1>1 DEF SessionType
  <1>5. sending[c].pc # "idle" => sending[c].id \in 1 .. sent
    BY <1>1, <1>2, <1>3, <1>4 DEF Current
  <1>6. QED
    BY <1>1, <1>2, <1>3, <1>4, <1>5

(* The request ends. *)
LEMMA AnswerStep ==
    ASSUME FrontInv, NEW c \in Clients, sending[c].pc # "idle", NEW status, NEW rows,
           Answer(c, status, rows), policy' = policy, sent' = sent,
           effects' = effects \/ Added(effects, effects', sending[c].id, policy, sent),
           ReplyOK([id |-> sending[c].id, r |-> sending[c].r, status |-> status, rows |-> rows], effects', policy)
    PROVE  FrontInv'
  <1>1. PICK a : a = [id |-> sending[c].id, r |-> sending[c].r, status |-> status, rows |-> rows]
    OBVIOUS
  <1>2. /\ sending' = [sending EXCEPT ![c] = NoSession] /\ reply' = [reply EXCEPT ![c] = a]
        /\ ReplyOK(a, effects', policy)
    BY <1>1 DEF Answer
  <1>3. a.id = sending[c].id /\ a.id \in Nat /\ sent' \in Nat /\ sent' >= sent
    BY <1>1, SessionFacts
  <1>4. NoSession \in SessionType
    BY DEF NoSession, NoForm, SessionType, FormType, Pcs
  <1>5. SessionOK(NoSession, effects', policy)
    BY DEF SessionOK, SessionChecked, SessionDid, SessionSees, NoSession
  <1>6. NoSession.pc = "idle" /\ Current(NoSession, a) = Current(sending[c], reply[c])
    BY <1>3 DEF NoSession, Current
  <1>7. QED
    BY <1>2, <1>3, <1>4, <1>5, <1>6, ClientStep

(* The request ends before it has executed anything. *)
LEMMA Refused ==
    ASSUME FrontParametersOK, FrontInv, NEW c \in Clients, sending[c].pc \notin {"idle", "plan"}, NEW status,
           status # "Ok", Answer(c, status, {}), UNCHANGED <<policy, effects, sent>>
    PROVE  FrontInv'
  <1>1. PICK a : a = [id |-> sending[c].id, r |-> sending[c].r, status |-> status, rows |-> {}]
    OBVIOUS
  <1>2. a.id = sending[c].id /\ a.r = sending[c].r /\ a.status = status /\ a.rows = {}
    BY <1>1
  <1>3. Did(effects, a.id) = {} /\ a.r \in FrontRequests /\ Len(a.r.stmts) \in Nat
    BY <1>2, SessionFacts, RequestFacts DEF SessionOK, SessionDid
  <1>4. {i \in Writes(a.r) : i <= 0} = {}
    BY <1>3, RequestFacts DEF Writes
  <1>5. ReplyTells(a, effects)
    <2>1. Begun(Did(effects, a.id), a.r)
      BY <1>3, <1>4 DEF Begun
    <2>2. QED
      BY <1>2, <1>3, <2>1 DEF ReplyTells
  <1>6. ReplyOK(a, effects', policy)
    BY <1>2, <1>5 DEF ReplyOK, ReplySees, ReplyAllowed
  <1>7. QED
    BY <1>1, <1>6, AnswerStep

(* The request goes on, nothing is executed yet. *)
LEMMA GoesOn ==
    ASSUME FrontParametersOK, FrontInv, NEW c \in Clients, sending[c].pc \notin {"idle", "plan"}, NEW pc \in Pcs,
           pc # "idle", RequestGoto(c, pc), UNCHANGED <<policy, effects, sent>>,
           SessionChecked([sending[c] EXCEPT !.pc = pc], policy)
    PROVE  FrontInv'
  <1>1. PICK s : s = [sending[c] EXCEPT !.pc = pc]
    OBVIOUS
  <1>2. /\ s \in SessionType /\ s.pc = pc /\ s.r = sending[c].r /\ s.id = sending[c].id /\ s.plans = sending[c].plans
    BY <1>1, SessionFacts DEF SessionType
  <1>3. /\ sending' = [sending EXCEPT ![c] = s] /\ reply' = [reply EXCEPT ![c] = reply[c]]
    BY <1>1 DEF RequestGoto, FrontInv, FrontType
  <1>4. /\ reply[c] = NoReply /\ reply[c].id \in Nat /\ sending[c].r \in FrontRequests /\ sent' \in Nat /\ sent' >= sent
    BY SessionFacts DEF FrontInv, FrontType
  <1>5. /\ Did(effects, s.id) = {} /\ s.plans = <<>> /\ SessionChecked(sending[c], policy)
    BY <1>2, SessionFacts DEF SessionOK, SessionDid, SessionChecked
  <1>6. {i \in Writes(s.r) : i <= Len(s.plans)} = {}
    BY <1>2, <1>4, <1>5, RequestFacts DEF Writes
  <1>7. SessionOK(s, effects', policy)
    <2>1. SessionDid(s, effects)
      BY <1>5, <1>6 DEF SessionDid
    <2>2. SessionSees(s, effects)
      BY <1>5 DEF SessionSees
    <2>3. QED
      BY <1>1, <2>1, <2>2 DEF SessionOK
  <1>8. ReplyOK(reply[c], effects', policy)
    BY DEF FrontInv, ClientsOK
  <1>9. Current(s, reply[c]) = Current(sending[c], reply[c])
    BY <1>2 DEF Current
  <1>10. QED
    BY <1>2, <1>3, <1>4, <1>7, <1>8, <1>9, ClientStep

(* --------------------------------- Actions -------------------------------- *)

LEMMA SendInv ==
    ASSUME FrontParametersOK, FrontInv, NEW c \in Clients, NEW r \in FrontRequests, Send(c, r)
    PROVE  FrontInv'
  <1>1. PICK t, s :
           /\ t \in IF r.front = "do_get" THEN 0 .. sent ELSE {0}
           /\ s = [NoSession EXCEPT !.r = r, !.id = sent + 1, !.ticket = t,
                     !.pc = CASE r.front \in {"get", "post", "upload"} -> "auth"
                              [] r.front = "do_get" -> "fetch"
                              [] OTHER -> "parse"]
           /\ sending' = [sending EXCEPT ![c] = s]
    BY DEF Send
  <1>2. /\ sent' = sent + 1 /\ reply' = [reply EXCEPT ![c] = NoReply] /\ policy' = policy
        /\ effects' = effects /\ sent \in Nat /\ t \in Nat
    BY <1>1, SessionFacts DEF Send
  <1>3. /\ s.r = r /\ s.id = sent + 1 /\ s.plans = <<>> /\ s.form = NoForm /\ s.ticket = t
        /\ s.pc = CASE r.front \in {"get", "post", "upload"} -> "auth"
                    [] r.front = "do_get" -> "fetch"
                    [] OTHER -> "parse"
    BY <1>1 DEF NoSession
  <1>4. s.pc \in {"auth", "fetch", "parse"}
    BY <1>3
  <1>5. s \in SessionType
    <2>1. s = [pc |-> s.pc, r |-> r, id |-> sent + 1, plans |-> <<>>, ticket |-> t, form |-> NoForm]
      BY <1>1 DEF NoSession
    <2>2. NoForm \in FormType /\ s.pc \in Pcs /\ sent + 1 \in Nat
      BY <1>2, <1>4 DEF NoForm, FormType, Pcs
    <2>3. <<>> \in Seq(Nat) /\ r \in FrontRequests \cup {[front |-> "none"]}
      OBVIOUS
    <2>4. [pc |-> s.pc, r |-> r, id |-> sent + 1, plans |-> <<>>, ticket |-> t, form |-> NoForm] \in SessionType
      BY <1>2, <2>2, <2>3 DEF SessionType
    <2>5. QED
      BY <2>1, <2>4
  <1>6. SessionChecked(s, policy)
    BY <1>2, <1>3, <1>4 DEF SessionChecked
  <1>7. Did(effects, s.id) = {}
    <2>1. \A j \in DOMAIN effects : effects[j].id \in 1 .. sent
      BY DEF FrontInv, EffectsOK, WriteOK
    <2>2. Mine(effects, s.id) = {}
      BY <1>2, <1>3, <2>1 DEF Mine
    <2>3. QED
      BY <2>2 DEF Did
  <1>8. SessionOK(s, effects', policy)
    BY <1>2, <1>3, <1>4, <1>6, <1>7 DEF SessionOK, SessionDid, SessionSees
  <1>9. ReplyOK(NoReply, effects', policy) /\ NoReply.id \in Nat
    BY DEF ReplyOK, ReplyTells, ReplySees, ReplyAllowed, NoReply
  <1>10. Current(s, NoReply) = sent + 1 /\ sent' \in Nat /\ sent' >= sent
    BY <1>2, <1>3, <1>4 DEF Current
  <1>11. QED
    BY <1>1, <1>2, <1>5, <1>8, <1>9, <1>10, ClientStep

LEMMA PrincipalIsNoAnswer ==
    ASSUME NEW c \in Clients
    PROVE  Principal(c) # "Ok" 
  BY DEF Principal, token_to_principal

LEMMA AuthenticateInv ==
    ASSUME FrontParametersOK, FrontInv, NEW c \in Clients, Authenticate(c)
    PROVE  FrontInv'
  <1>1. /\ sending[c].pc = "auth" /\ UNCHANGED <<policy, effects, sent>> /\ sending[c].pc \notin {"idle", "plan"}
    BY DEF Authenticate, RequestAt
  <1>2. sending[c] \in SessionType /\ SessionChecked(sending[c], policy)
    BY SessionFacts DEF SessionOK
  <1>3. ASSUME NEW status, status # "Ok", Answer(c, status, {})
        PROVE  FrontInv'
    BY <1>1, <1>3, Refused
  <1>4. ASSUME Front(c) = "get", May(c, "Read"), RequestGoto(c, "parse")
        PROVE  FrontInv'
    <2>1. SessionChecked([sending[c] EXCEPT !.pc = "parse"], policy)
      BY <1>1, <1>2, <1>4 DEF SessionChecked, SessionType, MayDo, May, Principal, Front
    <2>2. QED
      BY <1>1, <1>4, <2>1, GoesOn DEF Pcs
  <1>5. ASSUME Front(c) = "post", RequestGoto(c, "parse")
        PROVE  FrontInv'
    <2>1. SessionChecked([sending[c] EXCEPT !.pc = "parse"], policy)
      BY <1>1, <1>2, <1>5 DEF SessionChecked, SessionType, Front
    <2>2. QED
      BY <1>1, <1>5, <2>1, GoesOn DEF Pcs
  <1>6. ASSUME Front(c) = "upload", May(c, "Write"), RequestGoto(c, "parts")
        PROVE  FrontInv'
    <2>1. sending[c].form = NoForm /\ sending[c].r \in FrontRequests
      BY <1>1, <1>2 DEF SessionChecked
    <2>2. FormSays(NoForm, sending[c].r.parts)
      <3>1. DOMAIN sending[c].r.parts = 1 .. Len(sending[c].r.parts) /\ Len(sending[c].r.parts) \in Nat
        BY <2>1, RequestFacts
      <3>2. FileParts(sending[c].r.parts, 1) = {}
        BY <3>1 DEF FileParts
      <3>3. NoForm.part = 1 /\ NoForm.data = 0 /\ NoForm.schema = FALSE /\ NoForm.header = TRUE
        BY DEF NoForm
      <3>4. Cardinality(FileParts(sending[c].r.parts, 1)) = 0
        BY <3>2, FS_EmptySet
      <3>5. \A k \in DOMAIN sending[c].r.parts : ~ (k < 1)
        BY <3>1
      <3>6. 1 \in 1 .. Len(sending[c].r.parts) + 1
        BY <3>1
      <3>7. QED
        BY <3>3, <3>4, <3>5, <3>6, Zenon DEF FormSays
    <2>3. SessionChecked([sending[c] EXCEPT !.pc = "parts"], policy)
      BY <1>1, <1>2, <1>6, <2>1, <2>2 DEF SessionChecked, SessionType, MayDo, May, Principal, Front
    <2>4. QED
      BY <1>1, <1>6, <2>3, GoesOn DEF Pcs
  <1>7. QED
    BY <1>3, <1>4, <1>5, <1>6, PrincipalIsNoAnswer DEF Authenticate
(* Who may write, and who may read, in terms of the settings. *)
LEMMA WhoMay ==
    ASSUME FrontParametersOK, NEW r \in FrontRequests, NEW p
    PROVE  /\ MayDo(r, "Write", p) => p.write \in {"any", r.token}
           /\ MayDo(r, "Read", p) => p.read \in {"any", r.token} \/ p.write = r.token
  <1>1. r.token \in Tokens /\ Passwords \cap {"any", "off", "none", "malformed"} = {}
    BY RequestFacts DEF FrontParametersOK
  <1>2. token_to_principal(r.token, p) = "Writer" => p.write = r.token
    BY <1>1 DEF token_to_principal, Tokens
  <1>3. token_to_principal(r.token, p) = "Reader" => p.read = r.token
    BY <1>1 DEF token_to_principal, Tokens
  <1>4. QED
    BY <1>2, <1>3 DEF MayDo, can_perform_action

LEMMA PostIsChecked ==
    ASSUME FrontParametersOK, NEW c \in Clients, sending[c].r \in FrontRequests, PostError(c) = "None"
    PROVE  PostChecked(sending[c].r, policy)
  <1>1. PICK reads : reads = {i \in DOMAIN Stmts(c) : is_statement_read_only(Stmts(c)[i])}
    OBVIOUS
  <1>2. May(c, IF reads = DOMAIN Stmts(c) THEN "Read" ELSE "Write")
    BY <1>1 DEF PostError
  <1>3. \A i \in DOMAIN Stmts(c) : Stmts(c)[i] \in Statements
    BY RequestFacts DEF Stmts
  <1>4. \A i \in DOMAIN Stmts(c) : i \in reads <=> Stmts(c)[i] # "write"
    BY <1>1, <1>3 DEF is_statement_read_only, Statements
  <1>5. CASE reads = DOMAIN Stmts(c)
    BY <1>2, <1>4, <1>5 DEF PostChecked, MayDo, May, Principal, Stmts
  <1>6. CASE reads # DOMAIN Stmts(c)
    <2>1. \E i \in DOMAIN Stmts(c) : Stmts(c)[i] = "write"
      BY <1>1, <1>4, <1>6
    <2>2. QED
      BY <1>2, <1>6, <2>1 DEF PostChecked, MayDo, May, Principal, Stmts
  <1>7. QED
    BY <1>5, <1>6

LEMMA ParseErrorIsNoAnswer ==
    ASSUME NEW c \in Clients
    PROVE  ParseError(c) # "Ok"
  BY DEF ParseError, PostError

LEMMA ParseInv ==
    ASSUME FrontParametersOK, FrontInv, NEW c \in Clients, Parse(c)
    PROVE  FrontInv'
  <1>1. /\ sending[c].pc = "parse" /\ UNCHANGED <<policy, effects, sent>> /\ sending[c].pc \notin {"idle", "plan"}
    BY DEF Parse, RequestAt
  <1>2. /\ sending[c] \in SessionType /\ SessionChecked(sending[c], policy) /\ sending[c].r \in FrontRequests
        /\ Len(sending[c].r.stmts) \in Nat /\ sending[c].r.front \in Fronts
    BY <1>1, SessionFacts, RequestFacts DEF SessionOK
  <1>3. ASSUME NEW status, status # "Ok", Answer(c, status, {})
        PROVE  FrontInv'
    BY <1>1, <1>3, Refused
  <1>4. "Ok" \notin TextErrors(c)
    BY DEF TextErrors
  <1>5. ASSUME NEW pc, pc = (IF Front(c) \in {"get", "postgres"} THEN "prepare" ELSE "plan"),
               ParseError(c) = "None", RequestGoto(c, pc)
        PROVE  FrontInv'
    <2>1. PICK s : s = [sending[c] EXCEPT !.pc = pc]
      OBVIOUS
    <2>2. /\ s.pc = pc /\ s.r = sending[c].r /\ s.id = sending[c].id /\ s.plans = sending[c].plans /\ s.form = sending[c].form
      BY <1>2, <2>1 DEF SessionType
    <2>3. Front(c) \in {"get", "flight", "postgres"} => Len(s.r.stmts) = 1
      BY <1>5, <2>2 DEF ParseError, Front, Stmts
    <2>4. Front(c) = "post" => PostChecked(s.r, policy)
      <3>1. Front(c) = "post" => PostError(c) = "None"
        BY <1>5 DEF ParseError
      <3>2. QED
        BY <1>2, <2>2, <3>1, PostIsChecked
    <2>5. Front(c) = s.r.front /\ pc \in {"prepare", "plan"}
      BY <1>5, <2>2 DEF Front
    <2>6. s.id # 0 /\ s.form = NoForm /\ s.plans = <<>> /\ Len(s.plans) <= Len(s.r.stmts)
      BY <1>1, <1>2, <2>2 DEF SessionChecked
    <2>7. SessionChecked(s, policy)
      BY <1>1, <1>2, <1>5, <2>2, <2>3, <2>4, <2>5, <2>6 DEF SessionChecked
    <2>8. QED
      BY <1>1, <1>5, <2>1, <2>5, <2>7, GoesOn DEF Pcs
  <1>6. QED
    BY <1>3, <1>4, <1>5, ParseErrorIsNoAnswer DEF Parse

LEMMA PrepareInv ==
    ASSUME FrontParametersOK, FrontInv, NEW c \in Clients, PrepareGet(c) \/ PreparePostgres(c)
    PROVE  FrontInv'
  <1>1. /\ sending[c].pc = "prepare" /\ UNCHANGED <<policy, effects, sent>> /\ sending[c].pc \notin {"idle", "plan"}
        /\ Front(c) \in {"get", "postgres"}
    BY DEF PrepareGet, PreparePostgres, RequestAt
  <1>2. /\ sending[c] \in SessionType /\ SessionChecked(sending[c], policy) /\ sending[c].r \in FrontRequests
        /\ Len(sending[c].r.stmts) \in Nat
    BY <1>1, SessionFacts, RequestFacts DEF SessionOK
  <1>3. ASSUME NEW status, status # "Ok", Answer(c, status, {})
        PROVE  FrontInv'
    BY <1>1, <1>3, Refused
  <1>4. ASSUME RequestGoto(c, "plan"), Front(c) = "get" => is_read_only(Stmts(c)[1])
        PROVE  FrontInv'
    <2>1. PICK s : s = [sending[c] EXCEPT !.pc = "plan"]
      OBVIOUS
    <2>2. /\ s.pc = "plan" /\ s.r = sending[c].r /\ s.id = sending[c].id /\ s.plans = sending[c].plans /\ s.form = sending[c].form
      BY <1>2, <2>1 DEF SessionType
    <2>3. s.id # 0 /\ s.form = NoForm /\ s.plans = <<>> /\ Len(s.plans) <= Len(s.r.stmts) /\ Len(s.r.stmts) = 1
      BY <1>1, <1>2, <2>2 DEF SessionChecked
    <2>4. s.r.front = "get" => s.r.stmts[1] = "read" /\ MayDo(s.r, "Read", policy)
      BY <1>1, <1>2, <1>4, <2>2 DEF Front, Stmts, is_read_only, SessionChecked
    <2>5. SessionChecked(s, policy)
      BY <1>1, <1>2, <2>2, <2>3, <2>4 DEF SessionChecked, Front
    <2>6. QED
      BY <1>1, <1>4, <2>1, <2>5, GoesOn DEF Pcs
  <1>5. QED
    BY <1>3, <1>4 DEF PrepareGet, PreparePostgres
(* --------------------------- Executing statements ------------------------- *)

LEMMA PlanFacts ==
    ASSUME FrontParametersOK, FrontInv, NEW c \in Clients, sending[c].pc = "plan"
    PROVE  /\ sending[c] \in SessionType /\ SessionChecked(sending[c], policy) /\ sending[c].r \in FrontRequests
           /\ sending[c].id \in 1 .. sent /\ sending[c].id \in Nat /\ sending[c].id # 0 /\ sending[c].form \in FormType
           /\ sending[c].plans \in Seq(Nat) /\ Len(sending[c].plans) \in Nat
           /\ DOMAIN sending[c].plans = 1 .. Len(sending[c].plans)
           /\ Len(sending[c].plans) <= Len(sending[c].r.stmts) /\ Upcoming(c) = Len(sending[c].plans) + 1
           /\ Len(sending[c].r.stmts) \in Nat /\ DOMAIN sending[c].r.stmts = 1 .. Len(sending[c].r.stmts)
           /\ sending[c].r.front \notin {"upload", "do_get"} /\ sending[c].r.front \in Fronts
           /\ Writes(sending[c].r) = {i \in DOMAIN sending[c].r.stmts : sending[c].r.stmts[i] = "write"}
           /\ Did(effects, sending[c].id) = {i \in Writes(sending[c].r) : i <= Len(sending[c].plans)}
           /\ \A i \in DOMAIN sending[c].plans : SeesBefore(effects, sending[c].id, i, sending[c].plans[i])
           /\ effects \in Seq(EffectType)
  <1>1. /\ sending[c] \in SessionType /\ SessionChecked(sending[c], policy) /\ SessionDid(sending[c], effects)
        /\ SessionSees(sending[c], effects) /\ sending[c].r \in FrontRequests /\ sending[c].id # 0
        /\ sending[c].id \in 1 .. sent /\ sending[c].id \in Nat /\ sending[c].form \in FormType /\ sending[c].plans \in Seq(Nat)
    BY SessionFacts DEF SessionOK
  <1>2. Len(sending[c].plans) \in Nat /\ DOMAIN sending[c].plans = 1 .. Len(sending[c].plans)
    BY <1>1
  <1>3. /\ Len(sending[c].plans) <= Len(sending[c].r.stmts) /\ sending[c].r.front \notin {"upload", "do_get"}
    BY <1>1 DEF SessionChecked
  <1>4. /\ Len(sending[c].r.stmts) \in Nat /\ DOMAIN sending[c].r.stmts = 1 .. Len(sending[c].r.stmts)
        /\ sending[c].r.front \in Fronts
    BY <1>1, RequestFacts
  <1>5. effects \in Seq(EffectType)
    BY DEF FrontInv, EffectsOK
  <1>6. QED
    BY <1>1, <1>2, <1>3, <1>4, <1>5 DEF SessionDid, SessionSees, Writes, Upcoming

(* What is executed when the next statement, the i-th, is planned. *)
LEMMA PlanExecutes ==
    ASSUME FrontParametersOK, FrontInv, NEW c \in Clients, sending[c].pc = "plan",
           Upcoming(c) <= Len(Stmts(c)), NEW eff,
           eff = IF Stmts(c)[Upcoming(c)] = "write" THEN Append(effects, Effect(c, Upcoming(c))) ELSE effects
    PROVE  /\ eff = effects \/ Added(effects, eff, sending[c].id, policy, sent)
           /\ Did(eff, sending[c].id) = {k \in Writes(sending[c].r) : k <= Upcoming(c)}
           /\ \A k \in DOMAIN sending[c].plans : SeesBefore(eff, sending[c].id, k, sending[c].plans[k])
           /\ SeesBefore(eff, sending[c].id, Upcoming(c), Len(effects))
  <1>1. PICK i \in Nat, id \in Nat, r \in FrontRequests, n \in Nat :
           i = Upcoming(c) /\ id = sending[c].id /\ r = sending[c].r /\ n = Len(effects)
    BY PlanFacts
  <1>2. /\ i \in DOMAIN r.stmts /\ Stmts(c) = r.stmts /\ i = Len(sending[c].plans) + 1
        /\ Writes(r) = {k \in DOMAIN r.stmts : r.stmts[k] = "write"} /\ DOMAIN r.stmts \subseteq Nat
    BY <1>1, PlanFacts DEF Stmts
  <1>3. /\ Did(effects, id) = {k \in Writes(r) : k < i}
        /\ \A k \in DOMAIN sending[c].plans : k < i /\ k \in Nat /\ SeesBefore(effects, id, k, sending[c].plans[k])
    <2>1. PICK l \in Nat : l = Len(sending[c].plans)
      BY PlanFacts
    <2>2. /\ Did(effects, id) = {k \in Writes(r) : k <= l} /\ DOMAIN sending[c].plans = 1 .. l
          /\ \A k \in DOMAIN sending[c].plans : SeesBefore(effects, id, k, sending[c].plans[k])
      BY <1>1, <2>1, PlanFacts
    <2>3. i = l + 1 /\ \A k \in Writes(r) : k \in Nat
      BY <1>2, <2>1
    <2>4. \A k \in Writes(r) : k <= l <=> k < i
      BY <2>1, <2>3
    <2>5. {k \in Writes(r) : k <= l} = {k \in Writes(r) : k < i}
      BY <2>4
    <2>6. \A k \in DOMAIN sending[c].plans : k < i /\ k \in Nat
      BY <2>1, <2>2, <2>3
    <2>7. QED
      BY <2>2, <2>5, <2>6
  <1>4. \A j \in DOMAIN effects : j \in Nat /\ j <= n /\ (effects[j].id = id => effects[j].stmt < i)
    <2>1. \A j \in DOMAIN effects : j \in Nat /\ j <= n
      BY <1>1, PlanFacts
    <2>2. \A j \in DOMAIN effects : effects[j].id = id => effects[j].stmt \in Did(effects, id)
      BY DEF Did, Mine
    <2>3. QED
      BY <1>3, <2>1, <2>2
  <1>5. SeesBefore(effects, id, i, n)
    BY <1>1, <1>4 DEF SeesBefore
  <1>6. CASE r.stmts[i] # "write"
    <2>1. eff = effects
      BY <1>1, <1>2, <1>6
    <2>2. {k \in Writes(r) : k <= i} = {k \in Writes(r) : k < i}
      BY <1>1, <1>2, <1>6
    <2>3. QED
      BY <1>1, <1>3, <1>5, <2>1, <2>2
  <1>7. CASE r.stmts[i] = "write"
    <2>1. PICK e : e = Effect(c, i)
      OBVIOUS
    <2>2. /\ eff = Append(effects, e) /\ e.id = id /\ e.r = r /\ e.stmt = i /\ e.form = sending[c].form
      BY <1>1, <1>2, <1>7, <2>1 DEF Effect
    <2>3. e \in EffectType
      BY <1>1, <2>1, <2>2, PlanFacts DEF EffectType, Effect
    <2>4. /\ eff \in Seq(EffectType) /\ Len(eff) = n + 1 /\ DOMAIN effects \subseteq DOMAIN eff
          /\ \A j \in DOMAIN eff : j \in DOMAIN effects \/ j = n + 1
          /\ \A j \in DOMAIN effects : eff[j] = effects[j]
          /\ n + 1 \in DOMAIN eff /\ eff[n + 1] = e
      BY <1>1, <2>2, <2>3, PlanFacts, AppendFacts
    <2>5. WriteOK(e, policy, sent)
      <3>1. e.id \in 1 .. sent /\ UploadWhole(e)
        BY <1>1, <2>2, PlanFacts DEF UploadWhole
      <3>2. SessionChecked(sending[c], policy)
        BY PlanFacts
      <3>3. r.front # "get"
        <4>1. r.front = "get" => Len(r.stmts) = 1 /\ r.stmts[1] = "read"
          BY <1>1, <3>2 DEF SessionChecked
        <4>2. QED
          BY <1>1, <1>2, <1>7, <4>1, PlanFacts
      <3>4. r.front = "post" => MayDo(r, "Write", policy)
        BY <1>1, <1>2, <1>7, <3>2 DEF SessionChecked, PostChecked
      <3>5. r.front # "upload"
        BY <1>1, PlanFacts
      <3>6. QED
        BY <2>2, <3>1, <3>3, <3>4, <3>5, WhoMay DEF WriteOK, WriteAllowed, IsHttp
    <2>6. e.stmt \notin Did(effects, id)
      BY <1>1, <1>3, <2>2
    <2>7. Added(effects, eff, id, policy, sent)
      BY <2>2, <2>3, <2>5, <2>6 DEF Added
    <2>8. Did(eff, id) = Did(effects, id) \cup {i}
      BY <2>2, <2>4 DEF Did, Mine
    <2>9. {k \in Writes(r) : k <= i} = {k \in Writes(r) : k < i} \cup {i}
      BY <1>1, <1>2, <1>7
    <2>10. ASSUME NEW k \in Nat, k <= i, NEW m, SeesBefore(effects, id, k, m)
           PROVE  SeesBefore(eff, id, k, m)
      <3>1. m \in 0 .. n /\ m \in 0 .. Len(eff)
        BY <1>1, <2>4, <2>10 DEF SeesBefore
      <3>2. ~ (n + 1 <= m) /\ ~ (i < k)
        BY <1>1, <2>10, <3>1
      <3>3. QED
        BY <2>2, <2>4, <2>10, <3>1, <3>2 DEF SeesBefore
    <2>11. \A k \in DOMAIN sending[c].plans : SeesBefore(eff, id, k, sending[c].plans[k])
      BY <1>1, <1>3, <2>10
    <2>12. SeesBefore(eff, id, i, n)
      BY <1>5, <2>10
    <2>13. QED
      BY <1>1, <1>3, <2>7, <2>8, <2>9, <2>11, <2>12
  <1>8. QED
    BY <1>6, <1>7

(* The next statement is planned and the request goes on. *)
LEMMA PlanGoesOn ==
    ASSUME FrontParametersOK, FrontInv, NEW c \in Clients, sending[c].pc = "plan",
           Upcoming(c) <= Len(Stmts(c)),
           effects' = IF Stmts(c)[Upcoming(c)] = "write" THEN Append(effects, Effect(c, Upcoming(c)))
                      ELSE effects,
           sending' = [sending EXCEPT ![c].plans = Append(@, Len(effects))],
           UNCHANGED <<policy, reply, sent>>
    PROVE  FrontInv'
  <1>1. PICK s : s = [sending[c] EXCEPT !.plans = Append(@, Len(effects))]
    OBVIOUS
  <1>2. /\ s.pc = "plan" /\ s.r = sending[c].r /\ s.id = sending[c].id /\ s.form = sending[c].form
        /\ s.plans = Append(sending[c].plans, Len(effects))
    BY <1>1, PlanFacts DEF SessionType
  <1>3. /\ Len(effects) \in Nat /\ s.plans \in Seq(Nat) /\ Len(s.plans) = Upcoming(c)
        /\ \A k \in DOMAIN s.plans : k \in DOMAIN sending[c].plans \/ k = Upcoming(c)
        /\ \A k \in DOMAIN sending[c].plans : s.plans[k] = sending[c].plans[k]
        /\ s.plans[Upcoming(c)] = Len(effects)
    <2>1. Len(effects) \in Nat /\ sending[c].plans \in Seq(Nat) /\ Upcoming(c) = Len(sending[c].plans) + 1
      BY PlanFacts
    <2>2. PICK q \in Seq(Nat), n \in Nat : q = sending[c].plans /\ n = Len(effects)
      BY <2>1
    <2>3. /\ Append(q, n) \in Seq(Nat) /\ Len(Append(q, n)) = Len(q) + 1
          /\ \A k \in DOMAIN Append(q, n) : k \in DOMAIN q \/ k = Len(q) + 1
          /\ \A k \in DOMAIN q : Append(q, n)[k] = q[k]
          /\ Append(q, n)[Len(q) + 1] = n
      BY AppendFacts
    <2>4. QED
      BY <1>2, <2>1, <2>2, <2>3
  <1>4. s \in SessionType
    BY <1>1, <1>2, <1>3, PlanFacts DEF SessionType
  <1>5. /\ effects' = effects \/ Added(effects, effects', sending[c].id, policy, sent)
        /\ Did(effects', s.id) = {k \in Writes(s.r) : k <= Len(s.plans)}
        /\ \A k \in DOMAIN sending[c].plans : SeesBefore(effects', s.id, k, sending[c].plans[k])
        /\ SeesBefore(effects', s.id, Upcoming(c), Len(effects))
    BY <1>2, <1>3, PlanExecutes
  <1>6. SessionChecked(s, policy)
    <2>1. SessionChecked(sending[c], policy) /\ Len(s.plans) <= Len(s.r.stmts)
      BY <1>2, <1>3, PlanFacts DEF Stmts
    <2>2. QED
      BY <1>2, <2>1 DEF SessionChecked
  <1>7. SessionDid(s, effects') /\ SessionSees(s, effects')
    BY <1>2, <1>3, <1>5 DEF SessionDid, SessionSees
  <1>8. /\ reply[c] = NoReply /\ reply[c].id \in Nat /\ sent' \in Nat /\ sent' >= sent
    BY SessionFacts DEF FrontInv, FrontType
  <1>9. ReplyOK(reply[c], effects', policy)
    BY <1>8 DEF ReplyOK, ReplyTells, ReplySees, ReplyAllowed, NoReply
  <1>10. /\ sending' = [sending EXCEPT ![c] = s] /\ reply' = [reply EXCEPT ![c] = reply[c]]
    BY <1>1 DEF FrontInv, FrontType
  <1>11. Current(s, reply[c]) = Current(sending[c], reply[c])
    BY <1>2 DEF Current
  <1>12. SessionOK(s, effects', policy)
    BY <1>6, <1>7 DEF SessionOK
  <1>13. QED
    BY <1>4, <1>5, <1>8, <1>9, <1>10, <1>11, <1>12, ClientStep

(* Rows are returned to those who may have them, of the states read. *)
LEMMA RowsFacts ==
    ASSUME FrontParametersOK, FrontInv, NEW c \in Clients, sending[c].pc = "plan", NEW eff,
           \A k \in DOMAIN sending[c].plans : SeesBefore(eff, sending[c].id, k, sending[c].plans[k]),
           NEW rows \in SUBSET Rows(c), NEW status,
           NEW a, a = [id |-> sending[c].id, r |-> sending[c].r, status |-> status, rows |-> rows]
    PROVE  ReplySees(a, eff) /\ ReplyAllowed(a, policy)
  <1>1. a.id = sending[c].id /\ a.r = sending[c].r /\ a.rows = rows
    OBVIOUS
  <1>2. \A row \in rows : \E k \in DOMAIN sending[c].plans : row = <<k, sending[c].plans[k]>>
    BY DEF Rows
  <1>3. \A row \in rows : SeesBefore(eff, sending[c].id, row[1], row[2])
    BY <1>2
  <1>4. ReplySees(a, eff)
    BY <1>1, <1>3 DEF ReplySees
  <1>5. SessionChecked(sending[c], policy) /\ sending[c].r.front # "upload" /\ sending[c].r \in FrontRequests
    BY PlanFacts
  <1>6. sending[c].r.front = "get" => MayDo(sending[c].r, "Read", policy)
    BY <1>5 DEF SessionChecked
  <1>7. sending[c].r.front = "post" => \/ MayDo(sending[c].r, "Read", policy)
                                       \/ MayDo(sending[c].r, "Write", policy) /\ "write" \in Range(sending[c].r.stmts)
    BY <1>5 DEF SessionChecked, PostChecked, Range
  <1>8. ReplyAllowed(a, policy)
    BY <1>1, <1>5, <1>6, <1>7, WhoMay DEF ReplyAllowed, IsHttp
  <1>9. QED
    BY <1>4, <1>8

(* The request ends while or after its statements are executed. *)
LEMMA PlanEnds ==
    ASSUME FrontParametersOK, FrontInv, NEW c \in Clients, sending[c].pc = "plan", NEW status,
           NEW rows \in SUBSET Rows(c), Answer(c, status, rows), UNCHANGED <<policy, effects, sent>>,
           status \in {"Ok", "DataFusionError"}, status = "Ok" => Upcoming(c) > Len(Stmts(c))
    PROVE  FrontInv'
  <1>1. PICK a : a = [id |-> sending[c].id, r |-> sending[c].r, status |-> status, rows |-> rows]
    OBVIOUS
  <1>2. a.id = sending[c].id /\ a.r = sending[c].r /\ a.status = status
    BY <1>1
  <1>3. PICK n \in Nat : /\ n = Len(sending[c].plans) /\ n \in 0 .. Len(a.r.stmts)
                         /\ Did(effects, a.id) = {i \in Writes(a.r) : i <= n}
    <2>1. /\ Len(sending[c].plans) \in Nat /\ Len(sending[c].plans) \in 0 .. Len(a.r.stmts)
      BY <1>2, PlanFacts
    <2>2. Did(effects, a.id) = {i \in Writes(a.r) : i <= Len(sending[c].plans)}
      BY <1>2, PlanFacts
    <2>3. QED
      BY <2>1, <2>2
  <1>4. status = "Ok" => Did(effects, a.id) = Writes(a.r)
    <2>1. ASSUME status = "Ok"
          PROVE  \A i \in Writes(a.r) : i <= n
      <3>1. /\ n + 1 > Len(a.r.stmts) /\ Len(a.r.stmts) \in Nat
            /\ Writes(a.r) \subseteq 1 .. Len(a.r.stmts)
        BY <1>2, <1>3, <2>1, PlanFacts DEF Stmts
      <3>2. QED
        BY <1>3, <3>1
    <2>2. QED
      BY <1>3, <2>1
  <1>5. ReplyTells(a, effects)
    <2>1. Begun(Did(effects, a.id), a.r)
      BY <1>3 DEF Begun
    <2>2. QED
      BY <1>2, <1>4, <2>1, PlanFacts DEF ReplyTells
  <1>6. ReplySees(a, effects) /\ ReplyAllowed(a, policy)
    BY <1>1, RowsFacts, PlanFacts
  <1>7. ReplyOK(a, effects', policy)
    BY <1>5, <1>6 DEF ReplyOK
  <1>8. QED
    BY <1>1, <1>7, AnswerStep

(* A statement fails after it took effect. *)
LEMMA PlanFails ==
    ASSUME FrontParametersOK, FrontInv, NEW c \in Clients, sending[c].pc = "plan",
           Upcoming(c) <= Len(Stmts(c)), UNCHANGED <<policy, sent>>, NEW rows \in SUBSET Rows(c),
           effects' = IF Stmts(c)[Upcoming(c)] = "write" THEN Append(effects, Effect(c, Upcoming(c)))
                      ELSE effects,
           Answer(c, "DataFusionError", rows)
    PROVE  FrontInv'
  <1>1. PICK a : a = [id |-> sending[c].id, r |-> sending[c].r, status |-> "DataFusionError", rows |-> rows]
    OBVIOUS
  <1>2. a.id = sending[c].id /\ a.r = sending[c].r /\ a.status = "DataFusionError"
    BY <1>1
  <1>3. /\ effects' = effects \/ Added(effects, effects', sending[c].id, policy, sent)
        /\ Did(effects', sending[c].id) = {k \in Writes(sending[c].r) : k <= Upcoming(c)}
        /\ \A k \in DOMAIN sending[c].plans : SeesBefore(effects', sending[c].id, k, sending[c].plans[k])
    BY PlanExecutes
  <1>4. Upcoming(c) \in 0 .. Len(a.r.stmts) /\ a.r \in FrontRequests
    BY <1>2, PlanFacts DEF Stmts
  <1>5. ReplyTells(a, effects')
    <2>1. Begun(Did(effects', a.id), a.r)
      BY <1>2, <1>3, <1>4 DEF Begun
    <2>2. QED
      BY <1>2, <1>4, <2>1 DEF ReplyTells
  <1>6. ReplySees(a, effects') /\ ReplyAllowed(a, policy)
    BY <1>1, <1>3, RowsFacts
  <1>7. ReplyOK(a, effects', policy)
    BY <1>5, <1>6 DEF ReplyOK
  <1>8. QED
    BY <1>1, <1>3, <1>7, AnswerStep

LEMMA PlanStatementInv ==
    ASSUME FrontParametersOK, FrontInv, NEW c \in Clients, PlanStatement(c)
    PROVE  FrontInv'
  <1>1. /\ sending[c].pc = "plan" /\ Upcoming(c) <= Len(Stmts(c)) /\ UNCHANGED <<policy, sent>>
    BY DEF PlanStatement, RequestAt
  <1>2. CASE Answer(c, "DataFusionError", {}) /\ UNCHANGED effects
    <2>1. {} \in SUBSET Rows(c) /\ UNCHANGED <<policy, effects, sent>>
      BY <1>1, <1>2
    <2>2. PICK status \in {"Ok", "DataFusionError"} : status = "DataFusionError" /\ Answer(c, status, {})
      BY <1>2
    <2>3. QED
      BY <1>1, <2>1, <2>2, PlanEnds
  <1>3. CASE /\ sending' = [sending EXCEPT ![c].plans = Append(@, Len(effects))]
             /\ effects' = IF Stmts(c)[Upcoming(c)] = "write" THEN Append(effects, Effect(c, Upcoming(c)))
                           ELSE effects
             /\ UNCHANGED reply
    BY <1>1, <1>3, PlanGoesOn
  <1>4. CASE /\ effects' = IF Stmts(c)[Upcoming(c)] = "write" THEN Append(effects, Effect(c, Upcoming(c)))
                           ELSE effects
             /\ Answer(c, "DataFusionError", {})
    <2>1. {} \in SUBSET Rows(c)
      OBVIOUS
    <2>2. QED
      BY <1>1, <1>4, <2>1, PlanFails
  <1>5. QED
    BY <1>2, <1>3, <1>4 DEF PlanStatement

LEMMA RunOneOffInv ==
    ASSUME FrontParametersOK, FrontInv, NEW c \in Clients, RunOneOff(c)
    PROVE  FrontInv'
  <1>1. /\ sending[c].pc = "plan" /\ Upcoming(c) <= Len(Stmts(c)) /\ UNCHANGED <<policy, sent>>
    BY DEF RunOneOff, RequestAt
  <1>2. CASE Answer(c, "DataFusionError", Rows(c)) /\ UNCHANGED effects
    <2>1. Rows(c) \in SUBSET Rows(c) /\ UNCHANGED <<policy, effects, sent>>
      BY <1>1, <1>2
    <2>2. PICK status \in {"Ok", "DataFusionError"} : status = "DataFusionError" /\ Answer(c, status, Rows(c))
      BY <1>2
    <2>3. QED
      BY <1>1, <2>1, <2>2, PlanEnds
  <1>3. CASE /\ effects' = IF Stmts(c)[Upcoming(c)] = "write" THEN Append(effects, Effect(c, Upcoming(c)))
                           ELSE effects
             /\ Answer(c, "DataFusionError", Rows(c))
    <2>1. Rows(c) \in SUBSET Rows(c)
      OBVIOUS
    <2>2. QED
      BY <1>1, <1>3, <2>1, PlanFails
  <1>4. CASE /\ effects' = IF Stmts(c)[Upcoming(c)] = "write" THEN Append(effects, Effect(c, Upcoming(c)))
                           ELSE effects
             /\ sending' = [sending EXCEPT ![c].plans = Append(@, Len(effects))]
             /\ UNCHANGED reply
    BY <1>1, <1>4, PlanGoesOn
  <1>5. QED
    BY <1>2, <1>3, <1>4 DEF RunOneOff

LEMMA OutputInv ==
    ASSUME FrontParametersOK, FrontInv, NEW c \in Clients, Output(c) \/ IssueTicket(c)
    PROVE  FrontInv'
  <1>1. /\ sending[c].pc = "plan" /\ Upcoming(c) > Len(Stmts(c)) /\ UNCHANGED <<policy, effects, sent>>
    BY DEF Output, IssueTicket, RequestAt
  <1>2. Rows(c) \in SUBSET Rows(c) /\ {} \in SUBSET Rows(c)
    OBVIOUS
  <1>3. PICK rows \in SUBSET Rows(c), status \in {"Ok", "DataFusionError"} : Answer(c, status, rows)
    BY <1>2 DEF Output, IssueTicket
  <1>4. QED
    BY <1>1, <1>3, PlanEnds
(* ---------------------------- Flight and uploads -------------------------- *)

LEMMA FetchStreamInv ==
    ASSUME FrontParametersOK, FrontInv, NEW c \in Clients, FetchStream(c)
    PROVE  FrontInv'
  <1>1. /\ sending[c].pc = "fetch" /\ UNCHANGED <<policy, effects, sent>>
    BY DEF FetchStream, RequestAt
  <1>2. PICK status, rows : Answer(c, status, rows)
    BY DEF FetchStream
  <1>3. sending[c].r.front = "do_get"
    BY <1>1, SessionFacts DEF SessionOK, SessionChecked
  <1>4. ReplyOK([id |-> sending[c].id, r |-> sending[c].r, status |-> status, rows |-> rows], effects', policy)
    BY <1>3 DEF ReplyOK, ReplyTells, ReplySees, ReplyAllowed, IsHttp
  <1>5. QED
    BY <1>1, <1>2, <1>4, AnswerStep

LEMMA FilePartsFinite ==
    ASSUME FrontParametersOK, NEW r \in FrontRequests, NEW n
    PROVE  IsFiniteSet(FileParts(r.parts, n)) /\ Cardinality(FileParts(r.parts, n)) \in Nat
  <1>1. DOMAIN r.parts = 1 .. Len(r.parts) /\ Len(r.parts) \in Nat
    BY RequestFacts
  <1>2. IsFiniteSet(1 .. Len(r.parts))
    BY <1>1, FS_Interval
  <1>3. FileParts(r.parts, n) \subseteq 1 .. Len(r.parts)
    BY <1>1 DEF FileParts
  <1>4. QED
    BY <1>2, <1>3, FS_Subset, FS_CardinalityType

(* A part of the form is read. *)
LEMMA PartRead ==
    ASSUME FrontParametersOK, NEW r \in FrontRequests, NEW form \in FormType, FormSays(form, r.parts),
           form.part <= Len(r.parts), NEW p, p = r.parts[form.part], p \notin {"unnamed", "broken"}
    PROVE  AfterPart(form, p) \in FormType /\ FormSays(AfterPart(form, p), r.parts)
  <1>1. PICK n, l, f : n \in Nat /\ l \in Nat /\ n = form.part /\ l = Len(r.parts) /\ f = AfterPart(form, p)
    BY RequestFacts DEF FormType
  <1>2. DOMAIN r.parts = 1 .. l /\ n \in 1 .. l /\ p \in {"has_header", "schema", "csv", "exe"}
    BY <1>1, RequestFacts DEF FormSays, Parts
  <1>3. /\ f \in FormType
        /\ f.part = n + 1
        /\ f.data = IF p \in {"csv", "exe"} THEN form.data + 1 ELSE form.data
        /\ f.schema = IF p = "schema" THEN TRUE ELSE form.schema
        /\ f.header = IF p = "has_header" THEN FALSE ELSE form.header
    <2> DEFINE next == [form EXCEPT !.part = @ + 1]
    <2>0. /\ next \in FormType /\ next.part = n + 1 /\ next.data = form.data /\ next.file = form.file
          /\ next.schema = form.schema /\ next.header = form.header /\ form.data \in Nat
      <3>1. form.part \in Nat /\ form.part + 1 \in Nat /\ form.data \in Nat
        <4>1. form.part \in Nat
          BY <1>1
        <4>2. form.data \in Nat
          BY DEF FormType
        <4>3. QED
          BY <4>1, <4>2
      <3>2. next \in FormType
        BY <3>1 DEF FormType
      <3>3. /\ next.part = form.part + 1 /\ next.data = form.data /\ next.file = form.file
            /\ next.schema = form.schema /\ next.header = form.header
        BY DEF FormType
      <3> HIDE DEF next
      <3>4. QED
        BY <1>1, <3>1, <3>2, <3>3
    <2>1. CASE p = "has_header"
      <3>1. f = [next EXCEPT !.header = FALSE]
        BY <1>1, <2>1 DEF AfterPart
      <3> HIDE DEF next
      <3>2. QED
        BY <2>0, <2>1, <3>1 DEF FormType
    <2>2. CASE p = "schema"
      <3>1. f = [next EXCEPT !.schema = TRUE]
        BY <1>1, <2>2 DEF AfterPart
      <3> HIDE DEF next
      <3>2. QED
        BY <2>0, <2>2, <3>1 DEF FormType
    <2>3. CASE p \in {"csv", "exe"}
      <3>1. f = [next EXCEPT !.file = p, !.data = @ + 1]
        BY <1>1, <2>3 DEF AfterPart
      <3> HIDE DEF next
      <3>2. f.part = next.part /\ f.schema = next.schema /\ f.header = next.header /\ f.data = next.data + 1
        BY <2>0, <3>1 DEF FormType
      <3>3. next.data + 1 \in Nat
        BY <2>0
      <3>4. f \in FormType
        BY <2>0, <2>3, <3>1, <3>3 DEF FormType
      <3>5. QED
        BY <2>0, <2>3, <3>2, <3>4
    <2>4. QED
      BY <1>2, <2>1, <2>2, <2>3
  <1>4. \A k \in DOMAIN r.parts : k < n + 1 <=> k < n \/ k = n
    BY <1>2
  <1>5. n \in DOMAIN r.parts /\ r.parts[n] = p /\ ~ (n < n)
    BY <1>1, <1>2
  <1>6. f.data = Cardinality(FileParts(r.parts, n + 1))
    <2>1. form.data = Cardinality(FileParts(r.parts, n)) /\ IsFiniteSet(FileParts(r.parts, n))
      BY <1>1, FilePartsFinite DEF FormSays
    <2>2. CASE p \in {"csv", "exe"}
      <3>1. FileParts(r.parts, n + 1) = FileParts(r.parts, n) \cup {n} /\ n \notin FileParts(r.parts, n)
        BY <1>4, <1>5, <2>2 DEF FileParts
      <3>2. QED
        BY <1>3, <2>1, <2>2, <3>1, FS_AddElement
    <2>3. CASE p \notin {"csv", "exe"}
      <3>1. FileParts(r.parts, n + 1) = FileParts(r.parts, n)
        BY <1>4, <1>5, <2>3 DEF FileParts
      <3>2. QED
        BY <1>3, <2>1, <2>3, <3>1
    <2>4. QED
      BY <2>2, <2>3
  <1>7. f.schema = (\E k \in DOMAIN r.parts : k < n + 1 /\ r.parts[k] = "schema")
    <2>1. form.schema = (\E k \in DOMAIN r.parts : k < n /\ r.parts[k] = "schema")
      BY <1>1 DEF FormSays
    <2>2. CASE p = "schema"
      BY <1>3, <1>4, <1>5, <2>2, Zenon
    <2>3. CASE p # "schema"
      BY <1>3, <1>4, <1>5, <2>1, <2>3, Zenon
    <2>4. QED
      BY <2>2, <2>3
  <1>8. f.header = (\A k \in DOMAIN r.parts : k < n + 1 => r.parts[k] # "has_header")
    <2>1. form.header = (\A k \in DOMAIN r.parts : k < n => r.parts[k] # "has_header")
      BY <1>1 DEF FormSays
    <2>2. CASE p = "has_header"
      BY <1>3, <1>4, <1>5, <2>2, Zenon
    <2>3. CASE p # "has_header"
      BY <1>3, <1>4, <1>5, <2>1, <2>3, Zenon
    <2>4. QED
      BY <2>2, <2>3
  <1>9. f.part \in 1 .. Len(r.parts) + 1
    BY <1>1, <1>2, <1>3
  <1>10. FormSays(f, r.parts)
    BY <1>3, <1>6, <1>7, <1>8, <1>9, Zenon DEF FormSays
  <1>11. QED
    BY <1>1, <1>3, <1>10

LEMMA PartsFacts ==
    ASSUME FrontParametersOK, FrontInv, NEW c \in Clients, sending[c].pc = "parts"
    PROVE  /\ sending[c] \in SessionType /\ SessionChecked(sending[c], policy) /\ sending[c].r \in FrontRequests
           /\ sending[c].id \in 1 .. sent /\ sending[c].id \in Nat /\ sending[c].id # 0 /\ sending[c].form \in FormType
           /\ sending[c].r.front = "upload" /\ MayDo(sending[c].r, "Write", policy)
           /\ FormSays(sending[c].form, sending[c].r.parts) /\ sending[c].plans = <<>>
           /\ Did(effects, sending[c].id) = {} /\ reply[c] = NoReply
  BY SessionFacts DEF SessionOK, SessionChecked, SessionDid

LEMMA NextPartInv ==
    ASSUME FrontParametersOK, FrontInv, NEW c \in Clients, NextPart(c)
    PROVE  FrontInv'
  <1>1. /\ sending[c].pc = "parts" /\ UNCHANGED <<policy, effects, sent>> /\ sending[c].pc \notin {"idle", "plan"}
        /\ sending[c].form.part <= Len(sending[c].r.parts)
    BY DEF NextPart, RequestAt, PartsOf
  <1>2. PICK p : p = sending[c].r.parts[sending[c].form.part]
    OBVIOUS
  <1>3. ASSUME NEW status, status # "Ok", Answer(c, status, {})
        PROVE  FrontInv'
    BY <1>1, <1>3, Refused
  <1>4. ASSUME p \notin {"unnamed", "broken"}, UNCHANGED reply,
               sending' = [sending EXCEPT ![c].form = AfterPart(@, p)]
        PROVE  FrontInv'
    <2>1. PICK s : s = [sending[c] EXCEPT !.form = AfterPart(@, p)]
      OBVIOUS
    <2>2. AfterPart(sending[c].form, p) \in FormType /\ FormSays(AfterPart(sending[c].form, p), sending[c].r.parts)
      BY <1>1, <1>2, <1>4, PartRead, PartsFacts
    <2>3. /\ s \in SessionType /\ s.pc = "parts" /\ s.r = sending[c].r /\ s.id = sending[c].id
          /\ s.plans = <<>> /\ s.form = AfterPart(sending[c].form, p)
      BY <1>1, <2>1, <2>2, PartsFacts DEF SessionType
    <2>4. SessionChecked(s, policy)
      BY <1>1, <2>2, <2>3, PartsFacts DEF SessionChecked
    <2>5. SessionOK(s, effects', policy)
      <3>1. Did(effects, s.id) = {}
        BY <1>1, <2>3, PartsFacts
      <3>2. SessionDid(s, effects)
        BY <2>3, <3>1 DEF SessionDid
      <3>3. SessionSees(s, effects)
        BY <2>3 DEF SessionSees
      <3>4. QED
        BY <1>1, <2>4, <3>2, <3>3 DEF SessionOK
    <2>6. /\ sending' = [sending EXCEPT ![c] = s] /\ reply' = [reply EXCEPT ![c] = reply[c]]
      BY <1>4, <2>1 DEF FrontInv, FrontType
    <2>7. /\ reply[c] = NoReply /\ reply[c].id \in Nat /\ sent' \in Nat /\ sent' >= sent
      BY <1>1, SessionFacts DEF FrontInv, FrontType
    <2>8. ReplyOK(reply[c], effects', policy)
      BY <1>1 DEF FrontInv, ClientsOK
    <2>9. Current(s, reply[c]) = Current(sending[c], reply[c])
      BY <1>1, <2>3 DEF Current
    <2>10. QED
      BY <1>1, <2>3, <2>5, <2>6, <2>7, <2>8, <2>9, ClientStep
  <1>5. QED
    BY <1>2, <1>3, <1>4 DEF NextPart, PartsOf

LEMMA UploadFileInv ==
    ASSUME FrontParametersOK, FrontInv, NEW c \in Clients, UploadFile(c)
    PROVE  FrontInv'
  <1>1. /\ sending[c].pc = "parts" /\ UNCHANGED <<policy, sent>> /\ sending[c].pc \notin {"idle", "plan"}
        /\ sending[c].form.part > Len(sending[c].r.parts)
    BY DEF UploadFile, RequestAt, PartsOf
  <1>2. ASSUME NEW status, status # "Ok", Answer(c, status, {}), UNCHANGED effects
        PROVE  FrontInv'
    <2>1. UNCHANGED <<policy, effects, sent>>
      BY <1>1, <1>2
    <2>2. QED
      BY <1>1, <1>2, <2>1, Refused
  <1>3. ASSUME NEW status \in {"Ok", "DataFusionError"}, effects' = Append(effects, Effect(c, 1)),
               Answer(c, status, {})
        PROVE  FrontInv'
    <2>1. PICK e, r, a : /\ e = Effect(c, 1) /\ r = sending[c].r
                         /\ a = [id |-> sending[c].id, r |-> sending[c].r, status |-> status, rows |-> {}]
      OBVIOUS
    <2>2. /\ e.id = sending[c].id /\ e.r = r /\ e.stmt = 1 /\ e.form = sending[c].form
          /\ r \in FrontRequests /\ r.front = "upload"
      BY <1>1, <2>1, PartsFacts DEF Effect
    <2>3. e \in EffectType
      BY <1>1, <2>1, PartsFacts DEF EffectType, Effect
    <2>4. \A k \in DOMAIN r.parts : k < e.form.part
      <3>1. PICK n \in Nat, l \in Nat : n = e.form.part /\ l = Len(r.parts)
        BY <1>1, <2>2, PartsFacts, RequestFacts DEF FormType
      <3>2. DOMAIN r.parts = 1 .. l /\ n > l
        BY <1>1, <2>1, <2>2, <3>1, RequestFacts
      <3>3. QED
        BY <3>1, <3>2
    <2>5. FormSays(e.form, r.parts)
      BY <1>1, <2>1, <2>2, PartsFacts
    <2>6. UploadWhole(e)
      <3>1. FileParts(r.parts, e.form.part) = {k \in DOMAIN r.parts : r.parts[k] \in {"csv", "exe"}}
        BY <2>4 DEF FileParts
      <3>2. e.form.data = Cardinality({k \in DOMAIN r.parts : r.parts[k] \in {"csv", "exe"}})
        BY <2>5, <3>1 DEF FormSays
      <3>3. e.form.schema = ("schema" \in Range(r.parts))
        <4>1. e.form.schema = (\E k \in DOMAIN r.parts : k < e.form.part /\ r.parts[k] = "schema")
          BY <2>5, Zenon DEF FormSays
        <4>2. (\E k \in DOMAIN r.parts : k < e.form.part /\ r.parts[k] = "schema")
                <=> "schema" \in Range(r.parts)
          BY <2>4 DEF Range
        <4>3. e.form.schema <=> "schema" \in Range(r.parts)
          BY <4>1, <4>2
        <4>4. e.form.schema \in BOOLEAN
          BY <2>3 DEF EffectType, FormType
        <4>5. QED
          BY <4>3, <4>4
      <3>4. e.form.header = ("has_header" \notin Range(r.parts))
        <4>1. e.form.header = (\A k \in DOMAIN r.parts : k < e.form.part => r.parts[k] # "has_header")
          BY <2>5, Zenon DEF FormSays
        <4>2. (\A k \in DOMAIN r.parts : k < e.form.part => r.parts[k] # "has_header")
                <=> "has_header" \notin Range(r.parts)
          BY <2>4 DEF Range
        <4>3. QED
          BY <4>1, <4>2, Zenon
      <3>5. QED
        BY <2>2, <3>2, <3>3, <3>4 DEF UploadWhole
    <2>7. WriteAllowed(e, policy)
      BY <1>1, <2>1, <2>2, PartsFacts, WhoMay DEF WriteAllowed
    <2>8. WriteOK(e, policy, sent)
      BY <1>1, <2>2, <2>6, <2>7, PartsFacts DEF WriteOK
    <2>9. Did(effects, sending[c].id) = {}
      BY <1>1, PartsFacts
    <2>10. Added(effects, effects', sending[c].id, policy, sent)
      BY <1>3, <2>1, <2>2, <2>3, <2>8, <2>9 DEF Added
    <2>11. effects \in Seq(EffectType) /\ Len(effects) \in Nat
      BY DEF FrontInv, EffectsOK
    <2>12. /\ DOMAIN effects \subseteq DOMAIN effects'
           /\ \A j \in DOMAIN effects' : j \in DOMAIN effects \/ j = Len(effects) + 1
           /\ \A j \in DOMAIN effects : effects'[j] = effects[j]
           /\ Len(effects) + 1 \in DOMAIN effects' /\ effects'[Len(effects) + 1] = e
      BY <1>3, <2>1, <2>3, <2>11, AppendFacts
    <2>13. Did(effects', sending[c].id) = Did(effects, sending[c].id) \cup {1}
      BY <2>2, <2>12 DEF Did, Mine
    <2>14. Writes(r) = {1}
      BY <2>2 DEF Writes
    <2>15. ReplyOK(a, effects', policy)
      <3>1. Did(effects', a.id) = Writes(a.r) /\ a.r.front = "upload"
        BY <2>1, <2>2, <2>9, <2>13, <2>14
      <3>2. Begun(Did(effects', a.id), a.r)
        BY <3>1 DEF Begun
      <3>3. QED
        BY <2>1, <2>2, <3>1, <3>2 DEF ReplyOK, ReplyTells, ReplySees, ReplyAllowed
    <2>16. QED
      BY <1>1, <1>3, <2>1, <2>10, <2>15, AnswerStep
  <1>4. QED
    BY <1>2, <1>3 DEF UploadFile

(* -------------------------------- Theorems -------------------------------- *)

LEMMA FrontInitially ==
    ASSUME FrontParametersOK, FrontInit
    PROVE  FrontInv
  <1>1. NoSession \in SessionType
    BY DEF NoSession, NoForm, SessionType, FormType, Pcs
  <1>2. NoReply.id = 0 /\ NoReply.rows = {} /\ NoSession.pc = "idle" /\ NoSession.plans = <<>>
        /\ NoSession.form = NoForm
    BY DEF NoReply, NoSession
  <1>3. \A c \in Clients : sending[c] = NoSession /\ reply[c] = NoReply
    BY DEF FrontInit
  <1>4. FrontType
    BY <1>1, <1>2, <1>3 DEF FrontType, FrontInit
  <1>5. EffectsOK
    BY DEF EffectsOK, WritesOnce, FrontInit
  <1>6. SessionOK(NoSession, effects, policy)
    BY <1>2 DEF SessionOK, SessionChecked, SessionDid, SessionSees
  <1>7. ReplyOK(NoReply, effects, policy)
    BY <1>2 DEF ReplyOK, ReplyTells, ReplySees, ReplyAllowed
  <1>8. Current(NoSession, NoReply) = 0 /\ sent = 0
    BY <1>2 DEF Current, FrontInit
  <1>9. ClientsOK
    BY <1>2, <1>3, <1>6, <1>7, <1>8 DEF ClientsOK
  <1>10. OwnRequests
    BY <1>3, <1>8 DEF OwnRequests
  <1>11. QED
    BY <1>4, <1>5, <1>9, <1>10 DEF FrontInv

LEMMA FrontStep ==
    ASSUME FrontParametersOK, FrontInv, [FrontNext]_frontVars
    PROVE  FrontInv'
  <1>1. CASE UNCHANGED frontVars
    BY <1>1 DEF frontVars, FrontInv, FrontType, EffectsOK, ClientsOK, OwnRequests
  <1>2. ASSUME NEW c \in Clients, NEW r \in FrontRequests, Send(c, r)
        PROVE  FrontInv'
    BY <1>2, SendInv
  <1>3. ASSUME NEW c \in Clients, Serve(c)
        PROVE  FrontInv'
    BY <1>3, AuthenticateInv, ParseInv, PrepareInv, PlanStatementInv, RunOneOffInv, OutputInv,
       FetchStreamInv, NextPartInv, UploadFileInv DEF Serve
  <1>4. QED
    BY <1>1, <1>2, <1>3 DEF FrontNext

LEMMA FrontAlways ==
    ASSUME FrontParametersOK
    PROVE  FrontSpec => []FrontInv
  BY FrontInitially, FrontStep, PTL DEF FrontSpec

(* Each statement of a request that was executed was executed once. *)
LEMMA ExecutedOnce ==
    ASSUME FrontInv, NEW id
    PROVE  Cardinality(Mine(effects, id)) = Cardinality(Did(effects, id))
  <1>1. PICK M, D, f : M = Mine(effects, id) /\ D = Did(effects, id) /\ f = [j \in M |-> effects[j].stmt]
    OBVIOUS
  <1>2. IsFiniteSet(M)
    <2>1. effects \in Seq(EffectType)
      BY DEF FrontInv, EffectsOK
    <2>2. Len(effects) \in Nat /\ DOMAIN effects = 1 .. Len(effects)
      BY <2>1
    <2>3. IsFiniteSet(1 .. Len(effects)) /\ M \subseteq 1 .. Len(effects)
      BY <1>1, <2>2, FS_Interval DEF Mine
    <2>4. QED
      BY <2>3, FS_Subset
  <1>3. \A i, j \in M : effects[i].stmt = effects[j].stmt => i = j
    BY <1>1 DEF Mine, FrontInv, EffectsOK, WritesOnce
  <1>4. f \in [M -> D] /\ \A d \in D : \E j \in M : f[j] = d
    BY <1>1 DEF Did
  <1>5. f \in Bijection(M, D)
    <2>1. \A i, j \in M : f[i] = f[j] => i = j
      BY <1>1, <1>3
    <2>2. f \in Injection(M, D)
      BY <1>4, <2>1 DEF Injection, IsInjective
    <2>3. f \in Surjection(M, D)
      BY <1>4 DEF Surjection
    <2>4. QED
      BY <2>2, <2>3 DEF Bijection
  <1>6. Cardinality(D) = Cardinality(M)
    BY <1>2, <1>5, FS_Bijection DEF ExistsBijection
  <1>7. QED
    BY <1>1, <1>6

(* Over HTTP a write was executed only for a client with the write password,  *)
(* or where anyone may write, and rows were returned only to a client with a  *)
(* password, or where anyone may read or may make the write of that request:  *)
(* for every policy, every number of clients and every mix of statements,     *)
(* forms and other frontends (with_auth, uncached_read_write_query,           *)
(* cached_read_query and upload of frontend/http.rs with can_perform_action   *)
(* of auth.rs).                                                               *)
THEOREM OnlyWhoMay ==
    ASSUME FrontParametersOK
    PROVE  FrontSpec => []HttpAuthorized
  <1>1. FrontInv => HttpAuthorized
    <2>1. SUFFICES ASSUME FrontInv PROVE HttpAuthorized
      OBVIOUS
    <2>2. WritesAuthorized
      BY <2>1 DEF WritesAuthorized, FrontInv, EffectsOK, WriteOK, WriteAllowed
    <2>3. RowsAuthorized
      BY <2>1 DEF RowsAuthorized, FrontInv, ClientsOK, ReplyOK, ReplyAllowed
    <2>4. QED
      BY <2>2, <2>3 DEF HttpAuthorized
  <1>2. QED
    BY <1>1, FrontAlways, PTL

LEMMA InvAnswers == FrontInv => AnswerIsTrue
  <1>1. SUFFICES ASSUME FrontInv, NEW c \in Clients, reply[c].id # 0, reply[c].r.front # "do_get"
                 PROVE  LET a == reply[c]
                            did == Executed(a.id)
                        IN  /\ Cardinality({j \in DOMAIN effects : effects[j].id = a.id}) = Cardinality(did)
                            /\ CASE a.status = "Ok" -> did = Writes(a.r)
                                 [] a.status = "DataFusionError" -> Begun(did, a.r)
                                 [] OTHER -> did = {}
    BY DEF AnswerIsTrue
  <1>2. PICK a, D : a = reply[c] /\ D = Did(effects, a.id)
    OBVIOUS
  <1>3. Executed(a.id) = D /\ {j \in DOMAIN effects : effects[j].id = a.id} = Mine(effects, a.id)
    BY <1>2 DEF Executed, Did, Mine
  <1>4. ReplyTells(a, effects) /\ a.id # 0 /\ a.r.front # "do_get"
    BY <1>1, <1>2 DEF FrontInv, ClientsOK, ReplyOK
  <1>5. Cardinality(Mine(effects, a.id)) = Cardinality(D)
    BY <1>1, <1>2, ExecutedOnce
  <1>6. CASE a.status = "Ok"
    BY <1>2, <1>3, <1>4, <1>5, <1>6 DEF ReplyTells
  <1>7. CASE a.status = "DataFusionError"
    BY <1>2, <1>3, <1>4, <1>5, <1>7 DEF ReplyTells
  <1>8. CASE a.status \notin {"Ok", "DataFusionError"}
    BY <1>2, <1>3, <1>4, <1>5, <1>8 DEF ReplyTells
  <1>9. QED
    BY <1>6, <1>7, <1>8

LEMMA InvReads == FrontInv => ReadsInOrder /\ UploadUsesAllParts
  <1>1. SUFFICES ASSUME FrontInv PROVE ReadsInOrder /\ UploadUsesAllParts
    OBVIOUS
  <1>2. ReadsInOrder
    BY <1>1 DEF ReadsInOrder, FrontInv, ClientsOK, ReplyOK, ReplySees, SeesBefore
  <1>3. \A i \in DOMAIN effects : UploadWhole(effects[i])
    BY <1>1 DEF FrontInv, EffectsOK, WriteOK
  <1>4. UploadUsesAllParts
    BY <1>3, Zenon DEF UploadUsesAllParts, UploadWhole
  <1>5. QED
    BY <1>2, <1>4

(* An answer tells what its request has executed, each statement once: all    *)
(* of it, nothing, or the writes up to the statement that failed, however the *)
(* requests of other clients interleave and whatever they write.  A read of a *)
(* query of several statements, whose plan fixes the state it reads, sees     *)
(* exactly the writes of its own query that come before it, even if it runs   *)
(* after later ones and among the writes of other clients; and an upload that *)
(* is executed has used every part of its form, in whatever order the parts   *)
(* come (uncached_read_write_query, upload, query_to_stream,                  *)
(* run_one_off_command).                                                      *)
THEOREM AnswersTell ==
    ASSUME FrontParametersOK
    PROVE  FrontSpec => []AnswerTells
  <1>1. FrontInv => AnswerTells
    BY InvAnswers, InvReads DEF AnswerTells
  <1>2. QED
    BY <1>1, FrontAlways, PTL

----------------------------------------------------------------------------
(***************************************************************************)
(* Server                                                                  *)
(***************************************************************************)

(* No catalog is in memory without saying ":memory:", which is what           *)
(* validate_config looks for.                                                 *)
NoModeMemory ==
  /\ \A g \in Deployment : \A p \in Server : g[p].settings.catalog # "mode_memory"
  /\ Unset.catalog # "mode_memory"

(* ------------------------- The inductive invariant ------------------------ *)

Phases == {"off", "connect", "get_database", "create_database", "get_schema", "create_schema",
           "collect", "serving", "stopping"}
CatalogType == [exists : BOOLEAN, db : BOOLEAN, schema : BOOLEAN, tables : SUBSET Table]

ServerType ==
  /\ given \in [Server -> Given]
  /\ conf \in [Server -> Settings]
  /\ phase \in [Server -> Phases]
  /\ exit \in [Server -> {"none", "failed", "clean", "killed"}]
  /\ cat \in [Where -> CatalogType]
  /\ objects \in [Where -> SUBSET Table]
  /\ busy \in [Server -> SUBSET Frontend]
  /\ ended \in [Server -> SUBSET (Frontend \cup {"panic"})]
  /\ cut \in [Server -> SUBSET Frontend]
  /\ creating \in [Server -> SUBSET (Frontend \X Table)]
  /\ skipped \in [Server -> SUBSET {"database", "schema"}]
  /\ left \in [Where -> SUBSET Table]

(* How far a start has got, in terms of the catalog it works on and of the    *)
(* lookups whose failure it ignored.                                          *)
StartGot(ph, c, k, sk) ==
  /\ ph \in {"get_schema", "create_schema"} => k.db \/ "database" \in sk
  /\ ph \in {"collect", "serving", "stopping"} /\ c.catalog # "none" =>
       /\ k.schema \/ "schema" \in sk
       /\ k.db \/ {"database", "schema"} \subseteq sk

StartsKnown ==
  \A p \in Server : StartGot(phase[p], conf[p], cat[CatalogAt(conf[p], p)], skipped[p])

(* A schema belongs to a database. *)
SchemasHeld == \A w \in Where : cat[w].schema => cat[w].db

(* Requests in flight belong to a process that serves, and to frontends that  *)
(* have not returned.                                                         *)
RequestsWaited(ph, bs, en, c) ==
  /\ ph \notin {"serving", "stopping"} => bs = {}
  /\ ph # "stopping" => en = {}
  /\ bs \subseteq c.frontends
  /\ "panic" \notin en => en \cap bs \subseteq {"postgres"}

RequestsKnown == \A p \in Server : RequestsWaited(phase[p], busy[p], ended[p], conf[p])

ServerInv == ServerType /\ StartsKnown /\ SchemasHeld /\ RequestsKnown /\ CleanExitAnswersAll

(* What is in memory is in one place: the catalogs and the stores agree.      *)
ConfAgrees(c) == c.catalog # "mode_memory" /\ validate_config(c)

(* The tables T of a catalog and the directories O of its store, given what   *)
(* was left behind and what is in flight.                                     *)
DirsAgree(T, O, L, F) == T \subseteq O /\ O \ T \subseteq L \cup F

PlacesAgree ==
  /\ \A w \in Where : DirsAgree(cat[w].tables, objects[w], left[w], InFlight(w))
  /\ \A p \in Server : Creating(p) \subseteq objects[StoreAt(conf[p], p)]
  /\ \A p \in Server : phase[p] = "off" => creating[p] = {}
  /\ \A p \in Server : given[p].settings.catalog # "mode_memory"
  /\ \A p \in Server : phase[p] # "off" => ConfAgrees(conf[p])

(* ---------------------------------- Facts --------------------------------- *)

LEMMA PlaceFacts ==
    ASSUME ServerParametersOK, NEW p \in Server, NEW c
    PROVE  /\ CatalogAt(c, p) \in Where /\ StoreAt(c, p) \in Where /\ p \in Where
           /\ \A q \in Server \ {p} : CatalogAt(c, p) # q /\ StoreAt(c, p) # q
  BY DEF ServerParametersOK, CatalogAt, StoreAt, Where

LEMMA DefaultIsSettings == DefaultConfig \in Settings
  BY DEF DefaultConfig, Settings, OwnCatalog, InMemory, Frontend

LEMMA LoadedIsSettings ==
    ASSUME ServerParametersOK, NEW g \in Given
    PROVE  Loaded(g) \in Settings /\ g.settings \in Settings
  BY DefaultIsSettings DEF ServerParametersOK, Loaded, Given

LEMMA InvFacts ==
    ASSUME ServerInv, NEW p \in Server
    PROVE  /\ given[p] \in Given /\ conf[p] \in Settings /\ phase[p] \in Phases
           /\ exit[p] \in {"none", "failed", "clean", "killed"}
           /\ busy[p] \in SUBSET Frontend /\ ended[p] \in SUBSET (Frontend \cup {"panic"})
           /\ cut[p] \in SUBSET Frontend
           /\ skipped[p] \in SUBSET {"database", "schema"}
           /\ StartGot(phase[p], conf[p], cat[CatalogAt(conf[p], p)], skipped[p])
           /\ RequestsWaited(phase[p], busy[p], ended[p], conf[p])
           /\ exit[p] = "clean" => cut[p] \subseteq {"postgres"}
  BY DEF ServerInv, ServerType, StartsKnown, RequestsKnown, CleanExitAnswersAll

(* One process goes on, and the catalogs keep what they have. *)
LEMMA StartsStep ==
    ASSUME ServerParametersOK, ServerInv, NEW p \in Server, NEW ph, NEW c, NEW sk,
           phase' = [phase EXCEPT ![p] = ph], conf' = [conf EXCEPT ![p] = c],
           skipped' = [skipped EXCEPT ![p] = sk],
           \A w \in Where \ {p} : (cat[w].db => cat'[w].db) /\ (cat[w].schema => cat'[w].schema),
           StartGot(ph, c, cat'[CatalogAt(c, p)], sk)
    PROVE  StartsKnown'
  <1>1. SUFFICES ASSUME NEW q \in Server
                 PROVE  StartGot(phase'[q], conf'[q], cat'[CatalogAt(conf'[q], q)], skipped'[q])
    BY DEF StartsKnown
  <1>2. CASE q = p
    <2>1. phase'[q] = ph /\ conf'[q] = c /\ skipped'[q] = sk
      BY <1>2 DEF ServerInv, ServerType
    <2>2. QED
      BY <1>2, <2>1
  <1>3. CASE q # p
    <2>1. phase'[q] = phase[q] /\ conf'[q] = conf[q] /\ skipped'[q] = skipped[q]
      BY <1>3 DEF ServerInv, ServerType
    <2>2. PICK w : w = CatalogAt(conf[q], q)
      OBVIOUS
    <2>3. w \in Where \ {p}
      BY <1>3, <2>2, PlaceFacts
    <2>4. StartGot(phase[q], conf[q], cat[w], skipped[q])
      BY <2>2, InvFacts
    <2>5. QED
      BY <2>1, <2>2, <2>3, <2>4 DEF StartGot
  <1>4. QED
    BY <1>2, <1>3

LEMMA EndsInv ==
    ASSUME ServerParametersOK, ServerInv, NEW p \in Server, NEW how \in {"failed", "clean", "killed"},
           Ends(p, how), how = "clean" => busy[p] \subseteq {"postgres"}
    PROVE  ServerInv'
  <1>1. /\ phase' = [phase EXCEPT ![p] = "off"] /\ exit' = [exit EXCEPT ![p] = how]
        /\ conf' = [conf EXCEPT ![p] = Unset] /\ cat' = [cat EXCEPT ![p] = NoDatabase]
        /\ objects' = [objects EXCEPT ![p] = {}] /\ busy' = [busy EXCEPT ![p] = {}]
        /\ ended' = [ended EXCEPT ![p] = {}] /\ cut' = [cut EXCEPT ![p] = busy[p]]
        /\ creating' = [creating EXCEPT ![p] = {}] /\ skipped' = [skipped EXCEPT ![p] = {}]
        /\ given' = given
    BY DEF Ends
  <1>2. NoDatabase \in CatalogType /\ p \in Where /\ Unset \in Settings /\ "off" \in Phases
    BY PlaceFacts DEF NoDatabase, CatalogType, ServerParametersOK, Phases
  <1>8. left' \in [Where -> SUBSET Table]
    <2>1. Creating(p) \subseteq Table
      BY DEF Creating, ServerInv, ServerType
    <2>2. left \in [Where -> SUBSET Table]
      BY DEF ServerInv, ServerType
    <2>3. left' = [w \in Where |-> IF w = p THEN {}
                                  ELSE IF w = StoreAt(conf[p], p) THEN left[w] \cup Creating(p)
                                  ELSE left[w]]
      BY DEF Ends
    <2>4. QED
      BY <2>1, <2>2, <2>3
  <1>3. ServerType'
    BY <1>1, <1>2, <1>8 DEF ServerInv, ServerType
  <1>9. SchemasHeld'
    BY <1>1, <1>2 DEF ServerInv, ServerType, SchemasHeld, NoDatabase
  <1>4. StartsKnown'
    <2>1. \A w \in Where \ {p} : cat'[w] = cat[w]
      BY <1>1 DEF ServerInv, ServerType
    <2>2. StartGot("off", Unset, cat'[CatalogAt(Unset, p)], {})
      BY DEF StartGot
    <2>3. QED
      BY <1>1, <2>1, <2>2, StartsStep
  <1>5. RequestsKnown'
    BY <1>1 DEF ServerInv, ServerType, RequestsKnown, RequestsWaited
  <1>6. CleanExitAnswersAll'
    BY <1>1 DEF ServerInv, ServerType, CleanExitAnswersAll
  <1>7. QED
    BY <1>3, <1>4, <1>5, <1>6, <1>9 DEF ServerInv

(* A start goes on with one catalog k at w, before it serves. *)
LEMMA GoesInv ==
    ASSUME ServerParametersOK, ServerInv, NEW p \in Server, NEW ph \in Phases \ {"stopping"}, Goes(p, ph),
           phase[p] \notin {"serving", "stopping"}, objects' = objects,
           NEW w, w = CatalogAt(conf[p], p), NEW k \in CatalogType, cat' = [cat EXCEPT ![w] = k],
           cat[w].db => k.db, cat[w].schema => k.schema, k.schema => k.db,
           StartGot(ph, conf[p], k, skipped[p])
    PROVE  ServerInv'
  <1>1. /\ phase' = [phase EXCEPT ![p] = ph] /\ given' = given /\ exit' = exit /\ conf' = conf
        /\ busy' = busy /\ ended' = ended /\ cut' = cut
        /\ creating' = creating /\ skipped' = skipped /\ left' = left
    BY DEF Goes
  <1>2. w \in Where
    BY PlaceFacts
  <1>3. ServerType'
    BY <1>1, <1>2 DEF ServerInv, ServerType
  <1>4. StartsKnown'
    <2>1. conf' = [conf EXCEPT ![p] = conf[p]] /\ skipped' = [skipped EXCEPT ![p] = skipped[p]]
      BY <1>1 DEF ServerInv, ServerType
    <2>2. cat'[w] = k /\ \A v \in Where \ {w} : cat'[v] = cat[v]
      BY <1>2 DEF ServerInv, ServerType
    <2>3. \A v \in Where \ {p} : (cat[v].db => cat'[v].db) /\ (cat[v].schema => cat'[v].schema)
      BY <2>2
    <2>4. StartGot(ph, conf[p], cat'[CatalogAt(conf[p], p)], skipped[p])
      BY <2>2
    <2>5. QED
      BY <1>1, <2>1, <2>3, <2>4, StartsStep
  <1>5. RequestsKnown'
    <2>1. ASSUME NEW q \in Server
          PROVE  RequestsWaited(phase'[q], busy[q], ended[q], conf[q])
      <3>1. RequestsWaited(phase[q], busy[q], ended[q], conf[q])
        BY InvFacts
      <3>2. CASE q = p
        <4>1. phase'[q] = ph
          BY <1>1, <3>2 DEF ServerInv, ServerType
        <4>2. QED
          BY <3>1, <3>2, <4>1 DEF RequestsWaited
      <3>3. CASE q # p
        <4>1. phase'[q] = phase[q]
          BY <1>1, <3>3 DEF ServerInv, ServerType
        <4>2. QED
          BY <3>1, <4>1
      <3>4. QED
        BY <3>2, <3>3
    <2>2. QED
      BY <1>1, <2>1 DEF RequestsKnown
  <1>6. CleanExitAnswersAll'
    BY <1>1 DEF ServerInv, CleanExitAnswersAll
  <1>8. SchemasHeld'
    <2>1. cat'[w] = k /\ \A v \in Where \ {w} : cat'[v] = cat[v]
      BY <1>2 DEF ServerInv, ServerType
    <2>2. QED
      BY <2>1 DEF ServerInv, SchemasHeld
  <1>7. QED
    BY <1>3, <1>4, <1>5, <1>6, <1>8 DEF ServerInv

(* A start goes on and the catalogs are as they were. *)
LEMMA GoesOnInv ==
    ASSUME ServerParametersOK, ServerInv, NEW p \in Server, NEW ph \in Phases \ {"stopping"}, Goes(p, ph),
           phase[p] \notin {"serving", "stopping"}, UNCHANGED <<cat, objects>>,
           StartGot(ph, conf[p], cat[CatalogAt(conf[p], p)], skipped[p])
    PROVE  ServerInv'
  <1>1. PICK w, k : w = CatalogAt(conf[p], p) /\ k = cat[w]
    OBVIOUS
  <1>2. w \in Where /\ k \in CatalogType /\ cat' = [cat EXCEPT ![w] = k]
    BY <1>1, PlaceFacts DEF ServerInv, ServerType
  <1>3. StartGot(ph, conf[p], k, skipped[p]) /\ objects' = objects
    BY <1>1
  <1>4. k.schema => k.db
    BY <1>1, <1>2 DEF ServerInv, SchemasHeld
  <1>5. QED
    BY <1>1, <1>2, <1>3, <1>4, GoesInv

(* A process that is not serving has no request in flight. *)
LEMMA IdleEnds ==
    ASSUME ServerParametersOK, ServerInv, NEW p \in Server, NEW how \in {"failed", "clean", "killed"},
           Ends(p, how), phase[p] \notin {"serving", "stopping"}
    PROVE  ServerInv'
  <1>1. busy[p] = {}
    BY InvFacts DEF RequestsWaited
  <1>2. QED
    BY <1>1, EndsInv

(* --------------------------------- Actions -------------------------------- *)

LEMMA LoadConfigInv ==
    ASSUME ServerParametersOK, ServerInv, NEW p \in Server, LoadConfig(p)
    PROVE  ServerInv'
  <1>1. PICK g, c : g = given[p] /\ c = Loaded(g)
    OBVIOUS
  <1>2. phase[p] = "off" /\ g \in Given /\ c \in Settings
    BY <1>1, InvFacts, LoadedIsSettings DEF LoadConfig
  <1>3. CASE Ends(p, "failed")
    BY <1>2, <1>3, IdleEnds
  <1>4. CASE /\ phase' = [phase EXCEPT ![p] = "connect"] /\ conf' = [conf EXCEPT ![p] = c]
             /\ exit' = [exit EXCEPT ![p] = "none"] /\ cut' = [cut EXCEPT ![p] = {}]
             /\ given' = [given EXCEPT ![p].exists = g.exists \/ g.default_path, ![p].settings = c]
             /\ UNCHANGED <<cat, objects, busy, creating, ended, skipped, left, crashes>>
    <2>1. given' \in [Server -> Given]
      <3>1. PICK h : h = [g EXCEPT !.exists = g.exists \/ g.default_path, !.settings = c]
        OBVIOUS
      <3>2. (g.exists \/ g.default_path) \in BOOLEAN
        OBVIOUS
      <3>3. h \in Given
        BY <1>2, <3>1, <3>2 DEF Given
      <3>4. given' = [given EXCEPT ![p] = h]
        BY <1>1, <1>4, <3>1 DEF ServerInv, ServerType
      <3>5. QED
        BY <3>3, <3>4 DEF ServerInv, ServerType
    <2>2. ServerType'
      BY <1>2, <1>4, <2>1 DEF ServerInv, ServerType, Phases
    <2>3. StartsKnown'
      <3>1. StartGot("connect", c, cat'[CatalogAt(c, p)], skipped[p])
        BY DEF StartGot
      <3>4. skipped' = [skipped EXCEPT ![p] = skipped[p]]
        BY <1>4 DEF ServerInv, ServerType
      <3>2. \A w \in Where \ {p} : cat'[w] = cat[w]
        BY <1>4
      <3>3. QED
        BY <1>4, <3>1, <3>2, <3>4, StartsStep
    <2>4. RequestsKnown'
      <3>1. busy[p] = {} /\ ended[p] = {}
        BY <1>2, InvFacts DEF RequestsWaited
      <3>2. RequestsWaited("connect", busy[p], ended[p], c)
        BY <3>1 DEF RequestsWaited
      <3>3. QED
        BY <1>4, <3>2 DEF ServerInv, ServerType, RequestsKnown
    <2>5. CleanExitAnswersAll'
      BY <1>4 DEF ServerInv, ServerType, CleanExitAnswersAll
    <2>6. SchemasHeld'
      BY <1>4 DEF ServerInv, SchemasHeld
    <2>7. QED
      BY <2>2, <2>3, <2>4, <2>5, <2>6 DEF ServerInv
  <1>5. QED
    BY <1>1, <1>3, <1>4 DEF LoadConfig

LEMMA ConnectInv ==
    ASSUME ServerParametersOK, ServerInv, NEW p \in Server, Connect(p)
    PROVE  ServerInv'
  <1>1. PICK c, w : c = conf[p] /\ w = CatalogAt(c, p)
    OBVIOUS
  <1>2. /\ phase[p] = "connect" /\ phase[p] \notin {"serving", "stopping"} /\ w \in Where
        /\ cat[w] \in CatalogType
    BY <1>1, PlaceFacts DEF Connect, ServerInv, ServerType
  <1>3. CASE c.catalog = "none" /\ Goes(p, "collect") /\ UNCHANGED <<cat, objects>>
    <2>1. StartGot("collect", conf[p], cat[CatalogAt(conf[p], p)], skipped[p])
      BY <1>1, <1>3 DEF StartGot
    <2>2. QED
      BY <1>2, <1>3, <2>1, GoesOnInv DEF Phases
  <1>4. CASE cat' = [cat EXCEPT ![w].exists = TRUE] /\ Goes(p, "get_database") /\ UNCHANGED objects
    <2>1. PICK k : k = [cat[w] EXCEPT !.exists = TRUE]
      OBVIOUS
    <2>2. /\ k \in CatalogType /\ k.db = cat[w].db /\ k.schema = cat[w].schema
          /\ cat' = [cat EXCEPT ![w] = k]
      BY <1>2, <1>4, <2>1 DEF CatalogType, ServerInv, ServerType
    <2>3. StartGot("get_database", conf[p], k, skipped[p])
      BY DEF StartGot
    <2>4. "get_database" \in Phases \ {"stopping"} /\ w = CatalogAt(conf[p], p) /\ objects' = objects
      BY <1>1, <1>4 DEF Phases
    <2>5. (cat[w].db => k.db) /\ (cat[w].schema => k.schema) /\ (k.schema => k.db)
      BY <1>2, <2>2 DEF ServerInv, SchemasHeld
    <2>6. QED
      BY <1>2, <1>4, <2>2, <2>3, <2>4, <2>5, GoesInv
  <1>5. CASE Goes(p, "get_database") /\ UNCHANGED <<cat, objects>>
    <2>1. StartGot("get_database", conf[p], cat[CatalogAt(conf[p], p)], skipped[p])
      BY DEF StartGot
    <2>2. QED
      BY <1>2, <1>5, <2>1, GoesOnInv DEF Phases
  <1>6. CASE Ends(p, "failed")
    BY <1>2, <1>6, IdleEnds
  <1>7. QED
    BY <1>1, <1>3, <1>4, <1>5, <1>6 DEF Connect

LEMMA DatabaseInv ==
    ASSUME ServerParametersOK, ServerInv, NEW p \in Server, GetDefaultDatabase(p) \/ CreateDefaultDatabase(p)
    PROVE  ServerInv'
  <1>1. PICK w : w = CatalogAt(conf[p], p)
    OBVIOUS
  <1>2. /\ phase[p] \in {"get_database", "create_database"} /\ phase[p] \notin {"serving", "stopping"}
        /\ w \in Where /\ cat[w] \in CatalogType
    BY <1>1, PlaceFacts DEF GetDefaultDatabase, CreateDefaultDatabase, ServerInv, ServerType
  <1>3. CASE GetDefaultDatabase(p)
    <2>1. PICK ph : ph = IF cat[w].db THEN "get_schema" ELSE "create_database"
      OBVIOUS
    <2>2. Goes(p, ph) /\ UNCHANGED <<cat, objects>> /\ ph \in Phases \ {"stopping"}
      BY <1>1, <1>3, <2>1 DEF GetDefaultDatabase, Phases
    <2>3. StartGot(ph, conf[p], cat[CatalogAt(conf[p], p)], skipped[p])
      BY <1>1, <2>1 DEF StartGot
    <2>4. QED
      BY <1>2, <2>2, <2>3, GoesOnInv
  <1>4. CASE cat' = [cat EXCEPT ![w].db = TRUE] /\ Goes(p, "get_schema") /\ UNCHANGED objects
    <2>1. PICK k : k = [cat[w] EXCEPT !.db = TRUE]
      OBVIOUS
    <2>2. /\ k \in CatalogType /\ k.db = TRUE /\ k.schema = cat[w].schema
          /\ cat' = [cat EXCEPT ![w] = k]
      BY <1>2, <1>4, <2>1 DEF CatalogType, ServerInv, ServerType
    <2>3. StartGot("get_schema", conf[p], k, skipped[p])
      BY <2>2 DEF StartGot
    <2>4. QED
      BY <1>1, <1>2, <1>4, <2>2, <2>3, GoesInv DEF Phases
  <1>5. CASE Ends(p, "failed")
    BY <1>2, <1>5, IdleEnds
  <1>6. QED
    BY <1>1, <1>3, <1>4, <1>5 DEF CreateDefaultDatabase

LEMMA SchemaInv ==
    ASSUME ServerParametersOK, ServerInv, NEW p \in Server, GetSchema(p) \/ CreateSchema(p)
    PROVE  ServerInv'
  <1>1. PICK w : w = CatalogAt(conf[p], p)
    OBVIOUS
  <1>2. /\ phase[p] \in {"get_schema", "create_schema"} /\ phase[p] \notin {"serving", "stopping"}
        /\ w \in Where /\ cat[w] \in CatalogType
    BY <1>1, PlaceFacts DEF GetSchema, CreateSchema, ServerInv, ServerType
  <1>3. cat[w].schema => cat[w].db
    BY <1>1, <1>2 DEF ServerInv, SchemasHeld
  <1>4. CASE GetSchema(p)
    <2>1. PICK ph : ph = IF cat[w].schema THEN "collect" ELSE "create_schema"
      OBVIOUS
    <2>2. Goes(p, ph) /\ UNCHANGED <<cat, objects>> /\ ph \in Phases \ {"stopping"}
      BY <1>1, <1>4, <2>1 DEF GetSchema, Phases
    <2>3. StartGot(ph, conf[p], cat[CatalogAt(conf[p], p)], skipped[p])
      <3>1. cat[w].db \/ "database" \in skipped[p]
        BY <1>1, <1>4, InvFacts DEF StartGot, GetSchema
      <3>2. QED
        BY <1>1, <1>3, <2>1, <3>1 DEF StartGot
    <2>4. QED
      BY <1>2, <2>2, <2>3, GoesOnInv
  <1>5. CASE /\ cat[w].db /\ cat' = [cat EXCEPT ![w].schema = TRUE]
             /\ Goes(p, "collect") /\ UNCHANGED objects
    <2>1. PICK k : k = [cat[w] EXCEPT !.schema = TRUE]
      OBVIOUS
    <2>2. /\ k \in CatalogType /\ k.db = cat[w].db /\ k.schema = TRUE
          /\ cat' = [cat EXCEPT ![w] = k]
      BY <1>2, <1>5, <2>1 DEF CatalogType, ServerInv, ServerType
    <2>3. StartGot("collect", conf[p], k, skipped[p])
      BY <1>5, <2>2 DEF StartGot
    <2>4. QED
      BY <1>1, <1>2, <1>5, <2>2, <2>3, GoesInv DEF Phases
  <1>6. CASE Ends(p, "failed")
    BY <1>2, <1>6, IdleEnds
  <1>7. QED
    BY <1>1, <1>4, <1>5, <1>6 DEF CreateSchema

LEMMA LookupFailsInv ==
    ASSUME ServerParametersOK, ServerInv, NEW p \in Server, LookupFails(p)
    PROVE  ServerInv'
  <1>1. PICK ph, sk : /\ phase' = [phase EXCEPT ![p] = ph] /\ skipped' = [skipped EXCEPT ![p] = sk]
                      /\ \/ phase[p] = "get_database" /\ ph = "get_schema" /\ sk = skipped[p] \cup {"database"}
                         \/ phase[p] = "get_schema" /\ ph = "collect" /\ sk = skipped[p] \cup {"schema"}
    BY DEF LookupFails, ServerInv, ServerType
  <1>2. UNCHANGED <<given, exit, conf, cat, objects, busy, creating, ended, cut, left>>
    BY DEF LookupFails
  <1>3. ph \in Phases \ {"off", "serving", "stopping"} /\ sk \in SUBSET {"database", "schema"}
    BY <1>1, InvFacts DEF Phases
  <1>4. ServerType'
    BY <1>1, <1>2, <1>3 DEF ServerInv, ServerType
  <1>5. StartsKnown'
    <2>1. StartGot(ph, conf[p], cat[CatalogAt(conf[p], p)], sk)
      BY <1>1, InvFacts DEF StartGot
    <2>2. conf' = [conf EXCEPT ![p] = conf[p]] /\ cat' = cat
      BY <1>2 DEF ServerInv, ServerType
    <2>3. QED
      BY <1>1, <2>1, <2>2, StartsStep
  <1>6. SchemasHeld' /\ CleanExitAnswersAll'
    BY <1>2 DEF ServerInv, SchemasHeld, CleanExitAnswersAll
  <1>7. RequestsKnown'
    <2>1. ASSUME NEW q \in Server
          PROVE  RequestsWaited(phase'[q], busy[q], ended[q], conf[q])
      <3>1. RequestsWaited(phase[q], busy[q], ended[q], conf[q])
        BY InvFacts
      <3>2. CASE q = p
        <4>1. phase'[q] = ph /\ phase[q] \notin {"serving", "stopping"}
          BY <1>1, <3>2 DEF ServerInv, ServerType
        <4>2. QED
          BY <1>3, <3>1, <4>1 DEF RequestsWaited
      <3>3. CASE q # p
        BY <1>1, <3>1, <3>3 DEF ServerInv, ServerType
      <3>4. QED
        BY <3>2, <3>3
    <2>2. QED
      BY <1>2, <2>1 DEF RequestsKnown
  <1>8. QED
    BY <1>4, <1>5, <1>6, <1>7 DEF ServerInv

LEMMA StartInv ==
    ASSUME ServerParametersOK, ServerInv, NEW p \in Server, Start(p)
    PROVE  ServerInv'
  <1>1. phase[p] = "collect" /\ phase[p] \notin {"serving", "stopping"}
    BY DEF Start
  <1>2. CASE Ends(p, "clean") \/ Ends(p, "failed")
    BY <1>1, <1>2, IdleEnds
  <1>3. CASE Goes(p, "serving") /\ UNCHANGED <<cat, objects>>
    <2>1. StartGot("serving", conf[p], cat[CatalogAt(conf[p], p)], skipped[p])
      BY <1>1, InvFacts DEF StartGot
    <2>2. QED
      BY <1>1, <1>3, <2>1, GoesOnInv DEF Phases
  <1>4. QED
    BY <1>2, <1>3 DEF Start

(* A serving process changes its requests and its subsystems only. *)
LEMMA ServiceInv ==
    ASSUME ServerParametersOK, ServerInv, NEW p \in Server, NEW ph \in {"serving", "stopping"}, 
           NEW bs \in SUBSET Frontend, NEW en \in SUBSET (Frontend \cup {"panic"}),
           phase[p] \in {"serving", ph},
           phase' = [phase EXCEPT ![p] = ph], busy' = [busy EXCEPT ![p] = bs],
           ended' = [ended EXCEPT ![p] = en], UNCHANGED <<given, conf, exit, cat, objects, cut, creating, skipped, left>>,
           RequestsWaited(ph, bs, en, conf[p])
    PROVE  ServerInv'
  <1>1. ServerType'
    BY DEF ServerInv, ServerType, Phases
  <1>2. StartsKnown'
    <2>1. conf' = [conf EXCEPT ![p] = conf[p]] /\ skipped' = [skipped EXCEPT ![p] = skipped[p]]
      BY DEF ServerInv, ServerType
    <2>2. StartGot(ph, conf[p], cat'[CatalogAt(conf[p], p)], skipped[p])
      BY InvFacts DEF StartGot
    <2>3. QED
      BY <2>1, <2>2, StartsStep
  <1>3. RequestsKnown'
    BY DEF ServerInv, ServerType, RequestsKnown
  <1>4. CleanExitAnswersAll' /\ SchemasHeld'
    BY DEF ServerInv, CleanExitAnswersAll, SchemasHeld
  <1>5. QED
    BY <1>1, <1>2, <1>3, <1>4 DEF ServerInv

LEMMA RequestInv ==
    ASSUME ServerParametersOK, ServerInv, NEW p \in Server, NEW f \in Frontend, Request(p, f)
    PROVE  ServerInv'
  <1>1. PICK bs, en : bs = busy[p] \cup {f} /\ en = ended[p]
    OBVIOUS
  <1>2. /\ phase[p] = "serving" /\ phase' = [phase EXCEPT ![p] = "serving"]
        /\ busy' = [busy EXCEPT ![p] = bs] /\ ended' = [ended EXCEPT ![p] = en]
        /\ UNCHANGED <<given, conf, exit, cat, objects, cut, creating, skipped, left>> /\ f \in conf[p].frontends
    BY <1>1 DEF Request, ServerInv, ServerType
  <1>3. bs \in SUBSET Frontend /\ en \in SUBSET (Frontend \cup {"panic"})
    BY <1>1, InvFacts
  <1>4. RequestsWaited("serving", bs, en, conf[p])
    BY <1>1, <1>2, InvFacts DEF RequestsWaited
  <1>5. PICK ph \in {"serving", "stopping"} : ph = phase[p]
    BY <1>2
  <1>6. QED
    BY <1>2, <1>3, <1>4, <1>5, ServiceInv

LEMMA ResponseInv ==
    ASSUME ServerParametersOK, ServerInv, NEW p \in Server, NEW f \in Frontend, Response(p, f)
    PROVE  ServerInv'
  <1>1. PICK bs, en, ph : bs = busy[p] \ {f} /\ en = ended[p] /\ ph = phase[p]
    OBVIOUS
  <1>2. ph \in {"serving", "stopping"}
    BY <1>1, InvFacts DEF RequestsWaited, Response
  <1>3. /\ phase' = [phase EXCEPT ![p] = ph] /\ busy' = [busy EXCEPT ![p] = bs]
        /\ ended' = [ended EXCEPT ![p] = en] /\ UNCHANGED <<given, conf, exit, cat, objects, cut, creating, skipped, left>>
        /\ phase[p] \in {"serving", ph}
    BY <1>1, <1>2 DEF Response, ServerInv, ServerType
  <1>4. bs \in SUBSET Frontend /\ en \in SUBSET (Frontend \cup {"panic"})
    BY <1>1, InvFacts
  <1>5. RequestsWaited(ph, bs, en, conf[p])
    BY <1>1, InvFacts DEF RequestsWaited
  <1>6. QED
    BY <1>2, <1>3, <1>4, <1>5, ServiceInv

LEMMA SignalInv ==
    ASSUME ServerParametersOK, ServerInv, NEW p \in Server, Signal(p)
    PROVE  ServerInv'
  <1>1. PICK bs : bs = busy[p]
    OBVIOUS
  <1>2. conf[p].frontends \subseteq Frontend
    BY InvFacts DEF Settings
  <1>3. ended[p] = {} /\ RequestsWaited("serving", bs, ended[p], conf[p])
    BY <1>1, InvFacts DEF Signal, RequestsWaited
  <1>4. PICK en \in SUBSET (Frontend \cup {"panic"}) :
           ended' = [ended EXCEPT ![p] = en] /\ (en = {} \/ "panic" \in en)
    <2>1. CASE UNCHANGED ended
      BY <1>3, <2>1 DEF ServerInv, ServerType
    <2>2. CASE \E f \in conf[p].frontends : ended' = [ended EXCEPT ![p] = {"panic", f}]
      BY <1>2, <2>2
    <2>3. QED
      BY <2>1, <2>2 DEF Signal
  <1>5. /\ phase[p] = "serving" /\ phase' = [phase EXCEPT ![p] = "stopping"]
        /\ busy' = [busy EXCEPT ![p] = bs] /\ UNCHANGED <<given, conf, exit, cat, objects, cut, creating, skipped, left>>
    BY <1>1 DEF Signal, ServerInv, ServerType
  <1>6. RequestsWaited("stopping", bs, en, conf[p]) /\ bs \in SUBSET Frontend
    BY <1>1, <1>3, <1>4, InvFacts DEF RequestsWaited
  <1>7. QED
    BY <1>4, <1>5, <1>6, ServiceInv

LEMMA FrontendEndsInv ==
    ASSUME ServerParametersOK, ServerInv, NEW p \in Server, NEW f \in Frontend, FrontendEnds(p, f)
    PROVE  ServerInv'
  <1>1. PICK bs, en : bs = busy[p] /\ en = ended[p] \cup {f}
    OBVIOUS
  <1>2. /\ phase[p] = "stopping" /\ phase' = [phase EXCEPT ![p] = "stopping"]
        /\ busy' = [busy EXCEPT ![p] = bs] /\ ended' = [ended EXCEPT ![p] = en]
        /\ UNCHANGED <<given, conf, exit, cat, objects, cut, creating, skipped, left>>
        /\ f = "postgres" \/ f \notin bs
    BY <1>1 DEF FrontendEnds, Drained, ServerInv, ServerType
  <1>3. bs \in SUBSET Frontend /\ en \in SUBSET (Frontend \cup {"panic"})
    BY <1>1, InvFacts
  <1>4. RequestsWaited("stopping", bs, en, conf[p])
    BY <1>1, <1>2, InvFacts DEF RequestsWaited
  <1>5. QED
    BY <1>2, <1>3, <1>4, ServiceInv

(* CREATE TABLE leaves the processes and the databases alone. *)
LEMMA CreationInv ==
    ASSUME ServerParametersOK, ServerInv, UNCHANGED <<given, conf, phase, exit, busy, ended, cut, skipped>>,
           objects' \in [Where -> SUBSET Table], creating' \in [Server -> SUBSET (Frontend \X Table)],
           left' \in [Where -> SUBSET Table], cat' \in [Where -> CatalogType],
           \A w \in Where : cat'[w].db = cat[w].db /\ cat'[w].schema = cat[w].schema
    PROVE  ServerInv'
  <1>1. ServerType'
    BY DEF ServerInv, ServerType
  <1>2. StartsKnown'
    <2>1. SUFFICES ASSUME NEW p \in Server
                   PROVE  StartGot(phase[p], conf[p], cat'[CatalogAt(conf[p], p)], skipped[p])
      BY DEF StartsKnown
    <2>2. PICK w : w = CatalogAt(conf[p], p)
      OBVIOUS
    <2>3. w \in Where /\ StartGot(phase[p], conf[p], cat[w], skipped[p])
      BY <2>2, PlaceFacts, InvFacts
    <2>4. QED
      BY <2>2, <2>3 DEF StartGot
  <1>3. RequestsKnown' /\ CleanExitAnswersAll' /\ SchemasHeld'
    BY DEF ServerInv, RequestsKnown, CleanExitAnswersAll, SchemasHeld
  <1>4. QED
    BY <1>1, <1>2, <1>3 DEF ServerInv

LEMMA CreateLogInv ==
    ASSUME ServerParametersOK, ServerInv, NEW p \in Server, NEW f \in Frontend, NEW t \in Table,
           CreateLog(p, f, t)
    PROVE  ServerInv'
  <1>1. PICK v : v = StoreAt(conf[p], p)
    OBVIOUS
  <1>2. /\ objects' = [objects EXCEPT ![v] = @ \cup {t}]
        /\ creating' = [creating EXCEPT ![p] = @ \cup {<<f, t>>}]
        /\ UNCHANGED <<given, conf, phase, exit, cat, busy, ended, cut, skipped, left>>
    BY <1>1 DEF CreateLog
  <1>3. v \in Where
    BY <1>1, PlaceFacts
  <1>4. objects' \in [Where -> SUBSET Table] /\ creating' \in [Server -> SUBSET (Frontend \X Table)]
    BY <1>2, <1>3 DEF ServerInv, ServerType
  <1>5. left' \in [Where -> SUBSET Table] /\ cat' \in [Where -> CatalogType]
    BY <1>2 DEF ServerInv, ServerType
  <1>6. QED
    BY <1>2, <1>4, <1>5, CreationInv

LEMMA CreateTableInv ==
    ASSUME ServerParametersOK, ServerInv, NEW p \in Server, NEW f \in Frontend, NEW t \in Table,
           CreateTable(p, f, t)
    PROVE  ServerInv'
  <1>1. PICK w, v, k : /\ w = CatalogAt(conf[p], p) /\ v = StoreAt(conf[p], p)
                       /\ k = [cat[w] EXCEPT !.tables = @ \cup {t}]
    OBVIOUS
  <1>2. /\ UNCHANGED <<given, conf, phase, exit, objects, busy, ended, cut, skipped>>
        /\ creating' = [creating EXCEPT ![p] = @ \ {<<f, t>>}]
        /\ \/ cat' = [cat EXCEPT ![w] = k] /\ left' = left
           \/ left' = [left EXCEPT ![v] = @ \cup {t}] /\ cat' = cat
    BY <1>1 DEF CreateTable
  <1>3. w \in Where /\ v \in Where /\ cat[w] \in CatalogType
    BY <1>1, PlaceFacts DEF ServerInv, ServerType
  <1>4. k \in CatalogType /\ k.db = cat[w].db /\ k.schema = cat[w].schema
    BY <1>1, <1>3 DEF CatalogType
  <1>5. objects' \in [Where -> SUBSET Table] /\ creating' \in [Server -> SUBSET (Frontend \X Table)]
    BY <1>2 DEF ServerInv, ServerType
  <1>6. left' \in [Where -> SUBSET Table]
    BY <1>2, <1>3 DEF ServerInv, ServerType
  <1>7. cat' \in [Where -> CatalogType]
    BY <1>2, <1>3, <1>4 DEF ServerInv, ServerType
  <1>8. \A u \in Where : cat'[u].db = cat[u].db /\ cat'[u].schema = cat[u].schema
    BY <1>2, <1>3, <1>4 DEF ServerInv, ServerType
  <1>9. QED
    BY <1>2, <1>5, <1>6, <1>7, <1>8, CreationInv

LEMMA FinishInv ==
    ASSUME ServerParametersOK, ServerInv, NEW p \in Server, Finish(p)
    PROVE  ServerInv'
  <1>1. PICK how : how = IF "panic" \in ended[p] THEN "failed" ELSE "clean"
    OBVIOUS
  <1>2. how \in {"failed", "clean", "killed"} /\ Ends(p, how) /\ conf[p].frontends \subseteq ended[p]
    BY <1>1 DEF Finish, Subsystems
  <1>3. how = "clean" => busy[p] \subseteq {"postgres"}
    BY <1>1, <1>2, InvFacts DEF RequestsWaited
  <1>4. QED
    BY <1>2, <1>3, EndsInv

LEMMA ServerInitially ==
    ASSUME ServerParametersOK, ServerInit
    PROVE  ServerInv
  <1>1. NoDatabase \in CatalogType /\ Unset \in Settings /\ "off" \in Phases /\ given \in [Server -> Given]
    BY DEF NoDatabase, CatalogType, ServerParametersOK, Phases, ServerInit
  <1>2. ServerType
    BY <1>1 DEF ServerType, ServerInit
  <1>3. StartsKnown
    BY DEF StartsKnown, StartGot, ServerInit
  <1>4. RequestsKnown
    BY DEF RequestsKnown, RequestsWaited, ServerInit
  <1>5. CleanExitAnswersAll /\ SchemasHeld
    BY DEF CleanExitAnswersAll, SchemasHeld, ServerInit, NoDatabase
  <1>6. QED
    BY <1>2, <1>3, <1>4, <1>5 DEF ServerInv

LEMMA ServerStep ==
    ASSUME ServerParametersOK, ServerInv, [ServerNext]_serverVars
    PROVE  ServerInv'
  <1>1. CASE UNCHANGED serverVars
    BY <1>1 DEF serverVars, ServerInv, ServerType, StartsKnown, SchemasHeld, RequestsKnown, CleanExitAnswersAll
  <1>2. ASSUME NEW p \in Server, Startup(p)
        PROVE  ServerInv'
    BY <1>2, LoadConfigInv, ConnectInv, DatabaseInv, SchemaInv, StartInv DEF Startup
  <1>3. ASSUME NEW p \in Server, ShutdownTimeout(p) \/ Kill(p)
        PROVE  ServerInv'
    <2>1. Ends(p, "failed") \/ Ends(p, "killed")
      BY <1>3 DEF ShutdownTimeout, Kill
    <2>2. PICK how \in {"failed", "clean", "killed"} : Ends(p, how) /\ how # "clean"
      BY <2>1
    <2>3. QED
      BY <2>2, EndsInv
  <1>4. QED
    BY <1>1, <1>2, <1>3, RequestInv, ResponseInv, FrontendEndsInv, CreateLogInv, CreateTableInv,
       LookupFailsInv, SignalInv, FinishInv DEF ServerNext

(* ---------------------------- Where tables are ---------------------------- *)

(* A catalog is in memory exactly when its store is. *)
LEMMA SamePlace ==
    ASSUME NEW c, ConfAgrees(c), NEW p
    PROVE  CatalogAt(c, p) = StoreAt(c, p)
  BY DEF ConfAgrees, validate_config, CatalogAt, StoreAt, InMemory

LEMMA LoadedAgrees ==
    ASSUME ServerParametersOK, NoModeMemory, ServerInv, PlacesAgree, NEW p \in Server
    PROVE  Loaded(given[p]).catalog # "mode_memory"
  BY DEF NoModeMemory, PlacesAgree, Loaded, DefaultConfig

LEMMA EndsAgree ==
    ASSUME ServerParametersOK, ServerInv, PlacesAgree, NEW p \in Server, NEW how, Ends(p, how)
    PROVE  PlacesAgree'
  <1>1. /\ phase' = [phase EXCEPT ![p] = "off"] /\ conf' = [conf EXCEPT ![p] = Unset]
        /\ cat' = [cat EXCEPT ![p] = NoDatabase] /\ objects' = [objects EXCEPT ![p] = {}]
        /\ creating' = [creating EXCEPT ![p] = {}] /\ given' = given
    BY DEF Ends
  <1>2. p \in Where /\ NoDatabase.tables = {}
    BY PlaceFacts DEF NoDatabase
  <1>3. \A q \in Server : /\ creating'[q] = IF q = p THEN {} ELSE creating[q]
                          /\ q # p => conf'[q] = conf[q] /\ phase'[q] = phase[q]
    BY <1>1 DEF ServerInv, ServerType
  <1>4. /\ cat'[p].tables = {} /\ objects'[p] = {}
        /\ \A w \in Where \ {p} : cat'[w] = cat[w] /\ objects'[w] = objects[w]
    BY <1>1, <1>2 DEF ServerInv, ServerType
  <1>5. ASSUME NEW w \in Where
        PROVE  DirsAgree(cat'[w].tables, objects'[w], left'[w], InFlight(w)')
    <2>1. CASE w = p
      BY <1>4, <2>1 DEF DirsAgree
    <2>2. CASE w # p
      <3>1. DirsAgree(cat[w].tables, objects[w], left[w], InFlight(w))
        BY DEF PlacesAgree
      <3>2. left'[w] = IF w = StoreAt(conf[p], p) THEN left[w] \cup Creating(p) ELSE left[w]
        BY <2>2 DEF Ends
      <3>3. ASSUME NEW t \in InFlight(w)
            PROVE  t \in left'[w] \cup InFlight(w)'
        <4>1. PICK q \in Server : t \in Creating(q) /\ StoreAt(conf[q], q) = w /\ t \in Table
          BY <3>3 DEF InFlight
        <4>2. CASE q = p
          BY <3>2, <4>1, <4>2
        <4>3. CASE q # p
          BY <1>3, <4>1, <4>3 DEF InFlight, Creating
        <4>4. QED
          BY <4>2, <4>3
      <3>4. left[w] \subseteq left'[w]
        BY <3>2
      <3>5. QED
        BY <1>4, <2>2, <3>1, <3>3, <3>4 DEF DirsAgree
    <2>3. QED
      BY <2>1, <2>2
  <1>6. ASSUME NEW q \in Server
        PROVE  Creating(q)' \subseteq objects'[StoreAt(conf'[q], q)]
    <2>1. CASE q = p
      BY <1>3, <2>1 DEF Creating
    <2>2. CASE q # p
      <3>1. StoreAt(conf[q], q) \in Where \ {p}
        BY <2>2, PlaceFacts
      <3>2. Creating(q)' = Creating(q) /\ conf'[q] = conf[q]
        BY <1>3, <2>2 DEF Creating
      <3>3. QED
        BY <1>4, <3>1, <3>2 DEF PlacesAgree
    <2>3. QED
      BY <2>1, <2>2
  <1>7. \A q \in Server : phase'[q] = "off" => creating'[q] = {}
    BY <1>3 DEF PlacesAgree
  <1>8. \A q \in Server : phase'[q] # "off" => phase[q] # "off" /\ conf'[q] = conf[q]
    BY <1>1 DEF ServerInv, ServerType
  <1>9. QED
    BY <1>1, <1>5, <1>6, <1>7, <1>8 DEF PlacesAgree

(* The tables and directories stay, and so do the settings of a process that  *)
(* creates a table.                                                           *)
LEMMA DirsStay ==
    ASSUME PlacesAgree, \A w \in Where : cat'[w].tables = cat[w].tables,
           UNCHANGED <<objects, left, creating>>,
           \A q \in Server : creating[q] = {} \/ conf'[q] = conf[q]
    PROVE  /\ \A w \in Where : DirsAgree(cat'[w].tables, objects'[w], left'[w], InFlight(w)')
           /\ \A p \in Server : Creating(p)' \subseteq objects'[StoreAt(conf'[p], p)]
  <1>1. \A q \in Server : Creating(q)' = Creating(q) /\ (creating[q] = {} => Creating(q) = {})
    BY DEF Creating
  <1>2. ASSUME NEW w \in Where
        PROVE  InFlight(w)' = InFlight(w)
    BY <1>1 DEF InFlight
  <1>3. \A w \in Where : DirsAgree(cat'[w].tables, objects'[w], left'[w], InFlight(w)')
    BY <1>2 DEF PlacesAgree
  <1>4. ASSUME NEW p \in Server
        PROVE  Creating(p)' \subseteq objects'[StoreAt(conf'[p], p)]
    <2>1. CASE creating[p] = {}
      BY <1>1, <2>1
    <2>2. CASE conf'[p] = conf[p]
      BY <1>1, <2>2 DEF PlacesAgree
    <2>3. QED
      BY <2>1, <2>2
  <1>5. QED
    BY <1>3, <1>4

(* A step that leaves the tables and the settings alone. *)
LEMMA TablesStay ==
    ASSUME PlacesAgree, \A w \in Where : cat'[w].tables = cat[w].tables,
           UNCHANGED <<objects, left, creating>>, given' = given, conf' = conf,
           \A q \in Server : phase'[q] = "off" <=> phase[q] = "off"
    PROVE  PlacesAgree'
  <1>1. /\ \A w \in Where : DirsAgree(cat'[w].tables, objects'[w], left'[w], InFlight(w)')
        /\ \A p \in Server : Creating(p)' \subseteq objects'[StoreAt(conf'[p], p)]
    BY DirsStay
  <1>2. QED
    BY <1>1 DEF PlacesAgree

LEMMA StartupAgrees ==
    ASSUME ServerParametersOK, NoModeMemory, ServerInv, PlacesAgree, NEW p \in Server, Startup(p)
    PROVE  PlacesAgree'
  <1>1. CASE \E how : Ends(p, how)
    BY <1>1, EndsAgree
  <1>2. CASE LoadConfig(p) /\ ~ \E how : Ends(p, how)
    <2>1. PICK c : c = Loaded(given[p])
      OBVIOUS
    <2>2. /\ validate_config(c) /\ phase' = [phase EXCEPT ![p] = "connect"]
          /\ conf' = [conf EXCEPT ![p] = c] /\ cat' = cat
          /\ UNCHANGED <<objects, left, creating>> /\ phase[p] = "off"
          /\ given' = [given EXCEPT ![p].exists = given[p].exists \/ given[p].default_path, ![p].settings = c]
      BY <1>2, <2>1 DEF LoadConfig
    <2>3. ConfAgrees(c)
      BY <2>1, <2>2, LoadedAgrees DEF ConfAgrees
    <2>4. \A q \in Server : given'[q].settings = IF q = p THEN c ELSE given[q].settings
      <3>1. given \in [Server -> Given]
        BY DEF ServerInv, ServerType
      <3>2. QED
        BY <2>2, <3>1 DEF Given
    <2>5. \A q \in Server : given'[q].settings.catalog # "mode_memory"
      BY <2>3, <2>4 DEF ConfAgrees, PlacesAgree
    <2>6. \A q \in Server : phase'[q] # "off" => ConfAgrees(conf'[q])
      BY <2>2, <2>3 DEF PlacesAgree, ServerInv, ServerType
    <2>7. \A q \in Server : creating[q] = {} \/ conf'[q] = conf[q]
      BY <2>2 DEF PlacesAgree, ServerInv, ServerType
    <2>8. /\ \A w \in Where : DirsAgree(cat'[w].tables, objects'[w], left'[w], InFlight(w)')
          /\ \A q \in Server : Creating(q)' \subseteq objects'[StoreAt(conf'[q], q)]
      BY <2>2, <2>7, DirsStay
    <2>9. \A q \in Server : phase'[q] = "off" => creating'[q] = {}
      BY <2>2 DEF PlacesAgree, ServerInv, ServerType
    <2>10. QED
      BY <2>5, <2>6, <2>8, <2>9 DEF PlacesAgree
  <1>3. CASE ~ LoadConfig(p) /\ ~ \E how : Ends(p, how)
    <2>1. phase[p] # "off" /\ \E ph : ph # "off" /\ Goes(p, ph)
      BY <1>3 DEF Startup, Connect, GetDefaultDatabase, CreateDefaultDatabase, GetSchema, CreateSchema, Start
    <2>2. /\ given' = given /\ conf' = conf /\ UNCHANGED <<objects, left, creating>>
          /\ \A q \in Server : phase'[q] = "off" <=> phase[q] = "off"
      <3>1. /\ given' = given /\ conf' = conf /\ UNCHANGED <<left, creating>>
            /\ \E ph : ph # "off" /\ phase' = [phase EXCEPT ![p] = ph]
        BY <2>1 DEF Goes
      <3>2. objects' = objects
        BY <1>3 DEF Startup, Connect, GetDefaultDatabase, CreateDefaultDatabase, GetSchema, CreateSchema, Start
      <3>3. QED
        BY <2>1, <3>1, <3>2 DEF ServerInv, ServerType
    <2>3. \A w \in Where : cat'[w].tables = cat[w].tables
      <3>1. PICK u : u = CatalogAt(conf[p], p)
        OBVIOUS
      <3>2. \/ cat' = cat \/ cat' = [cat EXCEPT ![u].exists = TRUE]
            \/ cat' = [cat EXCEPT ![u].db = TRUE] \/ cat' = [cat EXCEPT ![u].schema = TRUE]
        BY <1>3, <3>1 DEF Startup, Connect, GetDefaultDatabase, CreateDefaultDatabase, GetSchema, CreateSchema, Start
      <3>3. cat \in [Where -> CatalogType] /\ u \in Where
        BY <3>1, PlaceFacts DEF ServerInv, ServerType
      <3>4. QED
        BY <3>2, <3>3 DEF CatalogType
    <2>4. QED
      BY <2>2, <2>3, TablesStay
  <1>4. QED
    BY <1>1, <1>2, <1>3

LEMMA CreateLogAgrees ==
    ASSUME ServerParametersOK, ServerInv, PlacesAgree, NEW p \in Server, NEW f \in Frontend, NEW t \in Table,
           CreateLog(p, f, t)
    PROVE  PlacesAgree'
  <1>1. PICK w : w = StoreAt(conf[p], p)
    OBVIOUS
  <1>2. w \in Where
    BY <1>1, PlaceFacts
  <1>3. /\ objects' = [objects EXCEPT ![w] = @ \cup {t}]
        /\ creating' = [creating EXCEPT ![p] = @ \cup {<<f, t>>}]
        /\ UNCHANGED <<given, conf, phase, cat, left>>
    BY <1>1 DEF CreateLog
  <1>4. \A q \in Server : creating'[q] = IF q = p THEN creating[q] \cup {<<f, t>>} ELSE creating[q]
    BY <1>3 DEF ServerInv, ServerType
  <1>5. ASSUME NEW q \in Server
        PROVE  Creating(q)' = IF q = p THEN Creating(q) \cup {t} ELSE Creating(q)
    <2>1. Creating(q)' = {x[2] : x \in creating'[q]} /\ Creating(q) = {x[2] : x \in creating[q]}
      BY DEF Creating
    <2>2. CASE q # p
      BY <1>4, <2>1, <2>2
    <2>3. CASE q = p
      <3>1. creating'[q] = creating[q] \cup {<<f, t>>} /\ <<f, t>>[2] = t
        BY <1>4, <2>3
      <3>2. {x[2] : x \in creating[q] \cup {<<f, t>>}} = {x[2] : x \in creating[q]} \cup {t}
        BY <3>1
      <3>3. QED
        BY <2>1, <2>3, <3>1, <3>2
    <2>4. QED
      BY <2>2, <2>3
  <1>6. \A v \in Where : objects'[v] = (IF v = w THEN objects[v] \cup {t} ELSE objects[v])
    BY <1>2, <1>3 DEF ServerInv, ServerType
  <1>7. ASSUME NEW v \in Where
        PROVE  DirsAgree(cat'[v].tables, objects'[v], left'[v], InFlight(v)')
    <2>1. DirsAgree(cat[v].tables, objects[v], left[v], InFlight(v))
      BY DEF PlacesAgree
    <2>2. InFlight(v) \subseteq InFlight(v)'
      BY <1>3, <1>5 DEF InFlight
    <2>3. v = w => t \in InFlight(v)'
      BY <1>1, <1>3, <1>5 DEF InFlight
    <2>4. QED
      BY <1>3, <1>6, <2>1, <2>2, <2>3 DEF DirsAgree
  <1>8. ASSUME NEW q \in Server
        PROVE  Creating(q)' \subseteq objects'[StoreAt(conf'[q], q)]
    <2>1. StoreAt(conf[q], q) \in Where /\ Creating(q) \subseteq objects[StoreAt(conf[q], q)]
      BY PlaceFacts DEF PlacesAgree
    <2>2. QED
      BY <1>1, <1>3, <1>5, <1>6, <2>1
  <1>9. phase[p] # "off"
    <2>1. busy[p] # {}
      BY DEF CreateLog
    <2>2. QED
      BY <2>1, InvFacts DEF RequestsWaited
  <1>10. \A q \in Server : phase'[q] = "off" => creating'[q] = {}
    BY <1>3, <1>4, <1>9 DEF PlacesAgree
  <1>11. QED
    BY <1>3, <1>7, <1>8, <1>10 DEF PlacesAgree

LEMMA CreateTableAgrees ==
    ASSUME ServerParametersOK, ServerInv, PlacesAgree, NEW p \in Server, NEW f \in Frontend, NEW t \in Table,
           CreateTable(p, f, t)
    PROVE  PlacesAgree'
  <1>1. PICK w : w = StoreAt(conf[p], p)
    OBVIOUS
  <1>2. <<f, t>> \in creating[p] /\ t \in Creating(p)
    BY DEF CreateTable, Creating
  <1>3. ConfAgrees(conf[p])
    BY <1>2 DEF PlacesAgree
  <1>4. w = CatalogAt(conf[p], p) /\ w \in Where
    BY <1>1, <1>3, SamePlace, PlaceFacts
  <1>5. t \in objects[w]
    BY <1>1, <1>2 DEF PlacesAgree
  <1>6. /\ UNCHANGED <<given, conf, phase, objects>>
        /\ creating' = [creating EXCEPT ![p] = @ \ {<<f, t>>}]
        /\ \/ cat' = [cat EXCEPT ![w].tables = @ \cup {t}] /\ left' = left
           \/ left' = [left EXCEPT ![w] = @ \cup {t}] /\ cat' = cat
    BY <1>1, <1>4 DEF CreateTable
  <1>7. cat \in [Where -> CatalogType] /\ left \in [Where -> SUBSET Table]
    BY DEF ServerInv, ServerType
  <1>8. \A q \in Server : creating'[q] = IF q = p THEN creating[q] \ {<<f, t>>} ELSE creating[q]
    BY <1>6 DEF ServerInv, ServerType
  <1>9. ASSUME NEW q \in Server
        PROVE  /\ Creating(q)' \subseteq Creating(q)
               /\ \A u \in Creating(q) : u \in Creating(q)' \/ (q = p /\ u = t)
    <2>1. ASSUME NEW u \in Creating(q), ~ (q = p /\ u = t)
          PROVE  u \in Creating(q)'
      <3>1. PICK x \in creating[q] : u = x[2]
        BY <2>1 DEF Creating
      <3>2. x \in creating'[q]
        <4>1. x = <<f, t>> => x[2] = t
          OBVIOUS
        <4>2. QED
          BY <1>8, <2>1, <3>1, <4>1
      <3>3. QED
        BY <3>1, <3>2 DEF Creating
    <2>2. Creating(q)' \subseteq Creating(q)
      BY <1>8 DEF Creating
    <2>3. QED
      BY <2>1, <2>2
  <1>10. ASSUME NEW v \in Where
        PROVE  DirsAgree(cat'[v].tables, objects'[v], left'[v], InFlight(v)')
    <2>1. DirsAgree(cat[v].tables, objects[v], left[v], InFlight(v))
      BY DEF PlacesAgree
    <2>2. ASSUME NEW u \in InFlight(v)
          PROVE  u \in InFlight(v)' \/ (v = w /\ u = t)
      BY <1>1, <1>6, <1>9 DEF InFlight
    <2>3. \/ /\ cat'[v].tables = (IF v = w THEN cat[v].tables \cup {t} ELSE cat[v].tables)
             /\ left'[v] = left[v]
          \/ /\ left'[v] = (IF v = w THEN left[v] \cup {t} ELSE left[v])
             /\ cat'[v].tables = cat[v].tables
      <3>1. CASE cat' = [cat EXCEPT ![w].tables = @ \cup {t}] /\ left' = left
        BY <1>4, <1>7, <3>1 DEF CatalogType
      <3>2. CASE left' = [left EXCEPT ![w] = @ \cup {t}] /\ cat' = cat
        BY <1>4, <1>7, <3>2
      <3>3. QED
        BY <1>6, <3>1, <3>2
    <2>4. QED
      BY <1>5, <1>6, <2>1, <2>2, <2>3 DEF DirsAgree
  <1>11. \A q \in Server : Creating(q)' \subseteq objects'[StoreAt(conf'[q], q)]
    BY <1>6, <1>9 DEF PlacesAgree
  <1>12. \A q \in Server : phase'[q] = "off" => creating'[q] = {}
    BY <1>6, <1>8 DEF PlacesAgree
  <1>13. QED
    BY <1>6, <1>10, <1>11, <1>12 DEF PlacesAgree

LEMMA PlacesStep ==
    ASSUME ServerParametersOK, NoModeMemory, ServerInv, PlacesAgree, [ServerNext]_serverVars
    PROVE  PlacesAgree'
  <1>1. CASE UNCHANGED serverVars
    BY <1>1, TablesStay DEF serverVars
  <1>2. ASSUME NEW p \in Server, NEW f \in Frontend, Request(p, f) \/ Response(p, f) \/ FrontendEnds(p, f)
        PROVE  PlacesAgree'
    <2>1. UNCHANGED <<given, conf, phase, cat, objects, left, creating>>
      BY <1>2 DEF Request, Response, FrontendEnds
    <2>2. QED
      BY <2>1, TablesStay
  <1>3. ASSUME NEW p \in Server, Signal(p) \/ LookupFails(p)
        PROVE  PlacesAgree'
    <2>1. /\ UNCHANGED <<given, conf, cat, objects, left, creating>> /\ phase[p] # "off"
          /\ \E ph : ph # "off" /\ phase' = [phase EXCEPT ![p] = ph]
      BY <1>3 DEF Signal, LookupFails
    <2>2. \A q \in Server : phase'[q] = "off" <=> phase[q] = "off"
      BY <2>1 DEF ServerInv, ServerType
    <2>3. QED
      BY <2>1, <2>2, TablesStay
  <1>4. ASSUME NEW p \in Server, Finish(p) \/ ShutdownTimeout(p) \/ Kill(p)
        PROVE  PlacesAgree'
    <2>1. PICK how : Ends(p, how)
      BY <1>4 DEF Finish, ShutdownTimeout, Kill
    <2>2. QED
      BY <2>1, EndsAgree
  <1>5. QED
    BY <1>1, <1>2, <1>3, <1>4, StartupAgrees, CreateLogAgrees, CreateTableAgrees DEF ServerNext

(* -------------------------------- Theorems -------------------------------- *)

(* A process that exits cleanly has answered every HTTP and Flight request it *)
(* had accepted, whatever panics, signals, kills and restarts other processes *)
(* go through and however its frontends return (main.rs with the graceful     *)
(* shutdown of run_server and run_flight_server).                             *)
THEOREM CleanExits ==
    ASSUME ServerParametersOK
    PROVE  ServerSpec => []CleanExitAnswersAll
  <1>1. ServerSpec => []ServerInv
    BY ServerInitially, ServerStep, PTL DEF ServerSpec
  <1>2. ServerInv => CleanExitAnswersAll
    BY DEF ServerInv
  <1>3. QED
    BY <1>1, <1>2, PTL

(* However many processes share a catalog and a store, and however often they *)
(* are killed and started again, every table a serving process lists has its  *)
(* directory, a directory without a table is one that a CREATE TABLE has not  *)
(* listed yet or left behind, and the default database and schema are there   *)
(* unless this start ignored a failing lookup of the schema: the in-memory    *)
(* settings validate_config lets pass are never mixed, and build_context      *)
(* takes only a failing lookup for success.  The hypothesis leaves out the    *)
(* catalogs in memory that validate_config does not recognise.                *)
THEOREM ConsistentService ==
    ASSUME ServerParametersOK, NoModeMemory
    PROVE  ServerSpec => []ServesConsistently
  <1>1. ServerInit => PlacesAgree
    <2>1. SUFFICES ASSUME ServerInit PROVE PlacesAgree
      OBVIOUS
    <2>2. \A w \in Where : cat[w].tables = {} /\ objects[w] = {}
      BY <2>1 DEF ServerInit, NoDatabase
    <2>3. \A p \in Server : /\ phase[p] = "off" /\ given[p].settings.catalog # "mode_memory"
                            /\ creating[p] = {} /\ Creating(p) = {}
      BY <2>1 DEF ServerInit, NoModeMemory, Creating
    <2>4. QED
      BY <2>2, <2>3 DEF PlacesAgree, DirsAgree
  <1>2. ServerSpec => [](ServerInv /\ PlacesAgree)
    BY <1>1, ServerInitially, ServerStep, PlacesStep, PTL DEF ServerSpec
  <1>3. ServerInv /\ PlacesAgree => ServesConsistently
    <2>1. SUFFICES ASSUME ServerInv, PlacesAgree PROVE ServesConsistently
      OBVIOUS
    <2>2. RestartConsistent
      <3>1. SUFFICES ASSUME NEW p \in Server, phase[p] = "serving"
                     PROVE  DirsAgree(cat[CatalogAt(conf[p], p)].tables, objects[StoreAt(conf[p], p)],
                                      left[StoreAt(conf[p], p)], InFlight(StoreAt(conf[p], p)))
        BY DEF RestartConsistent, DirsAgree
      <3>2. PICK w : w = CatalogAt(conf[p], p)
        OBVIOUS
      <3>3. ConfAgrees(conf[p])
        BY <2>1, <3>1 DEF PlacesAgree
      <3>4. w = StoreAt(conf[p], p) /\ w \in Where
        BY <3>2, <3>3, SamePlace, PlaceFacts
      <3>5. QED
        BY <2>1, <3>2, <3>4 DEF PlacesAgree
    <2>3. DefaultSchemaServed
      BY <2>1, InvFacts DEF DefaultSchemaServed, StartGot
    <2>4. QED
      BY <2>2, <2>3 DEF ServesConsistently
  <1>4. QED
    BY <1>2, <1>3, PTL
=============================================================================
