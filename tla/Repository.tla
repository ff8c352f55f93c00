----------------------------- MODULE Repository -----------------------------
(* The statements the metadata database executes (src/repository/default.rs, *)
(* the body shared by the SQLite and Postgres repositories), as operators on *)
(* its contents.  A database is a record of row sets; the repository runs no *)
(* transaction, so an operator stands for one statement and is atomic, and a *)
(* method that runs several statements is several steps of its callers.      *)
EXTENDS Naturals, FiniteSets, FiniteSetsExt

(* INTEGER PRIMARY KEY without AUTOINCREMENT: SQLite numbers a new row after *)
(* the largest id in use, so the id of a deleted last row is given out again.*)
NextId(rows) == 1 + Max({0} \cup {r.id : r \in rows})

Names(db) == {r.name : r \in db.tables}

(* ------------------------- schemas (collections) ------------------------- *)

create_collection(db, schema) == [db EXCEPT !.schemas = @ \cup {schema}]

(* ON DELETE CASCADE: the tables of the schema go, and their versions.       *)
delete_collection(db, schema) ==
  LET kept == {r \in db.tables : r.name[1] # schema}
  IN  [db EXCEPT !.schemas = @ \ {schema},
                 !.tables = kept,
                 !.versions = {v \in @ : v.table \in {r.id : r \in kept}}]

(* What list_collections joins together: schemas, tables and their uuids.    *)
list_collections(db) ==
  [schemas |-> db.schemas,
   tables  |-> [n \in Names(db) |-> (CHOOSE r \in db.tables : r.name = n).uuid]]

(* --------------------------------- tables -------------------------------- *)

(* The row of a table, looked up by name: empty or a singleton.              *)
get_table(db, name) == {r \in db.tables : r.name = name}

(* create_table is these three statements. *)
create_table_row(db, name, uuid) ==
  [db EXCEPT !.tables = @ \cup {[id |-> NextId(@), name |-> name, uuid |-> uuid]}]

create_table_version(db, table) ==
  [db EXCEPT !.versions =
     @ \cup {[id |-> NextId(@), table |-> table, version |-> 0, columns |-> FALSE]}]

create_table_columns(db, version) ==
  [db EXCEPT !.versions =
     {IF v.id = version THEN [v EXCEPT !.columns = TRUE] ELSE v : v \in @}]

rename_table_Copies(db, id, name) ==
  [db EXCEPT !.tables = @ \cup {[r EXCEPT !.id = NextId(db.tables), !.name = name] :
                                  r \in {q \in @ : q.id = id}}]

(* UPDATE ... WHERE id: whichever row has the id now.                        *)
rename_table(db, id, name) ==
  [db EXCEPT !.tables = {IF r.id = id THEN [r EXCEPT !.name = name] ELSE r : r \in @}]

delete_table(db, id) ==
  [db EXCEPT !.tables   = {r \in @ : r.id # id},
             !.versions = {v \in @ : v.table # id}]

(* -------------------------------- versions ------------------------------- *)

VersionsOf(db, table) == {v \in db.versions : v.table = table}

(* create_new_version: the first of its statements selects the last version  *)
(* of a table by uuid (empty when there is none, which is a decoding error), *)
last_version(db, uuid) ==
  LET ids == {v.id : v \in {w \in db.versions :
                \E r \in db.tables : r.id = w.table /\ r.uuid = uuid}}
  IN  IF ids = {} THEN {} ELSE {Max(ids)}

insert_version_Next(db, last, version) ==
  LET src == CHOOSE v \in db.versions : v.id = last
  IN  [db EXCEPT !.versions =
         @ \cup {[id |-> NextId(@), table |-> src.table, version |-> version + 1,
                  columns |-> FALSE]}]

(* the second inserts a row for the same table as that version,              *)
insert_version(db, last, version) ==
  LET src == CHOOSE v \in db.versions : v.id = last
  IN  [db EXCEPT !.versions =
         @ \cup {[id |-> NextId(@), table |-> src.table, version |-> version,
                  columns |-> FALSE]}]

(* and the third copies the columns.                                         *)
copy_columns(db, last, new) ==
  IF \E v \in db.versions : v.id = last /\ v.columns
  THEN create_table_columns(db, new)
  ELSE db

(* Only the version created last survives.                                   *)
delete_old_versions(db, table) ==
  [db EXCEPT !.versions =
     {v \in @ : v.table = table => v.id = Max({w.id : w \in VersionsOf(db, table)})}]

(* -------------------------------- functions ------------------------------ *)

(* db.functions maps the name of a function to its definition.               *)
create_function(db, name, def) ==
  [db EXCEPT !.functions = [f \in DOMAIN @ \cup {name} |-> IF f = name THEN def ELSE @[f]]]

(* Every placeholder of the IN list is "$2": only the first name is bound.   *)
drop_function(db, names) ==
  [db EXCEPT !.functions = [f \in DOMAIN @ \ {names[1]} |-> @[f]]]

(* --------------------------- dropped tables ------------------------------ *)

(* db.dropped maps the uuid of a dropped table to its deletion status.       *)
update_dropped_table(db, uuid, status) ==
  [db EXCEPT !.dropped = [u \in DOMAIN @ |-> IF u = uuid THEN status ELSE @[u]]]

delete_dropped_table(db, uuid) ==
  [db EXCEPT !.dropped = [u \in DOMAIN @ \ {uuid} |-> @[u]]]

(* ------------------------------- databases ------------------------------- *)

create_database(db, name) == [db EXCEPT !.databases = @ \cup {name}]

=============================================================================
