---------------------------- MODULE MCStatements ----------------------------
(* Workloads of two sessions for Statements. *)
EXTENDS Statements

CONSTANTS s1, s2

MCSessions == {s1, s2}
Symmetry == Permutations(MCSessions)

T1 == <<"public", "a">>
T2 == <<"public", "b">>
T3 == <<"extra", "a">>
MCTables == {T1, T2, T3}

Req(op, t, opt) == [op |-> op, t |-> t, to |-> t, opt |-> opt]

(* Concurrent DML, VACUUM and conditional reads of one table. *)
DmlWorkload ==
  [tables |-> {T1}, imports |-> 0, statements |-> 3, faults |-> 0,
   requests |-> {Req("insert", T1, FALSE), Req("update", T1, TRUE), Req("delete", T1, TRUE),
                 Req("delete", T1, FALSE), Req("truncate", T1, FALSE), Req("vacuum", T1, FALSE),
                 Req("select", T1, FALSE)}]

(* DDL of tables in two schemas, and the DML that meets it. *)
DdlWorkload ==
  [tables |-> {T1, T3}, imports |-> 1, statements |-> 3, faults |-> 0,
   requests |-> {Req("create", T2, FALSE), Req("ctas", T1, TRUE), Req("convert", T2, FALSE),
                 Req("convert", T1, FALSE),
                 Req("drop", T1, FALSE), Req("drop", T2, TRUE), Req("insert", T1, FALSE),
                 Req("create_schema", T3, FALSE), Req("drop_schema", T3, TRUE),
                 Req("upload", T3, FALSE)}]

(* Renames, time travel and a failing call. *)
FaultsWorkload ==
  [tables |-> {T1, T2}, imports |-> 0, statements |-> 3, faults |-> 1,
   requests |-> {Req("insert", T1, FALSE), Req("drop", T1, TRUE), Req("create", T1, FALSE),
                 [Req("rename", T1, FALSE) EXCEPT !.to = T3],
                 [Req("rename", T2, FALSE) EXCEPT !.to = T1],
                 Req("drop_schema", T1, FALSE), Req("travel", T2, FALSE)}]

MCWorkloads == [dml |-> DmlWorkload, ddl |-> DdlWorkload, faults |-> FaultsWorkload]
=============================================================================
