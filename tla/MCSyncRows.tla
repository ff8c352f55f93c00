----------------------------- MODULE MCSyncRows -----------------------------
(* Small instances of SyncRows: primary keys of two columns.                 *)
EXTENDS SyncRows

MCPks == {<<1, 1>>, <<1, 2>>, <<2, 1>>}
OneFile == <<<<<<1, 1>>>>>>
Two == <<"c", "d">>
=============================================================================
