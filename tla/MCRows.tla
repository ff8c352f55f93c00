------------------------------- MODULE MCRows -------------------------------
(* What is computed row by row, on small instances: a behaviour is one of    *)
(* SyncRows or of WasmUdf, as part says.  The two share no state, so looking *)
(* at them one at a time loses nothing; the other's variables stay Off, or   *)
(* in one initial state of WasmUdf.                                          *)
EXTENDS WasmUdf

CONSTANT Off

VARIABLES part,
          table, files, stats, unordered, msg, syncs, changes, messages, prune       \* SyncRows

syncVars == <<table, files, stats, unordered, msg, syncs, changes, messages, prune>>
allVars == <<part, syncVars, vars>>

SyncOff == /\ table = Off /\ files = Off /\ stats = Off /\ unordered = Off /\ msg = Off /\ syncs = Off
           /\ changes = Off /\ messages = Off /\ prune = Off

(* Primary keys of two columns in two files; one Changed column. *)
Sync == INSTANCE SyncRows WITH
          Pks <- {<<1, 1>>, <<1, 2>>, <<2, 1>>}, PlainCols <- {"p"}, ChangedCols <- <<"c">>,
          InitialFiles <- <<<<<<1, 1>>>>, <<<<1, 2>>, <<2, 1>>>>>>,
          MaxChanges <- 4, MaxMessages <- 2

(* Modules that echo an argument, return a large number or a text, or trap;  *)
(* words of three bits.                                                      *)
SmallValues == {-1, 1, Null}

ASSUME RowsAssumption == Sync!ParametersOK /\ ParametersOK

MCInit == /\ Init
          /\ \/ part = "udf" /\ SyncOff
             \/ /\ part = "sync" /\ Sync!Init
                /\ details = [language |-> Wasm, inputs |-> <<>>, output |-> "BIGINT",
                               guest |-> "echo", exported |-> TRUE]

MCNext == /\ UNCHANGED part
          /\ \/ part = "sync" /\ Sync!Next /\ UNCHANGED vars
             \/ part = "udf" /\ Next /\ UNCHANGED syncVars

MCSpec == MCInit /\ [][MCNext]_allVars

(* After a flush the table has the rows that the changes make one by one,    *)
(* each once: squashing a message, applying several messages in one join     *)
(* each, and leaving out files lose nothing.                                 *)
FlushIsSequential == part = "sync" => Sync!FlushIsSequential

(* When every key column is of a type with bounds, fine-grained pruning      *)
(* scans no more files than the coarse one: their difference is computed in  *)
(* unsigned numbers.                                                         *)
FineIsFiner == part = "sync" => Sync!FineIsFiner
=============================================================================
