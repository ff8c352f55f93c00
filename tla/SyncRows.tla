------------------------------ MODULE SyncRows ------------------------------
(* What a sync does to the rows of its table: the validation of its schema,  *)
(* squashing (flight/sync/utils.rs), pruning of the table's files (utils.rs  *)
(* and writer.rs) and the join that applies it (writer.rs).  SyncWriter says *)
(* which syncs are flushed when; here there is one table and one client,     *)
(* whose changes are also applied one by one to a reference table.           *)
EXTENDS Integers, Sequences, SequencesExt, FiniteSets, FiniteSetsExt

CONSTANTS
  Pks,            \* primary keys: tuples with a component per PK column
  PlainCols,      \* value columns without a Changed column
  ChangedCols,    \* value columns with one, in the order of the sync schema
  InitialFiles,   \* the primary keys in each data file at the start
  MaxChanges,     \* changes the client makes
  MaxMessages     \* messages in which it sends them

Null == <<>>
PkCols == 1 .. Len(CHOOSE pk \in Pks : TRUE)
Cols == PlainCols \cup Range(ChangedCols)

(* What the constants may be. *)
ParametersOK ==
  /\ Pks # {} /\ \A pk \in Pks : Len(pk) = Cardinality(PkCols) /\ Len(pk) > 0
  /\ PlainCols \cap Range(ChangedCols) = {} /\ IsInjective(ChangedCols)
  /\ MaxChanges \in Nat /\ MaxMessages \in Nat

VARIABLES
  table,     \* the reference: primary key -> values of a row
  files,     \* the data files: sequences of rows [pk, v]
  stats,     \* the files whose minima and maxima are known
  unordered, \* the PK columns of types that Delta keeps no bounds for
  msg,       \* the rows of the message under construction
  syncs,     \* the squashed messages waiting to be flushed
  changes, messages,  \* how many more
  prune      \* the file sets of the two pruning methods, at the last flush

vars == <<table, files, stats, unordered, msg, syncs, changes, messages, prune>>

NullValue == 0

(* ------------------------------ The sync schema -------------------------- *)

(* SyncSchema::try_new: a column is a role and the name of the column it is  *)
(* about.  Old and new primary keys are the same columns and not none, and   *)
(* a Changed column is about a value column.                                 *)
ValidSchema(columns) ==
  LET named(role) == {c[2] : c \in {d \in columns : d[1] = role}}
  IN  /\ named("OldPk") # {} /\ named("OldPk") = named("NewPk")
      /\ named("Changed") \subseteq named("Value")

sync_schema ==
  {<<role, col>> : role \in {"OldPk", "NewPk"}, col \in PkCols}
    \cup {<<"Value", col>> : col \in Cols} \cup {<<"Changed", col>> : col \in Range(ChangedCols)}

(* -------------------------------- Squashing ------------------------------ *)

NoChains == [chains |-> <<>>, temp |-> {}, pk |-> {}]

(* The next change of a row that was changed before in the message.  One     *)
(* that is inserted and deleted in the same message is temporary.            *)
ExtendChain(s, batch, i, id) ==
  LET moved == [s.chains[id] EXCEPT !.last = i,
                  !.changed = [k \in DOMAIN @ |-> IF batch[i].ch[ChangedCols[k]] THEN i ELSE @[k]]]
      gone  == batch[i].new = Null
  IN  [chains |-> [s.chains EXCEPT ![id] = moved],
       temp   |-> s.temp \cup (IF gone /\ batch[moved.first].old = Null THEN {id} ELSE {}),
       pk     |-> {p \in s.pk : p[1] \notin {batch[i].old, batch[i].new}} \cup
                  (IF gone THEN {} ELSE {<<batch[i].new, id>>})]

(* The first change of a row in the message.                                 *)
NewChain(s, batch, i) ==
  LET id == Len(s.chains) + 1
  IN  [chains |-> Append(s.chains, [first |-> i, last |-> i,
                                    changed |-> [k \in DOMAIN ChangedCols |-> i]]),
       temp   |-> s.temp,
       pk     |-> IF batch[i].new = Null THEN s.pk
                  ELSE {p \in s.pk : p[1] # batch[i].new} \cup {<<batch[i].new, id>>}]

(* The chains of changes: for each its first row, its last row and, for each *)
(* Changed column, the last row that changed it.                             *)
ChainsOf(batch) ==
  FoldLeft(LAMBDA s, i :
             IF \E p \in s.pk : p[1] = batch[i].old
             THEN ExtendChain(s, batch, i, (CHOOSE p \in s.pk : p[1] = batch[i].old)[2])
             ELSE NewChain(s, batch, i),
           NoChains, [i \in DOMAIN batch |-> i])

(* The row whose value column c takes: the last one of the chain or, with a  *)
(* Changed column, the one that the first Changed column has.                *)
SourceRow(chain, c) == IF c \in PlainCols THEN chain.last ELSE chain.changed[1]

(* squash_batches: a row for each chain that is not temporary.  When all are *)
(* temporary the Changed columns have no row indices at all, and taking the  *)
(* first of them panics.                                                     *)
SquashPanics(batch) ==
  LET s == ChainsOf(batch) IN ChangedCols # <<>> /\ s.temp = DOMAIN s.chains

squash_batches(batch) ==
  LET s == ChainsOf(batch)
      kept == SelectSeq([i \in DOMAIN s.chains |-> i], LAMBDA i : i \notin s.temp)
      row(chain) == [old |-> batch[chain.first].old, new |-> batch[chain.last].new,
                     v  |-> [c \in Cols |-> batch[SourceRow(chain, c)].v[c]],
                     ch |-> [c \in Range(ChangedCols) |-> batch[SourceRow(chain, c)].ch[c]]]
  IN  [k \in DOMAIN kept |-> row(s.chains[kept[k]])]

(* -------------------------------- Applying ------------------------------- *)

NoSync == [old |-> Null, new |-> Null]
NoRow == [pk |-> Null, v |-> [c \in Cols |-> NullValue]]

ProjectValue_Always(r, s, c) == IF s = NoSync THEN r.v[c] ELSE s.v[c]

(* The value of column c of a joined pair.                                   *)
ProjectValue(r, s, c) ==
  IF s = NoSync \/ (c \in Range(ChangedCols) /\ ~ s.ch[c]) THEN r.v[c] ELSE s.v[c]

Project(r, s) ==
  [pk |-> IF s = NoSync THEN r.pk ELSE s.new, v |-> [c \in Cols |-> ProjectValue(r, s, c)]]

IsDelete(s) == s.old # Null /\ s.new = Null

(* apply_sync: a full join of the rows with the sync on the old primary key, *)
(* without the pairs that delete their row.                                  *)
apply_sync(rows, sync) ==
  LET of(r) == SelectSeq(sync, LAMBDA s : s.old = r.pk)
      joined(r) == IF of(r) = <<>> THEN <<<<r, NoSync>>>> ELSE [i \in DOMAIN of(r) |-> <<r, of(r)[i]>>]
      alone == SelectSeq(sync, LAMBDA s : \A i \in DOMAIN rows : rows[i].pk # s.old)
      pairs == FlattenSeq([i \in DOMAIN rows |-> joined(rows[i])])
                 \o [i \in DOMAIN alone |-> <<NoRow, alone[i]>>]
      kept == SelectSeq(pairs, LAMBDA p : ~ IsDelete(p[2]))
  IN  [i \in DOMAIN kept |-> Project(kept[i][1], kept[i][2])]

apply_syncs(rows, queue) == FoldLeft(apply_sync, rows, queue)

(* -------------------------------- Pruning -------------------------------- *)

OldPks(queue) == {s.old : s \in UNION {Range(queue[i]) : i \in DOMAIN queue}} \ {Null}
NewPks(queue) == {s.new : s \in UNION {Range(queue[i]) : i \in DOMAIN queue}} \ {Null}

MinOf(pks, col) == Min({pk[col] : pk \in pks})
MaxOf(pks, col) == Max({pk[col] : pk \in pks})
FilePks(f) == {files[f][i].pk : i \in DOMAIN files[f]}

(* construct_qualifier and the pruning predicate of DataFusion: a file is    *)
(* kept when, in every column, its bounds meet those of the old primary keys *)
(* of all syncs, or those of the new ones.  A column without bounds excludes *)
(* no file.                                                                  *)
Meets(f, pks) ==
  /\ pks # {}
  /\ f \in stats =>
       /\ FilePks(f) # {}
       /\ \A col \in PkCols \ unordered :
                              /\ MinOf(pks, col) <= MaxOf(FilePks(f), col)
                              /\ MinOf(FilePks(f), col) <= MaxOf(pks, col)

CoarseFiles(queue) == {f \in DOMAIN files : Meets(f, OldPks(queue)) \/ Meets(f, NewPks(queue))}

MayHold_AnyColumn(f, pk) ==
  f \in stats => FilePks(f) # {} /\ \E col \in PkCols :
                   MinOf(FilePks(f), col) <= pk[col] /\ pk[col] <= MaxOf(FilePks(f), col)

(* get_prune_map: a file is kept when some single primary key is, in every   *)
(* column, within its bounds, as far as they are known.  All files are kept  *)
(* when a column has bounds in none of them.                                 *)
MayHold(f, pk) ==
  f \in stats => FilePks(f) # {} /\ \A col \in PkCols :
                   MinOf(FilePks(f), col) <= pk[col] /\ pk[col] <= MaxOf(FilePks(f), col)

get_prune_map(queue) ==
  {f \in DOMAIN files :
     unordered # {} \/ \E pk \in OldPks(queue) \cup NewPks(queue) : MayHold(f, pk)}

(* --------------------------------- Actions ------------------------------- *)

(* A change to the reference table, as the row of a sync that describes it.  *)
(* Each change writes a value of its own; columns that are not changed have  *)
(* no value in the message.                                                  *)
Change(old, new, cols) ==
  [old |-> old, new |-> new,
   v  |-> [c \in Cols |-> IF c \in PlainCols \cup cols THEN MaxChanges - changes + 2 ELSE NullValue],
   ch |-> [c \in Range(ChangedCols) |-> c \in cols]]

Insert(pk) ==
  /\ pk \notin DOMAIN table
  /\ LET s == Change(Null, pk, Range(ChangedCols))
     IN  /\ msg' = Append(msg, s)
         /\ table' = [p \in DOMAIN table \cup {pk} |-> IF p = pk THEN s.v ELSE table[p]]

Update(old, new, cols) ==
  /\ old \in DOMAIN table /\ (new = old \/ new \notin DOMAIN table)
  /\ LET s == Change(old, new, cols)
         v == [c \in Cols |-> IF c \in PlainCols \cup cols THEN s.v[c] ELSE table[old][c]]
     IN  /\ msg' = Append(msg, s)
         /\ table' = [p \in (DOMAIN table \ {old}) \cup {new} |-> IF p = new THEN v ELSE table[p]]

Delete(pk) ==
  /\ pk \in DOMAIN table
  /\ msg' = Append(msg, Change(pk, Null, {}))
  /\ table' = [p \in DOMAIN table \ {pk} |-> table[p]]

ClientChanges ==
  /\ changes > 0 /\ messages > 0
  /\ changes' = changes - 1
  /\ \/ \E pk \in Pks : Insert(pk) \/ Delete(pk)
     \/ \E old, new \in Pks, cols \in SUBSET Range(ChangedCols) : Update(old, new, cols)
  /\ UNCHANGED <<files, stats, unordered, syncs, messages, prune>>

(* enqueue_sync: a message with rows is squashed and waits for a flush; one  *)
(* whose squashing panics is not kept.                                       *)
EnqueueSync ==
  /\ msg # <<>> /\ messages > 0
  /\ messages' = messages - 1
  /\ syncs' = IF SquashPanics(msg) THEN syncs ELSE Append(syncs, squash_batches(msg))
  /\ msg' = <<>>
  /\ UNCHANGED <<table, files, stats, unordered, changes, prune>>

(* flush_syncs: the files the syncs may concern are replaced by one with the *)
(* rows the syncs leave of them.  Fine-grained pruning is for large tables.  *)
(* Syncs in which all rows came and went have no keys, and the flush panics. *)
FlushSyncs ==
  /\ syncs # <<>>
  /\ OldPks(syncs) \cup NewPks(syncs) # {}
  /\ \E scanned \in {CoarseFiles(syncs), get_prune_map(syncs)} :
       LET left == SelectSeq([f \in DOMAIN files |-> f], LAMBDA f : f \notin scanned)
           scan == SelectSeq([f \in DOMAIN files |-> f], LAMBDA f : f \in scanned)
           rows == FlattenSeq([k \in DOMAIN scan |-> files[scan[k]]])
       IN  /\ files' = Append([k \in DOMAIN left |-> files[left[k]]], apply_syncs(rows, syncs))
           /\ stats' = {k \in DOMAIN left : left[k] \in stats} \cup {Len(left) + 1}
  /\ prune' = <<Cardinality(CoarseFiles(syncs)), Cardinality(get_prune_map(syncs))>>
  /\ syncs' = <<>>
  /\ UNCHANGED <<table, unordered, msg, changes, messages>>

(* ------------------------------ Specification ---------------------------- *)

Init ==
  /\ ValidSchema(sync_schema)
  /\ table = [pk \in UNION {Range(InitialFiles[f]) : f \in DOMAIN InitialFiles} |->
                [c \in Cols |-> 1]]
  /\ files = [f \in DOMAIN InitialFiles |->
                [i \in DOMAIN InitialFiles[f] |->
                   [pk |-> InitialFiles[f][i], v |-> [c \in Cols |-> 1]]]]
  /\ stats \in SUBSET DOMAIN InitialFiles
  /\ unordered \in SUBSET PkCols
  /\ msg = <<>> /\ syncs = <<>>
  /\ changes = MaxChanges /\ messages = MaxMessages
  /\ prune = <<0, 0>>

Next == ClientChanges \/ EnqueueSync \/ FlushSyncs

Spec == Init /\ [][Next]_vars

(* ------------------------------- Properties ------------------------------ *)

RowsOf(fs) == FlattenSeq(fs)

(* After a flush the table has the rows that the changes make one by one,    *)
(* each once: squashing a message, applying several messages in one join     *)
(* each, and leaving out files lose nothing.                                 *)
FlushIsSequential ==
  msg = <<>> /\ syncs = <<>> =>
    LET rows == RowsOf(files)
    IN  /\ Len(rows) = Cardinality(DOMAIN table)
        /\ \A pk \in DOMAIN table : \E i \in DOMAIN rows : rows[i] = [pk |-> pk, v |-> table[pk]]

(* When every key column is of a type with bounds, fine-grained pruning      *)
(* scans no more files than the coarse one: their difference is computed in  *)
(* unsigned numbers.  (With a column without bounds it scans all files while *)
(* the coarse one may still leave some out by the other columns.)            *)
FineIsFiner == unordered = {} => prune[2] <= prune[1]

=============================================================================
