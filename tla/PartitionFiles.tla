--------------------------- MODULE PartitionFiles ---------------------------
(***************************************************************************)
(* plan_to_object_store (context/delta.rs): the batches of a plan are       *)
(* re-chunked into temporary files of at most max_partition_size rows, and  *)
(* the files are uploaded by tasks of their own, two at a time, by a move   *)
(* on a local store and by a multipart upload elsewhere.  A file is the     *)
(* sequence of its rows, and a row stands for its bytes.                    *)
(***************************************************************************)
EXTENDS Naturals, SequencesExt, FiniteSetsExt

CONSTANTS Plans,               \* outputs of a plan: sequences of batches of rows
          max_partition_size,  \* rows of a file
          MaxUploads,          \* PARTITION_FILE_UPLOAD_MAX_CONCURRENCY
          MinPart,             \* PARTITION_FILE_MIN_PART_SIZE
          MaxRead,             \* most that one read of a file returns
          MaxZeros             \* empty reads in a row before the end of a file

(* tokio reads at most 2 MiB of a file at once, a part has 5 MiB, and three *)
(* empty reads are taken for the end of the file.                           *)
FilesParametersOK ==
         /\ max_partition_size \in Nat \ {0} /\ MaxUploads \in Nat \ {0}
         /\ MinPart \in Nat /\ MaxRead \in 1..MinPart - 1
         /\ MaxZeros \in 0..2

VARIABLES plan,      \* the batches the plan produces
          pc,        \* next, fill, upload, ok or error
          todo,      \* batches not yet taken
          batch,     \* rows of the current batch not yet written
          size,      \* current_partition_size
          files,     \* temporary files, the last one open
          local,     \* the store is a local directory
          task,      \* upload task of each file that has one
          objects    \* what the object store holds of each file

filesVars == <<plan, pc, todo, batch, size, files, local, task, objects>>
writing == <<plan, pc, todo, batch, size, files, local>>

NewTask == [at |-> "open", read |-> 0, buffer |-> <<>>, eof |-> 0, zeros |-> 0, parts |-> <<>>]

FilesInit == /\ plan \in Plans
             /\ pc = "next" /\ todo = plan /\ batch = <<>> /\ size = 0 /\ files = << <<>> >>
             /\ local \in BOOLEAN
             /\ task = <<>> /\ objects = <<>>

(***************************************************************************)
(* Temporary files                                                         *)
(***************************************************************************)
(* The next batch of the plan, or its error: the temporary files are dropped *)
TakeBatch ==
    /\ pc = "next" /\ todo # <<>>
    /\ \/ pc' = "fill" /\ batch' = Head(todo) /\ todo' = Tail(todo)
       \/ pc' = "error" /\ UNCHANGED <<batch, todo>>
    /\ UNCHANGED <<plan, size, files, local, task, objects>>

Leftover == max_partition_size - size
InLast(rows) == [files EXCEPT ![Len(files)] = @ \o rows]

(* The batch does not fit: fill up the file, close it and open the next *)
RollOver ==
    /\ pc = "fill" /\ Len(batch) > Leftover
    /\ files' = Append(InLast(SubSeq(batch, 1, Leftover)), <<>>)
    /\ batch' = SubSeq(batch, Leftover + 1, Len(batch))
    /\ size' = 0
    /\ UNCHANGED <<plan, pc, todo, local, task, objects>>

(* What is left fits *)
WriteRest ==
    /\ pc = "fill" /\ Len(batch) <= Leftover
    /\ files' = InLast(batch)
    /\ size' = size + Len(batch)
    /\ batch' = <<>> /\ pc' = "next"
    /\ UNCHANGED <<plan, todo, local, task, objects>>

CloseLast == /\ pc = "next" /\ todo = <<>> /\ pc' = "upload"
             /\ UNCHANGED <<plan, todo, batch, size, files, local, task, objects>>

(***************************************************************************)
(* Uploads                                                                 *)
(***************************************************************************)
Running_UntilOk == {i \in DOMAIN task : task[i].at # "ok"}

(* A task holds its permit until it returns, with a result or an error *)
Running == {i \in DOMAIN task : task[i].at \notin {"ok", "error"}}

Spawn == /\ pc = "upload" /\ Len(task) < Len(files) /\ Cardinality(Running) < MaxUploads
         /\ task' = Append(task, NewTask)
         /\ objects' = Append(objects, <<>>)
         /\ UNCHANGED writing

StepTask(i, t) == task' = [task EXCEPT ![i] = t] /\ UNCHANGED writing

(* fast_upload: a rename, or a copy to another filesystem, which may leave  *)
(* a part of the file behind when it fails                                  *)
FastUpload(i) ==
    /\ i \in DOMAIN task /\ task[i].at = "open" /\ local
    /\ \/ /\ objects' = [objects EXCEPT ![i] = files[i]]
          /\ StepTask(i, [task[i] EXCEPT !.at = "ok"])
       \/ /\ \E n \in 0..Len(files[i]) : objects' = [objects EXCEPT ![i] = SubSeq(files[i], 1, n)]
          /\ StepTask(i, [task[i] EXCEPT !.at = "error"])

(* put_multipart *)
OpenUpload(i) ==
    /\ i \in DOMAIN task /\ task[i].at = "open" /\ ~ local
    /\ \E at \in {"read", "error"} : StepTask(i, [task[i] EXCEPT !.at = at])
    /\ UNCHANGED objects

EofLimit_Two == 2

(* Empty reads in a row that are taken for the end of the file *)
EofLimit == 3

(* One turn of the loop: what read_buf put into the buffer decides.  An     *)
(* empty read may come before the end of the file, MaxZeros times in a row. *)
ReadBuf(i) ==
    LET t == task[i]
        left == Len(files[i]) - t.read
        sizes == {n \in 0..Min({left, MaxRead}) : n = 0 => left = 0 \/ t.zeros < MaxZeros}
    IN  /\ i \in DOMAIN task /\ t.at = "read"
        /\ \E n \in sizes :
             LET buffer == t.buffer \o SubSeq(files[i], t.read + 1, t.read + n)
                 got == [t EXCEPT !.read = @ + n, !.buffer = buffer,
                                  !.zeros = IF n = 0 /\ left > 0 THEN @ + 1 ELSE 0]
             IN  \/ /\ n = 0 /\ buffer = <<>>
                    /\ StepTask(i, [got EXCEPT !.eof = @ + 1,
                                               !.at = IF t.eof + 1 >= EofLimit THEN "complete" ELSE "read"])
                 \/ n # 0 /\ Len(buffer) < MinPart /\ StepTask(i, [got EXCEPT !.eof = 0])
                 \/ /\ buffer # <<>> /\ (n = 0 \/ Len(buffer) >= MinPart)
                    /\ StepTask(i, [got EXCEPT !.at = "put"])
        /\ UNCHANGED objects

(* put_part and a new buffer, or abort *)
PutPart(i) ==
    /\ i \in DOMAIN task /\ task[i].at = "put"
    /\ \/ StepTask(i, [task[i] EXCEPT !.at = "read", !.parts = @ \o task[i].buffer, !.buffer = <<>>])
       \/ StepTask(i, [task[i] EXCEPT !.at = "error", !.parts = <<>>])
    /\ UNCHANGED objects

(* The parts become the object, or none of them does *)
Complete(i) ==
    /\ i \in DOMAIN task /\ task[i].at = "complete"
    /\ \/ /\ objects' = [objects EXCEPT ![i] = task[i].parts]
          /\ StepTask(i, [task[i] EXCEPT !.at = "ok"])
       \/ StepTask(i, [task[i] EXCEPT !.at = "error"]) /\ UNCHANGED objects

(* join_all(...).collect(): the Adds, or the first error *)
JoinAll(finished) == \A i \in DOMAIN finished : finished[i].at = "ok"

Join == /\ pc = "upload" /\ Len(task) = Len(files) /\ Running = {}
        /\ pc' = IF JoinAll(task) THEN "ok" ELSE "error"
        /\ UNCHANGED <<plan, todo, batch, size, files, local, task, objects>>

Upload(i) == FastUpload(i) \/ OpenUpload(i) \/ ReadBuf(i) \/ PutPart(i) \/ Complete(i)

Write == TakeBatch \/ RollOver \/ WriteRest \/ CloseLast \/ Spawn \/ Join

FilesNext == Write \/ \E i \in DOMAIN files : Upload(i)

(* The statement's own task and the spawned ones are scheduled *)
FilesSpec == /\ FilesInit /\ [][FilesNext]_filesVars
             /\ WF_filesVars(Write) /\ WF_filesVars(\E i \in DOMAIN files : Upload(i))

(***************************************************************************)
(* Properties                                                              *)
(***************************************************************************)
Rows == FlattenSeq(plan)

(* Every row of the batches taken so far is in the temporary files or in    *)
(* the rest of the current batch, in order; the counter is the length of    *)
(* the open file, and only a file that is full is closed (the re-chunking   *)
(* loop of plan_to_object_store).                                           *)
RowsKept ==
    /\ pc # "error" => FlattenSeq(files) \o batch \o FlattenSeq(todo) = Rows
    /\ size = Len(Last(files)) /\ size <= max_partition_size
    /\ \A i \in 1..Len(files) - 1 : Len(files[i]) = max_partition_size

(* A statement that may commit has every row of its plan in the store, once *)
(* and in order: the re-chunking loop kept them, no upload was cut short by *)
(* an empty read, and no failed one is among the Adds (the upload tasks and *)
(* join_all).                                                               *)
AddsHaveAllRows == RowsKept /\ (pc = "ok" => FlattenSeq(objects) = Rows)
=============================================================================
