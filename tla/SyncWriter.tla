------------------------------ MODULE SyncWriter ------------------------------
(***************************************************************************)
(* The in-memory replication buffer of Seafowl's Flight frontend            *)
(* (src/frontend/flight/sync/writer.rs), the request handler and the        *)
(* background task that drive it (flight/handler.rs, flight/sync/mod.rs),   *)
(* the Delta tables it flushes to and the clients that replicate to it.     *)
(*                                                                          *)
(* A client streams the transactions of one origin, one message at a time.  *)
(* A message carries rows for one table; the last message of a transaction  *)
(* also carries its sequence number.  The writer keeps the messages in      *)
(* memory, per table, and commits a whole table's worth of them at once     *)
(* when the table's oldest message is too old, the buffer is too large or   *)
(* the table has too many messages.  It tells a client up to which sequence *)
(* number its changes are in memory and up to which they are durable.       *)
(* All of the writer's state is lost in a crash; the Delta tables survive.  *)
(***************************************************************************)
EXTENDS SyncStream, FiniteSets, Functions

CONSTANTS
    MaxInMemory,   \* config: max_in_memory_bytes
    MaxSyncs,      \* config: max_syncs_per_url
    ProbeFirst,    \* does a client probe the server when it (re)connects?
    Faults,        \* the kinds of fault that may happen
    MaxFaults,     \* bound: how many faults happen in one behaviour
    Nobody,        \* the write lock is free
    FlushTask,     \* the background flush task, as a holder of the write lock
    NoUrl,         \* no flush of a table is under way
    NoInfo         \* a Delta commit without SYNC_COMMIT_INFO

FaultKinds == {"crash", "flush", "squash", "drop", "timeout", "foreign"}

ASSUME ConstantsAssumption ==
    /\ MaxInMemory \in Nat \ {0}
    /\ MaxSyncs \in Nat \ {0}
    /\ MaxFaults \in Nat
    /\ ProbeFirst \in BOOLEAN
    /\ Faults \subseteq FaultKinds

ASSUME DistinctAssumption ==
    /\ Nobody \notin Origins
    /\ FlushTask \notin Origins
    /\ Nobody # FlushTask
    /\ NoUrl \notin Urls
    /\ NoInfo \notin [origin : Origins, sequence : Nat, new_tx : BOOLEAN]

VARIABLES
    \* SeafowlDataSyncWriter: volatile
    txs,           \* IndexMap of transactions: id -> [origin, sequence, locations]
    nextTx,        \* ids are handed out in insertion order, the order of the map
    queue,         \* the keys of the IndexMap `syncs`, in insertion order
    syncs,         \* url -> DataSyncCollection [size, items]
    size,          \* total in-memory size
    aged,          \* has the first collection exceeded max_replication_lag_s?
    origin_memory,
    origin_durable,
    \* the RwLock around the writer and the flush under way; volatile
    holder,
    flushUrl,      \* table whose flush has been started (loaded), or NoUrl
    flushInfo,     \* last_sync_commit, read when that table was loaded
    \* SeafowlFlightHandler; volatile
    first_sync,
    req,           \* the request of each client: how far it is, whether it is a
                   \* probe (no rows, no sequence number), and the value of
                   \* first_sync it has loaded
    \* clients: external
    next,          \* index of the next message to send
    known,         \* the last durable sequence number the client was told
    synced,        \* FALSE until the client has probed a (re)started server
    \* Delta tables: durable
    exists,
    info,          \* SYNC_COMMIT_INFO of the last commit
    applied,       \* the messages committed, in order: <<origin, index>>
    \* bound
    faults

txVars     == <<txs, nextTx>>
bufferVars == <<queue, syncs, size, aged>>
seqVars    == <<origin_memory, origin_durable>>
lockVars   == <<holder, flushUrl, flushInfo>>
clientVars == <<next, known, synced>>
lakeVars   == <<exists, info, applied>>
vars == <<txVars, bufferVars, seqVars, lockVars, first_sync, req,
          clientVars, lakeVars, faults>>

Transaction == [origin : Origins, sequence : Nat \cup {NoSeq},
                locations : SUBSET Urls]
Item == [tx : Nat, origin : Origins, pos : Nat, size : Nat]
SyncCommitInfo == [origin : Origins, sequence : Nat, new_tx : BOOLEAN]

Request == [phase : {"idle", "store", "wait", "held"}, probe : BOOLEAN,
            first : BOOLEAN]

Idle == [phase |-> "idle", probe |-> FALSE, first |-> FALSE]

NoSyncs == [size |-> 0, items |-> <<>>]

----------------------------------------------------------------------------
(* Faults                                                                  *)

Fault(kind) == /\ kind \in Faults
               /\ faults < MaxFaults
               /\ faults' = faults + 1

----------------------------------------------------------------------------
(* Transactions                                                            *)

\* The transaction at the end of the map, if its last message has not arrived.
PendingTx == {t \in DOMAIN txs : /\ txs[t].sequence = NoSeq
                                 /\ \A t2 \in DOMAIN txs : t2 <= t}

\* The first part of enqueue_sync: merge message m into the pending
\* transaction, or start a new one.
UpsertTx(o, m, t) ==
    \/ /\ t \in PendingTx
       /\ txs[t].origin = o
       /\ txs' = [txs EXCEPT
                    ![t].sequence = IF m.seq = NoSeq THEN @ ELSE m.seq,
                    ![t].locations = IF m.size > 0 THEN @ \cup {m.url} ELSE @]
       /\ UNCHANGED nextTx
    \/ /\ PendingTx = {}
       /\ m.size > 0
       /\ t = nextTx
       /\ txs' = [x \in DOMAIN txs \cup {t} |->
                    IF x = t THEN [origin |-> o, sequence |-> m.seq,
                                   locations |-> {m.url}]
                             ELSE txs[x]]
       /\ nextTx' = nextTx + 1

\* The two InvalidMessage errors of enqueue_sync: a transaction of another
\* origin is still open; a transaction without any rows.
Rejected(o, m) == \/ \E t \in PendingTx : txs[t].origin # o
                  \/ PendingTx = {} /\ m.size = 0

RemoveTxLocations(ts, u, ids) ==
    [t \in DOMAIN ts |->
        IF t \in ids THEN [ts[t] EXCEPT !.locations = @ \ {u}] ELSE ts[t]]

\* Mutants: do not stop at the first transaction that is not durable; forget
\* that a transaction has locations left.
DurableTxs_NoBreak(ts) ==
    {t \in DOMAIN ts : ts[t].sequence # NoSeq /\ ts[t].locations = {}}

DurableTxs_NoLocations(ts) ==
    {t \in DOMAIN ts : \A t2 \in DOMAIN ts : t2 <= t => ts[t2].sequence # NoSeq}

\* advance_durable: the longest prefix of the map whose transactions are
\* complete and have no location left.
DurableTxs(ts) ==
    {t \in DOMAIN ts :
        \A t2 \in DOMAIN ts :
            t2 <= t => ts[t2].sequence # NoSeq /\ ts[t2].locations = {}}

\* The last of the transactions D that belongs to o (at most one).
LastOf(ts, D, o) ==
    {t \in D : ts[t].origin = o /\ \A t2 \in D : ts[t2].origin = o => t2 <= t}

AdvanceDurable(ts) ==
    LET D == DurableTxs(ts)
    IN  /\ origin_durable' =
              [o \in Origins |->
                  IF LastOf(ts, D, o) = {} THEN origin_durable[o]
                  ELSE ts[CHOOSE t \in LastOf(ts, D, o) : TRUE].sequence]
        /\ txs' = [t \in DOMAIN ts \ D |-> ts[t]]

----------------------------------------------------------------------------
(* The buffer                                                              *)

\* Mutant: a collection that exists is replaced.
PushItem_Overwrite(u, item) ==
    /\ syncs' = [syncs EXCEPT ![u] = [size |-> item.size, items |-> <<item>>]]
    /\ queue' = IF syncs[u].items = <<>> THEN Append(queue, u) ELSE queue
    /\ size' = size + item.size
    /\ UNCHANGED aged

\* The second part of enqueue_sync: store the squashed rows.
PushItem(u, item) ==
    /\ syncs' = [syncs EXCEPT ![u].size = @ + item.size,
                              ![u].items = Append(@, item)]
    /\ queue' = IF syncs[u].items = <<>> THEN Append(queue, u) ELSE queue
    /\ size' = size + item.size
    /\ UNCHANGED aged

\* Mutant: the total size is not reduced.
RemoveSync_KeepSize(u) ==
    \E i \in DOMAIN queue :
        /\ queue[i] = u
        /\ queue' = SubSeq(queue, 1, i - 1) \o SubSeq(queue, i + 1, Len(queue))
        /\ syncs' = [syncs EXCEPT ![u] = NoSyncs]
        /\ size' = size
        /\ aged' = (aged /\ i # 1)

\* remove_sync (shift_remove keeps the order of the others); a collection that
\* becomes the first one may have to age.
RemoveSync(u) ==
    \E i \in DOMAIN queue :
        /\ queue[i] = u
        /\ queue' = SubSeq(queue, 1, i - 1) \o SubSeq(queue, i + 1, Len(queue))
        /\ syncs' = [syncs EXCEPT ![u] = NoSyncs]
        /\ size' = size - syncs[u].size
        /\ aged' = (aged /\ i # 1)

Full(u) == Len(syncs[u].items) >= MaxSyncs

FirstFull == {queue[i] : i \in {j \in DOMAIN queue :
                                  /\ Full(queue[j])
                                  /\ \A k \in 1..(j - 1) : ~Full(queue[k])}}

\* Mutant: no lag-based criterion.
FlushReady_NoLag ==
    IF queue # <<>> /\ size >= MaxInMemory THEN {Head(queue)} ELSE FirstFull

\* The table flush_ready picks, as a set of at most one url: the first one if
\* it is too old or the buffer too large, else the first one that is full.
FlushReady ==
    IF queue # <<>> /\ (aged \/ size >= MaxInMemory) THEN {Head(queue)}
    ELSE FirstFull

----------------------------------------------------------------------------
(* What a flush of a table commits                                         *)

\* Mutant: any complete transaction of the origin matches.
Matches_OriginOnly(item, last) ==
    /\ item.tx \in DOMAIN txs
    /\ txs[item.tx].origin = last.origin
    /\ txs[item.tx].sequence # NoSeq

\* Is the transaction of this item known to be the one the commit info names?
Matches(item, last) ==
    /\ item.tx \in DOMAIN txs
    /\ txs[item.tx].origin = last.origin
    /\ txs[item.tx].sequence = last.sequence

\* The first item of the transaction the commit info names (at most one).
FirstMatch(items, last) ==
    {k \in DOMAIN items : /\ Matches(items[k], last)
                          /\ \A j \in 1..(k - 1) : ~Matches(items[j], last)}

\* Mutant: one message too many is skipped.
SkipSyncs_OffByOne(items, last) ==
    IF last = NoInfo \/ FirstMatch(items, last) = {} THEN items
    ELSE LET k == CHOOSE k \in FirstMatch(items, last) : TRUE
         IN  SubSeq(items, k + 2, Len(items))

\* skip_syncs: everything up to the first item of the transaction that the
\* table's last commit names is taken to be persisted already.
SkipSyncs(items, last) ==
    IF last = NoInfo \/ FirstMatch(items, last) = {} THEN items
    ELSE LET k == CHOOSE k \in FirstMatch(items, last) : TRUE
         IN  SubSeq(items, k + 1, Len(items))

\* The last item whose transaction is complete (at most one).
Complete(item) == item.tx \in DOMAIN txs /\ txs[item.tx].sequence # NoSeq

LastComplete(items) ==
    {k \in DOMAIN items : /\ Complete(items[k])
                          /\ \A j \in (k + 1)..Len(items) : ~Complete(items[j])}

\* Mutant: the last item's transaction is taken to be complete.
NewSyncCommit_LastItem(items, last) ==
    LET tx == txs[items[Len(items)].tx]
    IN  [origin |-> tx.origin, sequence |-> tx.sequence,
         new_tx |-> tx.sequence = NoSeq]

\* The commit info of the new commit: the last complete transaction among the
\* items, or else what the previous commit said.
NewSyncCommit(items, last) ==
    LET newTx == txs[items[Len(items)].tx].sequence = NoSeq
    IN  IF LastComplete(items) # {}
        THEN LET k == CHOOSE k \in LastComplete(items) : TRUE
                 tx == txs[items[k].tx]
             IN  [origin |-> tx.origin, sequence |-> tx.sequence,
                  new_tx |-> newTx]
        ELSE IF last = NoInfo THEN NoInfo
             ELSE [last EXCEPT !.new_tx = newTx]

\* Mutant: the messages are applied newest first.
CommitSyncs_NewestFirst(u) ==
    LET rest == SkipSyncs(syncs[u].items, flushInfo)
        n == Len(rest)
    IN  /\ rest # <<>>
        /\ applied' = [applied EXCEPT ![u] =
                         @ \o [k \in 1..n |-> <<rest[n + 1 - k].origin,
                                                rest[n + 1 - k].pos>>]]
        /\ info' = [info EXCEPT ![u] = NewSyncCommit(rest, flushInfo)]
        /\ UNCHANGED exists

\* The commit itself: the tables change, nothing in memory does yet.
CommitSyncs(u) ==
    LET rest == SkipSyncs(syncs[u].items, flushInfo)
    IN  /\ rest # <<>>
        /\ applied' = [applied EXCEPT ![u] =
                         @ \o [k \in 1..Len(rest) |->
                                 <<rest[k].origin, rest[k].pos>>]]
        /\ info' = [info EXCEPT ![u] = NewSyncCommit(rest, flushInfo)]
        /\ UNCHANGED exists

----------------------------------------------------------------------------
(* Clients                                                                 *)

\* Where a client resumes after a restart of the server: after the last
\* transaction it knows to be durable.
Resume(o) ==
    IF known[o] = NoSeq THEN 1
    ELSE 1 + CHOOSE i \in 1..Len(Script[o]) : Script[o][i].seq = known[o]

\* Everything is sent, but the client was not told yet that it is durable.
Unconfirmed(o) ==
    LET n == Len(Script[o])
    IN  next[o] > n /\ n > 0 /\ known[o] < Script[o][n].seq

\* The client sends a probe or its next message, and the handler loads
\* first_sync.
Send(o) ==
    /\ req[o].phase = "idle"
    /\ \E probe \in BOOLEAN :
         /\ IF probe THEN ~synced[o] \/ Unconfirmed(o)
                     ELSE synced[o] /\ next[o] <= Len(Script[o])
         /\ req' = [req EXCEPT ![o] =
                      [phase |-> IF first_sync THEN "store" ELSE "wait",
                       probe |-> probe, first |-> first_sync]]
    /\ UNCHANGED <<txVars, bufferVars, seqVars, lockVars, first_sync,
                   clientVars, lakeVars, faults>>

\* The handler's store that follows its load: two steps, so that a request of
\* another client may come between them.
StoreFirst(o) ==
    /\ req[o].phase = "store"
    /\ first_sync' = FALSE
    /\ req' = [req EXCEPT ![o].phase = "wait"]
    /\ UNCHANGED <<txVars, bufferVars, seqVars, lockVars, clientVars, lakeVars,
                   faults>>

\* The client gets a response: it learns the durable sequence number, and goes
\* back to where it has to resume if it learns that the server has restarted.
Respond(o, accepted, dur) ==
    LET restarted == req[o].first \/ ~synced[o]
        message == ~req[o].probe /\ accepted
    IN  /\ known' = IF restarted \/ dur = NoSeq THEN known
                    ELSE [known EXCEPT ![o] = dur]
        /\ next' = [next EXCEPT ![o] =
                      IF restarted /\ ~(message /\ @ = Resume(o)) THEN Resume(o)
                      ELSE IF message THEN @ + 1 ELSE @]
        /\ synced' = [synced EXCEPT ![o] = TRUE]
        /\ req' = [req EXCEPT ![o] = Idle]

\* The request waits for the lock with a message, or with a probe.
Waiting(o, probe) == req[o].phase = "wait" /\ req[o].probe = probe

\* A probe takes the read lock and reports the sequence numbers.
Probe(o) ==
    /\ Waiting(o, TRUE)
    /\ holder = Nobody
    /\ Respond(o, TRUE, origin_durable[o])
    /\ UNCHANGED <<txVars, bufferVars, seqVars, lockVars, first_sync, lakeVars,
                   faults>>

\* The write lock is not obtained in time: accepted = false.
LockTimeout(o) ==
    /\ Waiting(o, FALSE)
    /\ holder # Nobody
    /\ Fault("timeout")
    /\ Respond(o, FALSE, NoSeq)
    /\ UNCHANGED <<txVars, bufferVars, seqVars, lockVars, first_sync, lakeVars>>

----------------------------------------------------------------------------
(* process_sync_cmd with the write lock: enqueue_sync, then flush          *)

Enqueue(o) ==
    LET m == Script[o][next[o]]
    IN  /\ Waiting(o, FALSE)
        /\ holder = Nobody
        /\ \E t \in PendingTx \cup {nextTx} :
             /\ UpsertTx(o, m, t)
             /\ IF m.size > 0
                THEN PushItem(m.url, [tx |-> t, origin |-> o, pos |-> next[o],
                                      size |-> m.size])
                ELSE UNCHANGED bufferVars
        /\ origin_memory' = IF m.seq = NoSeq THEN origin_memory
                            ELSE [origin_memory EXCEPT ![o] = m.seq]
        /\ holder' = o
        /\ req' = [req EXCEPT ![o].phase = "held"]
        /\ UNCHANGED <<origin_durable, flushUrl, flushInfo, first_sync,
                       clientVars, lakeVars, faults>>

\* enqueue_sync returns InvalidMessage; the client will send it again.
EnqueueRejected(o) ==
    /\ Waiting(o, FALSE)
    /\ holder = Nobody
    /\ Rejected(o, Script[o][next[o]])
    /\ req' = [req EXCEPT ![o] = Idle]
    /\ UNCHANGED <<txVars, bufferVars, seqVars, lockVars, first_sync,
                   clientVars, lakeVars, faults>>

\* squash_batches fails (or panics) after the transaction has been updated;
\* the client gets an error and will send the message again.
EnqueueSquashFails(o) ==
    LET m == Script[o][next[o]]
    IN  /\ Waiting(o, FALSE)
        /\ holder = Nobody
        /\ m.size > 0
        /\ Fault("squash")
        /\ \E t \in PendingTx \cup {nextTx} : UpsertTx(o, m, t)
        /\ req' = [req EXCEPT ![o] = Idle]
        /\ UNCHANGED <<bufferVars, seqVars, lockVars, first_sync,
                       clientVars, lakeVars>>

\* flush_task wakes up and obtains the write lock.
FlushTaskTick ==
    /\ holder = Nobody
    /\ holder' = FlushTask
    /\ UNCHANGED <<txVars, bufferVars, seqVars, flushUrl, flushInfo,
                   first_sync, req, clientVars, lakeVars, faults>>

----------------------------------------------------------------------------
(* flush and flush_syncs, run by the holder of the write lock              *)

CreateTable(u) == exists' = [exists EXCEPT ![u] = TRUE]

\* table_sequence reads the last commit only; creating a table is a commit too,
\* without sync info.
TableSequence(u) == info[u]

\* flush_syncs up to table_sequence: create the table if there is none, load
\* it and read the info of its last commit.
FlushLoad ==
    /\ holder # Nobody /\ flushUrl = NoUrl
    /\ \E u \in FlushReady :
         /\ flushUrl' = u
         /\ CreateTable(u)
         /\ flushInfo' = TableSequence(u)
    /\ UNCHANGED <<txVars, bufferVars, seqVars, holder, first_sync, req,
                   clientVars, info, applied, faults>>

\* Every pending message of the table is skipped: only the buffer is cleared.
FlushSkipAll ==
    /\ flushUrl # NoUrl
    /\ SkipSyncs(syncs[flushUrl].items, flushInfo) = <<>>
    /\ RemoveSync(flushUrl)
    /\ flushUrl' = NoUrl /\ flushInfo' = NoInfo
    /\ UNCHANGED <<txVars, seqVars, holder, first_sync, req, clientVars,
                   lakeVars, faults>>

\* The commit succeeds: drop the table from its transactions and from the
\* buffer, and advance the durable sequence numbers.
FlushCommit ==
    /\ flushUrl # NoUrl
    /\ CommitSyncs(flushUrl)
    /\ LET items == syncs[flushUrl].items
           ids == {items[k].tx : k \in DOMAIN items}
       IN  AdvanceDurable(RemoveTxLocations(txs, flushUrl, ids))
    /\ RemoveSync(flushUrl)
    /\ flushUrl' = NoUrl /\ flushInfo' = NoInfo
    /\ UNCHANGED <<nextTx, origin_memory, holder, first_sync, req,
                   clientVars, faults>>

\* Nothing is left to flush: release the lock; a request gets its response.
FlushEnd ==
    /\ holder # Nobody /\ flushUrl = NoUrl
    /\ FlushReady = {}
    /\ holder' = Nobody
    /\ IF holder = FlushTask
       THEN UNCHANGED <<req, clientVars>>
       ELSE Respond(holder, TRUE, origin_durable[holder])
    /\ UNCHANGED <<txVars, bufferVars, seqVars, flushUrl, flushInfo,
                   first_sync, lakeVars, faults>>

\* The holder gives the lock up without finishing: nothing in memory changes,
\* and a client sends its message again.
Abandon ==
    /\ holder' = Nobody
    /\ flushUrl' = NoUrl /\ flushInfo' = NoInfo
    /\ req' = [o \in Origins |-> IF o = holder THEN Idle ELSE req[o]]
    /\ UNCHANGED <<txVars, bufferVars, seqVars, first_sync, clientVars>>

\* flush_syncs fails after the load, before the commit has taken effect.
FlushFails ==
    /\ flushUrl # NoUrl
    /\ Fault("flush")
    /\ Abandon
    /\ UNCHANGED lakeVars

\* The commit takes effect, but flush_syncs does not see it: the answer of the
\* object store is lost, or the client disconnects and the handler is dropped.
FlushCommitLost ==
    /\ flushUrl # NoUrl
    /\ Fault("flush")
    /\ CommitSyncs(flushUrl)
    /\ Abandon

\* The client disconnects between two flushes; the response is never sent.
ResponseDropped ==
    /\ holder \in Origins /\ flushUrl = NoUrl
    /\ Fault("drop")
    /\ Abandon
    /\ UNCHANGED lakeVars

----------------------------------------------------------------------------
(* The environment                                                         *)

\* max_replication_lag_s passes for the first collection of the buffer.
Age ==
    /\ queue # <<>> /\ ~aged
    /\ aged' = TRUE
    /\ UNCHANGED <<txVars, queue, syncs, size, seqVars, lockVars, first_sync,
                   req, clientVars, lakeVars, faults>>

\* Another commit to the table (DML over SQL, VACUUM): it has no sync info.
ForeignCommit(u) ==
    /\ exists[u] /\ info[u] # NoInfo
    /\ Fault("foreign")
    /\ info' = [info EXCEPT ![u] = NoInfo]
    /\ UNCHANGED <<txVars, bufferVars, seqVars, lockVars, first_sync, req,
                   clientVars, exists, applied>>

\* The process stops and starts again; a commit under way may have landed.
Crash ==
    /\ Fault("crash")
    /\ \/ UNCHANGED lakeVars
       \/ flushUrl # NoUrl /\ CommitSyncs(flushUrl)
    /\ txs' = <<>> /\ nextTx' = 1
    /\ queue' = <<>> /\ syncs' = [u \in Urls |-> NoSyncs]
    /\ size' = 0 /\ aged' = FALSE
    /\ origin_memory' = [o \in Origins |-> NoSeq]
    /\ origin_durable' = [o \in Origins |-> NoSeq]
    /\ holder' = Nobody /\ flushUrl' = NoUrl /\ flushInfo' = NoInfo
    /\ first_sync' = TRUE
    /\ req' = [o \in Origins |-> Idle]
    /\ synced' = [o \in Origins |-> ~ProbeFirst]
    /\ UNCHANGED <<next, known>>

----------------------------------------------------------------------------
Init ==
    /\ txs = <<>> /\ nextTx = 1
    /\ queue = <<>> /\ syncs = [u \in Urls |-> NoSyncs]
    /\ size = 0 /\ aged = FALSE
    /\ origin_memory = [o \in Origins |-> NoSeq]
    /\ origin_durable = [o \in Origins |-> NoSeq]
    /\ holder = Nobody /\ flushUrl = NoUrl /\ flushInfo = NoInfo
    /\ first_sync = TRUE
    /\ req = [o \in Origins |-> Idle]
    /\ next = [o \in Origins |-> 1]
    /\ known = [o \in Origins |-> NoSeq]
    /\ synced = [o \in Origins |-> ~ProbeFirst]
    /\ exists = [u \in Urls |-> FALSE]
    /\ info = [u \in Urls |-> NoInfo]
    /\ applied = [u \in Urls |-> <<>>]
    /\ faults = 0

Client(o) == Send(o) \/ StoreFirst(o) \/ Probe(o) \/ LockTimeout(o)

Handler(o) == Enqueue(o) \/ EnqueueRejected(o) \/ EnqueueSquashFails(o)

Flush == FlushLoad \/ FlushSkipAll \/ FlushCommit \/ FlushEnd

FlushBroken == FlushFails \/ FlushCommitLost \/ ResponseDropped

Next ==
    \/ \E o \in Origins : Client(o) \/ Handler(o)
    \/ FlushTaskTick
    \/ Flush
    \/ FlushBroken
    \/ Age
    \/ \E u \in Urls : ForeignCommit(u)
    \/ Crash

Spec == Init /\ [][Next]_vars

\* Time passes and tasks that can run do run; the lock is tokio's RwLock, whose
\* queue is first-in first-out, so whoever keeps asking for it gets it.
Fairness ==
    /\ \A o \in Origins :
          /\ WF_vars(Send(o)) /\ WF_vars(StoreFirst(o))
          /\ SF_vars(Probe(o)) /\ SF_vars(Enqueue(o))
          /\ SF_vars(EnqueueRejected(o))
    /\ WF_vars(Flush)
    /\ SF_vars(FlushTaskTick)
    /\ WF_vars(Age)

FairSpec == Spec /\ Fairness

----------------------------------------------------------------------------
(* Properties                                                              *)

Persisted(o, i, u) == \E k \in DOMAIN applied[u] : applied[u][k] = <<o, i>>

Buffered(o, i, u) ==
    \E k \in DOMAIN syncs[u].items :
        syncs[u].items[k].origin = o /\ syncs[u].items[k].pos = i

TxType ==
    /\ nextTx \in Nat \ {0}
    /\ DOMAIN txs \subseteq 1..(nextTx - 1)
    /\ txs \in [DOMAIN txs -> Transaction]
    /\ \A t \in DOMAIN txs : txs[t].sequence \in SeqNums(txs[t].origin)

BufferType ==
    /\ queue \in Seq(Urls)
    /\ syncs \in [Urls -> [size : Nat, items : Seq(Item)]]
    /\ size \in Int
    /\ aged \in BOOLEAN

SeqType ==
    /\ origin_memory \in [Origins -> Nat \cup {NoSeq}]
    /\ origin_durable \in [Origins -> Nat \cup {NoSeq}]
    /\ \A o \in Origins : /\ origin_memory[o] \in SeqNums(o)
                          /\ origin_durable[o] \in SeqNums(o)

\* A client that holds the lock has sent a message.
LockType ==
    /\ holder \in Origins \cup {Nobody, FlushTask}
    /\ holder \in Origins => req[holder].phase = "held" /\ ~req[holder].probe
    /\ flushUrl \in Urls \cup {NoUrl}
    /\ flushInfo \in SyncCommitInfo \cup {NoInfo}

\* A request that carries a message carries one of the script.
ClientType ==
    /\ first_sync \in BOOLEAN
    /\ req \in [Origins -> Request]
    /\ next \in [Origins -> Nat \ {0}]
    /\ known \in [Origins -> Nat \cup {NoSeq}]
    /\ synced \in [Origins -> BOOLEAN]
    /\ \A o \in Origins : /\ known[o] \in SeqNums(o)
                          /\ next[o] <= Len(Script[o]) + 1
                          /\ req[o].phase # "idle" /\ ~req[o].probe
                                => next[o] <= Len(Script[o])

LakeType ==
    /\ exists \in [Urls -> BOOLEAN]
    /\ info \in [Urls -> SyncCommitInfo \cup {NoInfo}]
    /\ applied \in [Urls -> Seq(Origins \X Nat)]

\* The type invariant: every part of the state has its type, sequence numbers
\* are those of the script, and a request stays within the script.
TypeOK ==
    /\ TxType /\ BufferType /\ SeqType /\ LockType /\ ClientType /\ LakeType
    /\ faults \in 0..MaxFaults

\* Every buffered message belongs to a transaction that is still in the map
\* and that still counts its table as a location to be flushed: skip_syncs
\* never indexes `txs` with a missing id (a panic), and advance_durable cannot
\* pass a transaction that has rows in memory.
PendingTxTracked ==
    \A u \in Urls : \A k \in DOMAIN syncs[u].items :
        LET t == syncs[u].items[k].tx
        IN  t \in DOMAIN txs /\ u \in txs[t].locations

\* The order of the buffer and its total size agree with the collections: a
\* table is queued exactly once while it has messages, and the size-based
\* criterion of flush_ready never unwraps an empty buffer (a panic).
BufferAccounted ==
    /\ \A u \in Urls : (\E i \in DOMAIN queue : queue[i] = u)
                            <=> syncs[u].items # <<>>
    /\ \A i, j \in DOMAIN queue : queue[i] = queue[j] => i = j
    /\ size = SumFunction([u \in Urls |-> syncs[u].size])
    /\ size >= MaxInMemory => queue # <<>>

\* What the durable sequence number means (DataSyncResponse in sync.proto):
\* every change of the origin up to it is in the Delta tables.
DurablePersisted ==
    \A o \in Origins : \A u \in Urls : \A i \in UpTo(o, origin_durable[o]) :
        Carries(o, i, u) => Persisted(o, i, u)

\* What the memory sequence number means: every change of the origin up to it
\* is buffered or already in the Delta tables.
MemoryHeld ==
    \A o \in Origins : \A u \in Urls : \A i \in UpTo(o, origin_memory[o]) :
        Carries(o, i, u) => Buffered(o, i, u) \/ Persisted(o, i, u)

\* Replays may repeat messages, but no commit leaves one out: when a message is
\* committed to a table, all earlier ones of its origin for that table are.
NoGaps ==
    \A u \in Urls : \A k \in DOMAIN applied[u] :
        LET o == applied[u][k][1]
            i == applied[u][k][2]
        IN  \A j \in 1..(i - 1) :
                Carries(o, j, u) => \E l \in 1..(k - 1) : applied[u][l] = <<o, j>>

\* Without faults every message is committed once: flushing, skipping and
\* interleaved origins neither repeat nor reorder messages.
ExactlyOnce ==
    \A u \in Urls : \A k, l \in DOMAIN applied[u] :
        k < l /\ applied[u][k][1] = applied[u][l][1]
            => applied[u][k][2] < applied[u][l][2]

\* The locations of a transaction are the tables it has pending flushes for.
LocationsPending ==
    \A t \in DOMAIN txs : \A u \in txs[t].locations :
        \E k \in DOMAIN syncs[u].items : syncs[u].items[k].tx = t

\* The conditions for marking a transaction durable (received in full, all its
\* locations flushed, all preceding ones durable) are also sufficient: whenever
\* the lock is free, no transaction that meets them is left in the map.
ReadyIsDurable == holder = Nobody => DurableTxs(txs) = {}

\* The durable sequence number of an origin never goes back while the server
\* runs, and what a client was told never does, across restarts included.
DurableMonotone ==
    [][\A o \in Origins : /\ known[o] <= known'[o]
                          /\ origin_durable[o] <= origin_durable'[o] \/ Crash]_vars

\* The writer implements what sync.proto promises the clients (SyncContract).
Contract == INSTANCE SyncContract WITH
    stored <- [u \in Urls |-> Range(applied[u])],
    durable <- origin_durable

ImplementsContract == Contract!Spec

\* A transaction that has been received in full becomes durable in the end,
\* and its client gets to know.
MemoryBecomesDurable ==
    \A o \in Origins : \A s \in {Script[o][i].seq : i \in 1..Len(Script[o])} :
        (s # NoSeq /\ origin_memory[o] = s) ~> (known[o] >= s)

=============================================================================
