-------------------------- MODULE SyncWriterProofs ---------------------------
(***************************************************************************)
(* Proofs about SyncWriter, for any origins, tables, scripts and limits:   *)
(* types, the books of the buffer, what the sequence numbers mean, and the *)
(* refinement of SyncContract.                                             *)
(***************************************************************************)
EXTENDS SyncWriter, NatLemmas, FiniteSetsExt, FiniteSetTheorems, TLAPS

----------------------------------------------------------------------------

\* Scripts are sequences of messages.
LEMMA ScriptLen ==
    ASSUME NEW o \in Origins
    PROVE  Script[o] \in Seq(Message) /\ Len(Script[o]) \in Nat
  BY ScriptAssumption DEF ScriptAssumption

\* A message of a script has the type of a message.
LEMMA MessageType ==
    ASSUME NEW o \in Origins, NEW i \in 1..Len(Script[o])
    PROVE  /\ Script[o][i] \in Message
           /\ Script[o][i].url \in Urls
           /\ Script[o][i].size \in Nat
           /\ Script[o][i].seq \in Nat \cup {NoSeq}
           /\ Script[o][i].seq \in SeqNums(o)
  <1>1. Script[o] \in Seq(Message)
    BY ScriptLen
  <1>2. Script[o][i] \in Message
    BY <1>1
  <1>3. Script[o][i].seq \in SeqNums(o)
    BY DEF SeqNums
  <1>4. QED
    BY <1>2, <1>3 DEF Message

\* The sequence numbers of an origin are naturals, or NoSeq.
LEMMA SeqNumsType ==
    ASSUME NEW o \in Origins
    PROVE  SeqNums(o) \subseteq Nat \cup {NoSeq}
  BY MessageType DEF SeqNums

\* Not having a sequence number is always an option.
LEMMA NoSeqInSeqNums ==
    ASSUME NEW o \in Origins PROVE NoSeq \in SeqNums(o)
  BY DEF SeqNums

\* A client resumes at a message of its script, or after the last one.
LEMMA ResumeType ==
    ASSUME ClientType, NEW o \in Origins
    PROVE  Resume(o) \in 1..(Len(Script[o]) + 1)
  <1>1. Len(Script[o]) \in Nat
    BY ScriptLen
  <1>2. CASE known[o] = NoSeq
    BY <1>1, <1>2 DEF Resume
  <1>3. CASE known[o] # NoSeq
    <2>1. \E i \in 1..Len(Script[o]) : Script[o][i].seq = known[o]
      BY <1>3 DEF ClientType, SeqNums
    <2>2. QED
      BY <1>1, <1>3, <2>1 DEF Resume
  <1>4. QED
    BY <1>2, <1>3

(***************************************************************************)
(* Type correctness, one group of variables at a time.                     *)
(***************************************************************************)

\* A writer that has just started is well-typed.
LEMMA InitType == Init => TypeOK
  <1> SUFFICES ASSUME Init PROVE TypeOK
    OBVIOUS
  <1>1. TxType
    BY DEF Init, TxType
  <1>2. BufferType
    <2>1. NoSyncs \in [size : Nat, items : Seq(Item)]
      BY DEF NoSyncs
    <2>2. syncs \in [Urls -> [size : Nat, items : Seq(Item)]]
      BY <2>1 DEF Init
    <2>3. queue \in Seq(Urls) /\ size \in Int
      BY DEF Init
    <2>4. aged \in BOOLEAN
      BY DEF Init
    <2>5. QED
      BY <2>2, <2>3, <2>4 DEF BufferType
  <1>3. SeqType
    <2>1. /\ origin_memory \in [Origins -> Nat \cup {NoSeq}]
          /\ origin_durable \in [Origins -> Nat \cup {NoSeq}]
      BY DEF Init
    <2>2. \A o \in Origins : origin_memory[o] = NoSeq /\ origin_durable[o] = NoSeq
      BY DEF Init
    <2>3. QED
      BY <2>1, <2>2, NoSeqInSeqNums DEF SeqType
  <1>4. LockType
    BY DistinctAssumption DEF DistinctAssumption, Init, LockType
  <1>5. ClientType
    <2>1. \A o \in Origins : Len(Script[o]) \in Nat
      BY ScriptLen
    <2>2. req \in [Origins -> Request]
      BY DEF Init, Request, Idle
    <2>3. /\ next \in [Origins -> Nat \ {0}]
          /\ known \in [Origins -> Nat \cup {NoSeq}]
          /\ first_sync \in BOOLEAN
      BY DEF Init
    <2>4. synced \in [Origins -> BOOLEAN]
      BY ConstantsAssumption, Zenon DEF ConstantsAssumption, Init
    <2>5. \A o \in Origins : /\ known[o] = NoSeq
                             /\ next[o] = 1
                             /\ req[o].phase = "idle"
      BY DEF Init, Idle
    <2>6. QED
      BY <2>1, <2>2, <2>3, <2>4, <2>5, NoSeqInSeqNums DEF ClientType
  <1>6. LakeType
    BY DEF Init, LakeType
  <1>7. faults \in 0..MaxFaults
    BY ConstantsAssumption DEF ConstantsAssumption, Init
  <1>8. QED
    BY <1>1, <1>2, <1>3, <1>4, <1>5, <1>6, <1>7 DEF TypeOK

\* enqueue_sync's transaction: its id is new or that of the pending one.
LEMMA UpsertTxType ==
    ASSUME TxType, NEW o \in Origins, NEW i \in 1..Len(Script[o]),
           NEW t \in PendingTx \cup {nextTx}, UpsertTx(o, Script[o][i], t)
    PROVE  TxType' /\ t \in Nat
  <1> DEFINE m == Script[o][i]
  <1>0. /\ m.url \in Urls /\ m.size \in Nat
        /\ m.seq \in Nat \cup {NoSeq} /\ m.seq \in SeqNums(o)
    BY MessageType
  <1> HIDE DEF m
  <1>1. CASE /\ t \in PendingTx
             /\ txs[t].origin = o
             /\ txs' = [txs EXCEPT
                    ![t].sequence = IF m.seq = NoSeq THEN @ ELSE m.seq,
                    ![t].locations = IF m.size > 0 THEN @ \cup {m.url} ELSE @]
             /\ UNCHANGED nextTx
    <2>1. t \in DOMAIN txs /\ DOMAIN txs' = DOMAIN txs
      BY <1>1 DEF PendingTx
    <2>2. \A x \in DOMAIN txs : x # t => txs'[x] = txs[x]
      BY <1>1
    <2>3. txs[t] \in Transaction
      BY <2>1 DEF TxType
    <2>4. /\ txs'[t] \in Transaction
          /\ txs'[t].origin = o
          /\ txs'[t].sequence \in SeqNums(o)
      BY <1>0, <1>1, <2>1, <2>3 DEF TxType, Transaction
    <2>5. txs' \in [DOMAIN txs' -> Transaction]
      BY <1>1, <2>1, <2>2, <2>4 DEF TxType
    <2>6. \A x \in DOMAIN txs' : txs'[x].sequence \in SeqNums(txs'[x].origin)
      BY <2>1, <2>2, <2>4 DEF TxType
    <2>7. QED
      BY <1>1, <2>1, <2>5, <2>6 DEF TxType
  <1>2. CASE /\ t = nextTx
             /\ txs' = [x \in DOMAIN txs \cup {t} |->
                    IF x = t THEN [origin |-> o, sequence |-> m.seq,
                                   locations |-> {m.url}]
                             ELSE txs[x]]
             /\ nextTx' = nextTx + 1
    BY <1>0, <1>2 DEF TxType, Transaction
  <1>3. QED
    BY <1>1, <1>2 DEF UpsertTx, m

\* enqueue_sync's push onto a collection keeps the buffer's type.
LEMMA PushItemType ==
    ASSUME BufferType, NEW u \in Urls, NEW item \in Item, PushItem(u, item)
    PROVE  BufferType'
  <1>1. /\ syncs[u].size \in Nat /\ syncs[u].items \in Seq(Item)
        /\ item.size \in Nat
    BY DEF BufferType, Item
  <1>2. syncs' \in [Urls -> [size : Nat, items : Seq(Item)]]
    BY <1>1 DEF PushItem, BufferType
  <1>3. queue' \in Seq(Urls)
    BY DEF PushItem, BufferType
  <1>4. size' \in Int
    BY <1>1 DEF PushItem, BufferType
  <1>5. aged' \in BOOLEAN
    BY DEF PushItem, BufferType
  <1>6. QED
    BY <1>2, <1>3, <1>4, <1>5 DEF BufferType

\* remove_sync takes one url out of the order and empties its collection.
LEMMA RemoveSyncType ==
    ASSUME BufferType, NEW u \in Urls, RemoveSync(u)
    PROVE  BufferType'
  <1>1. PICK i \in DOMAIN queue :
          /\ queue' = SubSeq(queue, 1, i - 1) \o SubSeq(queue, i + 1, Len(queue))
          /\ syncs' = [syncs EXCEPT ![u] = NoSyncs]
          /\ size' = size - syncs[u].size
          /\ aged' = (aged /\ i # 1)
    BY DEF RemoveSync
  <1>2. syncs' \in [Urls -> [size : Nat, items : Seq(Item)]]
    <2>1. NoSyncs \in [size : Nat, items : Seq(Item)]
      BY DEF NoSyncs
    <2>2. QED
      BY <1>1, <2>1 DEF BufferType
  <1>3. queue' \in Seq(Urls)
    <2>1. queue \in Seq(Urls) /\ i \in 1..Len(queue)
      BY DEF BufferType
    <2>2. /\ SubSeq(queue, 1, i - 1) \in Seq(Urls)
          /\ SubSeq(queue, i + 1, Len(queue)) \in Seq(Urls)
      BY <2>1
    <2>3. QED
      BY <1>1, <2>2
  <1>4. size' \in Int
    BY <1>1 DEF BufferType
  <1>5. aged' \in BOOLEAN
    BY <1>1
  <1>6. QED
    BY <1>2, <1>3, <1>4, <1>5 DEF BufferType

\* What is left after skipping is made of items of the table.
LEMMA SkipSyncsType ==
    ASSUME NEW items \in Seq(Item), NEW last
    PROVE  /\ SkipSyncs(items, last) \in Seq(Item)
           /\ \A k \in DOMAIN SkipSyncs(items, last) :
                 \E j \in DOMAIN items : SkipSyncs(items, last)[k] = items[j]
  <1>1. CASE last = NoInfo \/ FirstMatch(items, last) = {}
    BY <1>1 DEF SkipSyncs
  <1>2. CASE ~(last = NoInfo \/ FirstMatch(items, last) = {})
    <2>1. PICK k \in DOMAIN items :
            SkipSyncs(items, last) = SubSeq(items, k + 1, Len(items))
      BY <1>2 DEF SkipSyncs, FirstMatch
    <2>2. k \in 1..Len(items)
      OBVIOUS
    <2> DEFINE rest == SubSeq(items, k + 1, Len(items))
    <2>3. rest \in Seq(Item) /\ Len(rest) = Len(items) - k
      BY <2>2
    <2>4. \A n \in 1..Len(rest) : rest[n] = items[k + n] /\ k + n \in 1..Len(items)
      BY <2>2, <2>3
    <2>5. DOMAIN rest = 1..Len(rest) /\ DOMAIN items = 1..Len(items)
      BY <2>3
    <2> HIDE DEF rest
    <2>6. QED
      BY <2>1, <2>3, <2>4, <2>5 DEF rest
  <1>3. QED
    BY <1>1, <1>2

\* The commit info of a flush names an origin and one of its numbers.
LEMMA NewSyncCommitType ==
    ASSUME TxType, NEW items \in Seq(Item),
           NEW last \in SyncCommitInfo \cup {NoInfo}
    PROVE  NewSyncCommit(items, last) \in SyncCommitInfo \cup {NoInfo}
  <1> DEFINE newTx == txs[items[Len(items)].tx].sequence = NoSeq
  <1>0. newTx \in BOOLEAN
    OBVIOUS
  <1>1. CASE LastComplete(items) # {}
    <2>1. PICK k \in LastComplete(items) :
            NewSyncCommit(items, last) = [origin |-> txs[items[k].tx].origin,
                                          sequence |-> txs[items[k].tx].sequence,
                                          new_tx |-> newTx]
      BY <1>1 DEF NewSyncCommit
    <2>2. items[k].tx \in DOMAIN txs /\ txs[items[k].tx].sequence # NoSeq
      BY DEF LastComplete, Complete
    <2>3. /\ txs[items[k].tx].origin \in Origins
          /\ txs[items[k].tx].sequence \in Nat
      BY <2>2 DEF TxType, Transaction
    <2> HIDE DEF newTx
    <2>4. QED
      BY <1>0, <2>1, <2>3 DEF SyncCommitInfo
  <1>2. CASE LastComplete(items) = {} /\ last = NoInfo
    BY <1>2 DEF NewSyncCommit
  <1>3. CASE LastComplete(items) = {} /\ last # NoInfo
    <2>1. NewSyncCommit(items, last) = [last EXCEPT !.new_tx = newTx]
      BY <1>3 DEF NewSyncCommit
    <2> HIDE DEF newTx
    <2>2. QED
      BY <1>0, <1>3, <2>1 DEF SyncCommitInfo
  <1>4. QED
    BY <1>1, <1>2, <1>3

\* A commit appends messages of known origins to the table.
LEMMA CommitSyncsType ==
    ASSUME TypeOK, NEW u \in Urls, CommitSyncs(u)
    PROVE  LakeType'
  <1> DEFINE rest == SkipSyncs(syncs[u].items, flushInfo)
             new == [k \in 1..Len(rest) |-> <<rest[k].origin, rest[k].pos>>]
  <1>1. rest \in Seq(Item)
    BY SkipSyncsType DEF TypeOK, BufferType
  <1>2. new \in Seq(Origins \X Nat)
    <2>1. \A k \in 1..Len(rest) : rest[k] \in Item
      BY <1>1
    <2>2. \A k \in 1..Len(rest) : <<rest[k].origin, rest[k].pos>> \in Origins \X Nat
      BY <2>1 DEF Item
    <2>3. Len(rest) \in Nat
      BY <1>1
    <2> HIDE DEF rest
    <2>4. QED
      BY <2>2, <2>3
  <1>3. NewSyncCommit(rest, flushInfo) \in SyncCommitInfo \cup {NoInfo}
    BY <1>1, NewSyncCommitType DEF TypeOK, LockType
  <1>4. /\ applied' = [applied EXCEPT ![u] = @ \o new]
        /\ info' = [info EXCEPT ![u] = NewSyncCommit(rest, flushInfo)]
        /\ exists' = exists
    BY DEF CommitSyncs
  <1> HIDE DEF rest, new
  <1>5. applied' \in [Urls -> Seq(Origins \X Nat)]
    BY <1>2, <1>4 DEF TypeOK, LakeType
  <1>6. info' \in [Urls -> SyncCommitInfo \cup {NoInfo}]
    BY <1>3, <1>4 DEF TypeOK, LakeType
  <1>7. exists' \in [Urls -> BOOLEAN]
    BY <1>4 DEF TypeOK, LakeType
  <1>8. QED
    BY <1>5, <1>6, <1>7 DEF LakeType

\* advance_durable hands a sequence number of the origin's own script on.
LEMMA AdvanceDurableType ==
    ASSUME TxType, SeqType, NEW u \in Urls, NEW ids,
           AdvanceDurable(RemoveTxLocations(txs, u, ids)),
           UNCHANGED <<nextTx, origin_memory>>
    PROVE  TxType' /\ SeqType'
  <1> DEFINE ts == RemoveTxLocations(txs, u, ids)
             D == DurableTxs(ts)
  <1>1. /\ DOMAIN ts = DOMAIN txs
        /\ \A t \in DOMAIN txs : /\ ts[t] \in Transaction
                                 /\ ts[t].origin = txs[t].origin
                                 /\ ts[t].sequence = txs[t].sequence
    BY DEF RemoveTxLocations, TxType, Transaction
  <1>2. D \subseteq DOMAIN txs
    BY <1>1 DEF DurableTxs
  <1>3. /\ txs' = [t \in DOMAIN ts \ D |-> ts[t]]
        /\ origin_durable' =
              [o \in Origins |->
                  IF LastOf(ts, D, o) = {} THEN origin_durable[o]
                  ELSE ts[CHOOSE t \in LastOf(ts, D, o) : TRUE].sequence]
    BY DEF AdvanceDurable
  <1> HIDE DEF ts, D
  <1>4. TxType'
    <2>1. txs' \in [DOMAIN txs' -> Transaction] /\ DOMAIN txs' \subseteq DOMAIN txs
      BY <1>1, <1>3
    <2>2. \A t \in DOMAIN txs' : txs'[t].sequence \in SeqNums(txs'[t].origin)
      BY <1>1, <1>3 DEF TxType
    <2>3. QED
      BY <2>1, <2>2 DEF TxType
  <1>5. ASSUME NEW o \in Origins
        PROVE  origin_durable'[o] \in SeqNums(o)
    <2>1. CASE LastOf(ts, D, o) = {}
      BY <1>3, <2>1 DEF SeqType
    <2>2. CASE LastOf(ts, D, o) # {}
      <3>1. PICK t \in LastOf(ts, D, o) : origin_durable'[o] = ts[t].sequence
        BY <1>3, <2>2
      <3>2. t \in DOMAIN txs /\ ts[t].origin = o
        BY <1>2 DEF LastOf
      <3>3. QED
        BY <1>1, <3>1, <3>2 DEF TxType
    <2>3. QED
      BY <2>1, <2>2
  <1>6. origin_durable' \in [Origins -> Nat \cup {NoSeq}]
    <2> DEFINE new(o) == IF LastOf(ts, D, o) = {} THEN origin_durable[o]
                         ELSE ts[CHOOSE t \in LastOf(ts, D, o) : TRUE].sequence
    <2>1. origin_durable' = [o \in Origins |-> new(o)]
      BY <1>3
    <2> HIDE DEF new
    <2>2. \A o \in Origins : new(o) \in Nat \cup {NoSeq}
      BY <2>1, <1>5, SeqNumsType
    <2>3. QED
      BY <2>1, <2>2
  <1>7. QED
    BY <1>4, <1>5, <1>6 DEF SeqType

\* A response leaves the client within its script.
LEMMA RespondType ==
    ASSUME ClientType, NEW o \in Origins, NEW accepted \in BOOLEAN,
           NEW dur \in SeqNums(o), req[o].phase # "idle",
           Respond(o, accepted, dur), UNCHANGED first_sync
    PROVE  ClientType' /\ req' = [req EXCEPT ![o] = Idle]
  <1>0. Len(Script[o]) \in Nat
    BY ScriptLen
  <1>1. req' = [req EXCEPT ![o] = Idle] /\ req' \in [Origins -> Request]
    BY DEF Respond, ClientType, Request, Idle
  <1>2. known' \in [Origins -> Nat \cup {NoSeq}]
    BY SeqNumsType DEF Respond, ClientType
  <1>3. \A p \in Origins : known'[p] \in SeqNums(p)
    BY DEF Respond, ClientType
  <1>4. synced' \in [Origins -> BOOLEAN]
    BY DEF Respond, ClientType
  <1>5. Resume(o) \in 1..(Len(Script[o]) + 1)
    BY ResumeType
  <1>6. ~req[o].probe => next[o] <= Len(Script[o])
    BY DEF ClientType
  <1>7. PICK n : /\ next' = [next EXCEPT ![o] = n]
                 /\ \/ n = Resume(o)
                    \/ n = next[o] + 1 /\ ~req[o].probe
                    \/ n = next[o]
    BY DEF Respond
  <1>8. n \in 1..(Len(Script[o]) + 1)
    BY <1>0, <1>5, <1>6, <1>7 DEF ClientType
  <1>9. next' \in [Origins -> Nat \ {0}]
    BY <1>0, <1>7, <1>8 DEF ClientType
  <1>10. \A p \in Origins : next'[p] <= Len(Script[p]) + 1
    BY <1>0, <1>7, <1>8 DEF ClientType
  <1>11. \A p \in Origins : req'[p].phase # "idle" /\ ~req'[p].probe
                              => next'[p] <= Len(Script[p])
    BY <1>1, <1>7 DEF ClientType, Idle
  <1>12. first_sync' \in BOOLEAN
    BY DEF ClientType
  <1>13. QED
    BY <1>1, <1>2, <1>3, <1>4, <1>9, <1>10, <1>11, <1>12 DEF ClientType

\* A fault leaves the counter within its bound.
LEMMA FaultType ==
    ASSUME faults \in 0..MaxFaults, NEW kind, Fault(kind)
    PROVE  faults' \in 0..MaxFaults
  BY ConstantsAssumption DEF ConstantsAssumption, Fault

\* Every step of a client or of the handler's first part keeps the types.
LEMMA ClientStepType ==
    ASSUME TypeOK, NEW o \in Origins, Client(o)
    PROVE  TypeOK'
  <1> USE DEF TypeOK
  <1>0. o # Nobody /\ o # FlushTask
    BY DistinctAssumption DEF DistinctAssumption
  <1>1. CASE Send(o)
    <2>1. PICK probe \in BOOLEAN :
            /\ IF probe THEN ~synced[o] \/ Unconfirmed(o)
                        ELSE synced[o] /\ next[o] <= Len(Script[o])
            /\ req' = [req EXCEPT ![o] =
                         [phase |-> IF first_sync THEN "store" ELSE "wait",
                          probe |-> probe, first |-> first_sync]]
      BY <1>1 DEF Send
    <2>2. req' \in [Origins -> Request]
      BY <2>1 DEF ClientType, Request
    <2>3. ~req'[o].probe => next[o] <= Len(Script[o])
      BY <2>1 DEF ClientType
    <2>4. \A p \in Origins : p # o => req'[p] = req[p]
      BY <2>1 DEF ClientType
    <2>5. ClientType'
      BY <1>1, <2>2, <2>3, <2>4 DEF Send, ClientType, clientVars
    <2>6. LockType'
      BY <1>1, <2>4 DEF Send, LockType, lockVars
    <2>7. TxType' /\ BufferType' /\ SeqType' /\ LakeType' /\ faults' = faults
      BY <1>1 DEF Send, txVars, bufferVars, seqVars, lakeVars,
                  TxType, BufferType, SeqType, LakeType
    <2>8. QED
      BY <2>5, <2>6, <2>7
  <1>2. CASE StoreFirst(o)
    <2>1. req' \in [Origins -> Request] /\ req'[o].probe = req[o].probe
      BY <1>2 DEF StoreFirst, ClientType, Request
    <2>2. \A p \in Origins : p # o => req'[p] = req[p]
      BY <1>2 DEF StoreFirst, ClientType
    <2>3. ClientType'
      BY <1>2, <2>1, <2>2 DEF StoreFirst, ClientType, clientVars
    <2>4. LockType'
      BY <1>2, <2>2 DEF StoreFirst, LockType, lockVars
    <2>5. TxType' /\ BufferType' /\ SeqType' /\ LakeType' /\ faults' = faults
      BY <1>2 DEF StoreFirst, txVars, bufferVars, seqVars, lakeVars,
                  TxType, BufferType, SeqType, LakeType
    <2>6. QED
      BY <2>3, <2>4, <2>5
  <1>3. CASE Probe(o)
    <2>1. ClientType'
      BY <1>3, RespondType DEF Probe, Waiting, SeqType
    <2>2. LockType'
      BY <1>0, <1>3, DistinctAssumption
         DEF DistinctAssumption, Probe, LockType, lockVars
    <2>3. TxType' /\ BufferType' /\ SeqType' /\ LakeType' /\ faults' = faults
      BY <1>3 DEF Probe, txVars, bufferVars, seqVars, lakeVars,
                  TxType, BufferType, SeqType, LakeType
    <2>4. QED
      BY <2>1, <2>2, <2>3
  <1>4. CASE LockTimeout(o)
    <2>1. ClientType' /\ req' = [req EXCEPT ![o] = Idle]
      BY <1>4, RespondType, NoSeqInSeqNums DEF LockTimeout, Waiting
    <2>2. \A p \in Origins : p # o => req'[p] = req[p]
      BY <2>1 DEF ClientType
    <2>3. LockType'
      BY <1>4, <2>2 DEF LockTimeout, Waiting, LockType, lockVars
    <2>4. TxType' /\ BufferType' /\ SeqType' /\ LakeType'
      BY <1>4 DEF LockTimeout, txVars, bufferVars, seqVars, lakeVars,
                  TxType, BufferType, SeqType, LakeType
    <2>5. faults' \in 0..MaxFaults
      BY <1>4, FaultType DEF LockTimeout
    <2>6. QED
      BY <2>1, <2>3, <2>4, <2>5
  <1>5. QED
    BY <1>1, <1>2, <1>3, <1>4 DEF Client

\* The handler's steps under the lock.
LEMMA HandlerStepType ==
    ASSUME TypeOK, NEW o \in Origins, Handler(o)
    PROVE  TypeOK'
  <1> USE DEF TypeOK
  <1> DEFINE m == Script[o][next[o]]
  <1>0. o # Nobody /\ o # FlushTask
    BY DistinctAssumption DEF DistinctAssumption
  <1>1. next[o] \in 1..Len(Script[o])
    BY DEF Handler, Enqueue, EnqueueRejected, EnqueueSquashFails, Waiting,
           ClientType
  <1>2. /\ m.url \in Urls /\ m.size \in Nat
        /\ m.seq \in Nat \cup {NoSeq} /\ m.seq \in SeqNums(o)
    BY <1>1, MessageType
  <1> HIDE DEF m
  <1>3. CASE Enqueue(o)
    <2>1. PICK t \in PendingTx \cup {nextTx} :
            /\ UpsertTx(o, m, t)
            /\ IF m.size > 0
               THEN PushItem(m.url, [tx |-> t, origin |-> o, pos |-> next[o],
                                     size |-> m.size])
               ELSE UNCHANGED bufferVars
      BY <1>3 DEF Enqueue, m
    <2>2. TxType' /\ t \in Nat
      BY <1>1, <2>1, UpsertTxType DEF m
    <2>3. BufferType'
      <3>1. CASE m.size > 0
        <4>1. [tx |-> t, origin |-> o, pos |-> next[o], size |-> m.size] \in Item
          BY <1>1, <1>2, <2>2, ScriptLen DEF Item
        <4>2. QED
          BY <1>2, <2>1, <3>1, <4>1, PushItemType
      <3>2. CASE ~(m.size > 0)
        BY <2>1, <3>2 DEF BufferType, bufferVars
      <3>3. QED
        BY <3>1, <3>2
    <2>4. SeqType'
      <3>1. \/ origin_memory' = origin_memory
            \/ origin_memory' = [origin_memory EXCEPT ![o] = m.seq]
        BY <1>3 DEF Enqueue, m
      <3>2. origin_durable' = origin_durable
        BY <1>3 DEF Enqueue
      <3>3. QED
        BY <1>2, <3>1, <3>2 DEF SeqType
    <2>5. req' = [req EXCEPT ![o].phase = "held"] /\ ~req[o].probe
      BY <1>3 DEF Enqueue, Waiting, ClientType
    <2>6. ClientType'
      <3>1. req' \in [Origins -> Request]
        BY <2>5 DEF ClientType, Request
      <3>2. \A p \in Origins : p # o => req'[p] = req[p]
        BY <2>5 DEF ClientType
      <3>3. QED
        BY <1>1, <1>3, <3>1, <3>2 DEF Enqueue, ClientType, clientVars
    <2>7. LockType'
      BY <1>3, <2>5 DEF Enqueue, LockType, ClientType, Request
    <2>8. LakeType' /\ faults' = faults
      BY <1>3 DEF Enqueue, LakeType, lakeVars
    <2>9. QED
      BY <2>2, <2>3, <2>4, <2>6, <2>7, <2>8
  <1> DEFINE Released == /\ req' = [req EXCEPT ![o] = Idle]
                         /\ holder = Nobody
                         /\ UNCHANGED <<lockVars, first_sync, clientVars>>
  <1>4. ASSUME Released
        PROVE  ClientType' /\ LockType'
    <2>1. req' \in [Origins -> Request]
      BY <1>4 DEF ClientType, Request, Idle
    <2>2. req'[o].phase = "idle" /\ \A p \in Origins : p # o => req'[p] = req[p]
      BY <1>4 DEF ClientType, Idle
    <2>3. ClientType'
      BY <1>4, <2>1, <2>2 DEF ClientType, clientVars
    <2>4. LockType'
      BY <1>4, DistinctAssumption DEF DistinctAssumption, LockType, lockVars
    <2>5. QED
      BY <2>3, <2>4
  <1>5. CASE EnqueueRejected(o)
    <2>1. ClientType' /\ LockType'
      BY <1>4, <1>5 DEF EnqueueRejected
    <2>2. TxType' /\ BufferType' /\ SeqType' /\ LakeType' /\ faults' = faults
      BY <1>5 DEF EnqueueRejected, txVars, bufferVars, seqVars, lakeVars,
                  TxType, BufferType, SeqType, LakeType
    <2>3. QED
      BY <2>1, <2>2
  <1>6. CASE EnqueueSquashFails(o)
    <2>1. ClientType' /\ LockType'
      BY <1>4, <1>6 DEF EnqueueSquashFails
    <2>2. TxType'
      BY <1>1, <1>6, UpsertTxType DEF EnqueueSquashFails
    <2>3. BufferType' /\ SeqType' /\ LakeType'
      BY <1>6 DEF EnqueueSquashFails, bufferVars, seqVars, lakeVars,
                  BufferType, SeqType, LakeType
    <2>4. faults' \in 0..MaxFaults
      BY <1>6, FaultType DEF EnqueueSquashFails
    <2>5. QED
      BY <2>1, <2>2, <2>3, <2>4
  <1>7. QED
    BY <1>3, <1>5, <1>6 DEF Handler

\* flush_ready picks tables of the buffer.
LEMMA FlushReadyType ==
    ASSUME BufferType
    PROVE  FlushReady \subseteq Urls
  <1>1. \A i \in DOMAIN queue : queue[i] \in Urls
    BY DEF BufferType
  <1>2. queue # <<>> => Head(queue) \in Urls
    BY DEF BufferType
  <1>3. QED
    BY <1>1, <1>2 DEF FlushReady, FirstFull

\* The steps of a flush.
LEMMA FlushStepType ==
    ASSUME TypeOK, Flush
    PROVE  TypeOK'
  <1> USE DEF TypeOK
  <1>1. CASE FlushLoad
    <2>1. PICK u \in Urls : /\ flushUrl' = u
                            /\ flushInfo' = info[u]
                            /\ exists' = [exists EXCEPT ![u] = TRUE]
      BY <1>1, FlushReadyType DEF FlushLoad, CreateTable, TableSequence
    <2>2. LockType'
      BY <1>1, <2>1 DEF FlushLoad, LockType, LakeType
    <2>3. LakeType'
      <3>1. exists' \in [Urls -> BOOLEAN]
        BY <2>1 DEF LakeType
      <3>2. QED
        BY <1>1, <3>1 DEF FlushLoad, LakeType
    <2>4. TxType' /\ BufferType' /\ SeqType' /\ ClientType' /\ faults' = faults
      BY <1>1 DEF FlushLoad, txVars, bufferVars, seqVars, clientVars,
                  TxType, BufferType, SeqType, ClientType
    <2>5. QED
      BY <2>2, <2>3, <2>4
  <1>2. CASE FlushSkipAll
    <2>1. BufferType'
      BY <1>2, RemoveSyncType DEF FlushSkipAll, LockType
    <2>2. LockType'
      BY <1>2 DEF FlushSkipAll, LockType
    <2>3. /\ TxType' /\ SeqType' /\ ClientType' /\ LakeType'
          /\ faults' = faults
      BY <1>2 DEF FlushSkipAll, txVars, seqVars, clientVars, lakeVars,
                  TxType, SeqType, ClientType, LakeType
    <2>4. QED
      BY <2>1, <2>2, <2>3
  <1>3. CASE FlushCommit
    <2>0. flushUrl \in Urls
      BY <1>3 DEF FlushCommit, LockType
    <2>1. BufferType'
      BY <1>3, <2>0, RemoveSyncType DEF FlushCommit
    <2>2. LockType'
      BY <1>3 DEF FlushCommit, LockType
    <2>3. TxType' /\ SeqType'
      BY <1>3, <2>0, AdvanceDurableType DEF FlushCommit
    <2>4. LakeType'
      BY <1>3, <2>0, CommitSyncsType DEF FlushCommit
    <2>5. ClientType' /\ faults' = faults
      BY <1>3 DEF FlushCommit, clientVars, ClientType
    <2>6. QED
      BY <2>1, <2>2, <2>3, <2>4, <2>5
  <1>4. CASE FlushEnd
    <2>1. LockType'
      BY <1>4, DistinctAssumption DEF DistinctAssumption, FlushEnd, LockType
    <2>2. ClientType'
      <3>1. CASE holder = FlushTask
        BY <1>4, <3>1 DEF FlushEnd, ClientType, clientVars
      <3>2. CASE holder # FlushTask
        <4>1. holder \in Origins /\ req[holder].phase # "idle"
          BY <1>4, <3>2 DEF FlushEnd, LockType
        <4>2. QED
          BY <1>4, <3>2, <4>1, RespondType DEF FlushEnd, SeqType
      <3>3. QED
        BY <3>1, <3>2
    <2>3. TxType' /\ BufferType' /\ SeqType' /\ LakeType' /\ faults' = faults
      BY <1>4 DEF FlushEnd, txVars, bufferVars, seqVars, lakeVars,
                  TxType, BufferType, SeqType, LakeType
    <2>4. QED
      BY <2>1, <2>2, <2>3
  <1>5. QED
    BY <1>1, <1>2, <1>3, <1>4 DEF Flush

\* Giving the lock up keeps the types of everything but the tables.
LEMMA AbandonType ==
    ASSUME TypeOK, Abandon
    PROVE  TxType' /\ BufferType' /\ SeqType' /\ LockType' /\ ClientType'
  <1> USE DEF TypeOK
  <1>1. req' \in [Origins -> Request]
    BY DEF Abandon, ClientType, Request, Idle
  <1>2. \A o \in Origins : req'[o] = req[o] \/ req'[o].phase = "idle"
    BY DEF Abandon, Idle
  <1>3. ClientType'
    BY <1>1, <1>2 DEF Abandon, ClientType, clientVars
  <1>4. LockType'
    BY DistinctAssumption DEF DistinctAssumption, Abandon, LockType
  <1>5. TxType' /\ BufferType' /\ SeqType'
    BY DEF Abandon, txVars, bufferVars, seqVars, TxType, BufferType, SeqType
  <1>6. QED
    BY <1>3, <1>4, <1>5

\* A flush that fails or is dropped.
LEMMA FlushBrokenStepType ==
    ASSUME TypeOK, FlushBroken
    PROVE  TypeOK'
  <1>1. Abandon /\ \E kind : Fault(kind)
    BY DEF FlushBroken, FlushFails, FlushCommitLost, ResponseDropped
  <1>2. TxType' /\ BufferType' /\ SeqType' /\ LockType' /\ ClientType'
    BY <1>1, AbandonType
  <1>3. faults' \in 0..MaxFaults
    BY <1>1, FaultType DEF TypeOK
  <1>4. CASE UNCHANGED lakeVars
    BY <1>2, <1>3, <1>4 DEF TypeOK, LakeType, lakeVars
  <1>5. CASE flushUrl # NoUrl /\ CommitSyncs(flushUrl)
    BY <1>2, <1>3, <1>5, CommitSyncsType DEF TypeOK, LockType
  <1>6. QED
    BY <1>4, <1>5 DEF FlushBroken, FlushFails, FlushCommitLost, ResponseDropped

\* A restart.
LEMMA CrashType ==
    ASSUME TypeOK, Crash
    PROVE  TypeOK'
  <1> USE DEF TypeOK
  <1>1. TxType'
    BY DEF Crash, TxType
  <1>2. BufferType'
    <2>1. NoSyncs \in [size : Nat, items : Seq(Item)]
      BY DEF NoSyncs
    <2>2. syncs' \in [Urls -> [size : Nat, items : Seq(Item)]]
      BY <2>1 DEF Crash
    <2>3. queue' \in Seq(Urls) /\ size' \in Int
      BY DEF Crash
    <2>4. aged' \in BOOLEAN
      BY DEF Crash
    <2>5. QED
      BY <2>2, <2>3, <2>4 DEF BufferType
  <1>3. SeqType'
    <2>1. /\ origin_memory' \in [Origins -> Nat \cup {NoSeq}]
          /\ origin_durable' \in [Origins -> Nat \cup {NoSeq}]
      BY DEF Crash
    <2>2. \A o \in Origins : origin_memory'[o] = NoSeq /\ origin_durable'[o] = NoSeq
      BY DEF Crash
    <2>3. QED
      BY <2>1, <2>2, NoSeqInSeqNums DEF SeqType
  <1>4. LockType'
    BY DistinctAssumption DEF DistinctAssumption, Crash, LockType
  <1>5. ClientType'
    <2>1. req' \in [Origins -> Request]
      BY DEF Crash, Request, Idle
    <2>2. \A o \in Origins : req'[o].phase = "idle"
      BY DEF Crash, Idle
    <2>3. synced' \in [Origins -> BOOLEAN]
      BY ConstantsAssumption, Zenon DEF ConstantsAssumption, Crash
    <2>4. first_sync' \in BOOLEAN
      BY DEF Crash
    <2>5. next' = next /\ known' = known
      BY DEF Crash
    <2>6. QED
      BY <2>1, <2>2, <2>3, <2>4, <2>5 DEF ClientType
  <1>6. LakeType'
    <2>1. CASE UNCHANGED lakeVars
      BY <2>1 DEF LakeType, lakeVars
    <2>2. CASE flushUrl # NoUrl /\ CommitSyncs(flushUrl)
      BY <2>2, CommitSyncsType DEF LockType
    <2>3. QED
      BY <2>1, <2>2 DEF Crash
  <1>7. faults' \in 0..MaxFaults
    BY FaultType DEF Crash
  <1>8. QED
    BY <1>1, <1>2, <1>3, <1>4, <1>5, <1>6, <1>7

\* Every step keeps the type.
LEMMA StepType == TypeOK /\ [Next]_vars => TypeOK'
  <1> SUFFICES ASSUME TypeOK, [Next]_vars PROVE TypeOK'
    OBVIOUS
  <1>1. CASE \E o \in Origins : Client(o) \/ Handler(o)
    BY <1>1, ClientStepType, HandlerStepType
  <1>2. CASE FlushTaskTick
    <2>1. LockType'
      BY <1>2, DistinctAssumption
         DEF DistinctAssumption, FlushTaskTick, TypeOK, LockType
    <2>2. /\ TxType' /\ BufferType' /\ SeqType' /\ ClientType' /\ LakeType'
          /\ faults' = faults
      BY <1>2 DEF FlushTaskTick, TypeOK, txVars, bufferVars, seqVars,
                  clientVars, lakeVars, TxType, BufferType, SeqType,
                  ClientType, LakeType
    <2>3. QED
      BY <2>1, <2>2 DEF TypeOK
  <1>3. CASE Flush
    BY <1>3, FlushStepType
  <1>4. CASE FlushBroken
    BY <1>4, FlushBrokenStepType
  <1>5. CASE Age
    <2>1. BufferType'
      BY <1>5 DEF Age, TypeOK, BufferType
    <2>2. /\ TxType' /\ SeqType' /\ LockType' /\ ClientType' /\ LakeType'
          /\ faults' = faults
      BY <1>5 DEF Age, TypeOK, txVars, seqVars, lockVars, clientVars,
                  lakeVars, TxType, SeqType, LockType, ClientType, LakeType
    <2>3. QED
      BY <2>1, <2>2 DEF TypeOK
  <1>6. CASE \E u \in Urls : ForeignCommit(u)
    <2>1. PICK u \in Urls : ForeignCommit(u)
      BY <1>6
    <2>2. LakeType'
      BY <2>1 DEF ForeignCommit, TypeOK, LakeType
    <2>3. TxType' /\ BufferType' /\ SeqType' /\ LockType' /\ ClientType'
      BY <2>1 DEF ForeignCommit, TypeOK, txVars, bufferVars, seqVars,
                  lockVars, clientVars, TxType, BufferType, SeqType,
                  LockType, ClientType
    <2>4. faults' \in 0..MaxFaults
      BY <2>1, FaultType DEF ForeignCommit, TypeOK
    <2>5. QED
      BY <2>2, <2>3, <2>4 DEF TypeOK
  <1>7. CASE Crash
    BY <1>7, CrashType
  <1>8. CASE UNCHANGED vars
    BY <1>8 DEF vars, txVars, bufferVars, seqVars, lockVars, clientVars,
                lakeVars, TypeOK, TxType, BufferType, SeqType, LockType,
                ClientType, LakeType
  <1>9. QED
    BY <1>1, <1>2, <1>3, <1>4, <1>5, <1>6, <1>7, <1>8 DEF Next

\* The type invariant holds: whatever the clients send and whatever fails, the
\* sequence numbers the writer keeps are those of the streams, and a request
\* or a resumed client never runs past the end of its stream.
THEOREM TypeCorrect == Spec => []TypeOK
  <1>1. QED
    BY InitType, StepType, PTL DEF Spec

(***************************************************************************)
(* Buffered messages and their transactions.                               *)
(***************************************************************************)

\* A transaction that is merged into keeps its locations and gets the
\* message's table; the others stay as they are.
LEMMA UpsertTxLocations ==
    ASSUME TxType, NEW o \in Origins, NEW i \in 1..Len(Script[o]),
           NEW t \in PendingTx \cup {nextTx}, UpsertTx(o, Script[o][i], t)
    PROVE  /\ DOMAIN txs \subseteq DOMAIN txs'
           /\ \A x \in DOMAIN txs : txs[x].locations \subseteq txs'[x].locations
           /\ Script[o][i].size > 0 =>
                 t \in DOMAIN txs' /\ Script[o][i].url \in txs'[t].locations
  <1> DEFINE m == Script[o][i]
  <1>0. m.size \in Nat
    BY MessageType
  <1> HIDE DEF m
  <1>1. CASE /\ t \in PendingTx
             /\ txs' = [txs EXCEPT
                    ![t].sequence = IF m.seq = NoSeq THEN @ ELSE m.seq,
                    ![t].locations = IF m.size > 0 THEN @ \cup {m.url} ELSE @]
    <2>1. t \in DOMAIN txs /\ txs[t] \in Transaction
      BY <1>1 DEF PendingTx, TxType
    <2>2. DOMAIN txs' = DOMAIN txs /\ \A x \in DOMAIN txs : x # t => txs'[x] = txs[x]
      BY <1>1
    <2>3. /\ txs[t].locations \subseteq txs'[t].locations
          /\ m.size > 0 => m.url \in txs'[t].locations
      BY <1>1, <2>1 DEF Transaction
    <2>4. QED
      BY <2>1, <2>2, <2>3 DEF m
  <1>2. CASE /\ t = nextTx
             /\ txs' = [x \in DOMAIN txs \cup {t} |->
                    IF x = t THEN [origin |-> o, sequence |-> m.seq,
                                   locations |-> {m.url}]
                             ELSE txs[x]]
    <2>1. t \notin DOMAIN txs
      BY <1>2 DEF TxType
    <2>2. QED
      BY <1>2, <2>1 DEF m
  <1>3. QED
    BY <1>1, <1>2 DEF UpsertTx, m

\* Whatever a step removes from the map of transactions has nothing buffered.
LEMMA AdvanceDurableTracked ==
    ASSUME TxType, NEW u \in Urls, NEW ids,
           AdvanceDurable(RemoveTxLocations(txs, u, ids)),
           NEW t \in DOMAIN txs, NEW v \in txs[t].locations, v # u
    PROVE  t \in DOMAIN txs' /\ v \in txs'[t].locations
  <1> DEFINE ts == RemoveTxLocations(txs, u, ids)
  <1>0. txs[t] \in Transaction /\ t \in Nat
    BY DEF TxType
  <1>1. DOMAIN ts = DOMAIN txs /\ v \in ts[t].locations
    BY <1>0 DEF RemoveTxLocations, Transaction
  <1>2. t \notin DurableTxs(ts)
    <2>1. ts[t].locations # {}
      BY <1>1
    <2> HIDE DEF ts
    <2>2. t <= t
      BY <1>0
    <2>3. QED
      BY <2>1, <2>2, <1>1 DEF DurableTxs
  <1>3. txs' = [x \in DOMAIN ts \ DurableTxs(ts) |-> ts[x]]
    BY DEF AdvanceDurable
  <1> HIDE DEF ts
  <1>4. QED
    BY <1>1, <1>2, <1>3

\* Every step keeps buffered messages in tracked transactions.
LEMMA StepTracked ==
    ASSUME TypeOK, PendingTxTracked, [Next]_vars
    PROVE  PendingTxTracked'
  <1> USE DEF TypeOK
  <1> DEFINE Tracked(u, k) == /\ syncs[u].items[k].tx \in DOMAIN txs
                              /\ u \in txs[syncs[u].items[k].tx].locations
  <1>0. \A u \in Urls : \A k \in DOMAIN syncs[u].items : Tracked(u, k)
    BY DEF PendingTxTracked
  \* Steps that leave the buffer alone and take nothing from a transaction.
  <1> DEFINE Grows ==
               /\ DOMAIN txs \subseteq DOMAIN txs'
               /\ \A x \in DOMAIN txs : txs[x].locations \subseteq txs'[x].locations
  <1>1. ASSUME syncs' = syncs, Grows
        PROVE  PendingTxTracked'
    BY <1>0, <1>1 DEF PendingTxTracked
  <1>2. ASSUME syncs' = syncs, txs' = txs
        PROVE  PendingTxTracked'
    BY <1>1, <1>2
  <1>3. ASSUME NEW o \in Origins, Enqueue(o)
        PROVE  PendingTxTracked'
    <2> DEFINE m == Script[o][next[o]]
    <2>1. next[o] \in 1..Len(Script[o]) /\ m.url \in Urls
      BY <1>3, MessageType DEF Enqueue, Waiting, ClientType
    <2>2. PICK t \in PendingTx \cup {nextTx} :
            /\ UpsertTx(o, m, t)
            /\ IF m.size > 0
               THEN PushItem(m.url, [tx |-> t, origin |-> o, pos |-> next[o],
                                     size |-> m.size])
               ELSE UNCHANGED bufferVars
      BY <1>3 DEF Enqueue
    <2>3. /\ Grows
          /\ m.size > 0 => t \in DOMAIN txs' /\ m.url \in txs'[t].locations
      BY <2>1, <2>2, UpsertTxLocations
    <2> HIDE DEF m
    <2>4. CASE ~(m.size > 0)
      BY <1>1, <2>2, <2>3, <2>4 DEF bufferVars
    <2>5. CASE m.size > 0
      <3> DEFINE item == [tx |-> t, origin |-> o, pos |-> next[o], size |-> m.size]
      <3>1. syncs' = [syncs EXCEPT ![m.url].size = @ + item.size,
                                   ![m.url].items = Append(@, item)]
        BY <2>2, <2>5 DEF PushItem
      <3>2. \A u \in Urls : u # m.url => syncs'[u].items = syncs[u].items
        BY <3>1 DEF BufferType
      <3>3. syncs'[m.url].items = Append(syncs[m.url].items, item)
        BY <2>1, <3>1 DEF BufferType
      <3>4. syncs[m.url].items \in Seq(Item)
        BY <2>1 DEF BufferType
      <3> HIDE DEF item
      <3>5. \A k \in DOMAIN syncs'[m.url].items :
              \/ k \in DOMAIN syncs[m.url].items
                    /\ syncs'[m.url].items[k] = syncs[m.url].items[k]
              \/ syncs'[m.url].items[k] = item
        BY <3>3, <3>4
      <3>6. item.tx = t
        BY DEF item
      <3>7. ASSUME NEW u \in Urls, NEW k \in DOMAIN syncs'[u].items
            PROVE  /\ syncs'[u].items[k].tx \in DOMAIN txs'
                   /\ u \in txs'[syncs'[u].items[k].tx].locations
        <4>1. CASE /\ k \in DOMAIN syncs[u].items
                   /\ syncs'[u].items[k] = syncs[u].items[k]
          <5>1. Tracked(u, k)
            BY <1>0, <4>1
          <5>2. QED
            BY <2>3, <4>1, <5>1
        <4>2. CASE u = m.url /\ syncs'[u].items[k] = item
          BY <2>3, <2>5, <3>6, <4>2
        <4>3. QED
          BY <3>2, <3>5, <4>1, <4>2
      <3>8. QED
        BY <3>7 DEF PendingTxTracked
    <2>6. QED
      BY <2>4, <2>5
  <1>4. ASSUME NEW o \in Origins, EnqueueSquashFails(o)
        PROVE  PendingTxTracked'
    <2>1. next[o] \in 1..Len(Script[o])
      BY <1>4 DEF EnqueueSquashFails, Waiting, ClientType
    <2>2. Grows
      BY <1>4, <2>1, UpsertTxLocations DEF EnqueueSquashFails
    <2>3. QED
      BY <1>1, <1>4, <2>2 DEF EnqueueSquashFails, bufferVars
  \* A flushed table has no items left.
  <1>5. ASSUME NEW u \in Urls, RemoveSync(u)
        PROVE  /\ syncs'[u].items = <<>>
               /\ \A v \in Urls : v # u => syncs'[v].items = syncs[v].items
    BY <1>5 DEF RemoveSync, BufferType, NoSyncs
  <1>6. CASE FlushSkipAll
    BY <1>0, <1>5, <1>6 DEF FlushSkipAll, LockType, txVars, PendingTxTracked
  <1>7. CASE FlushCommit
    <2>0. flushUrl \in Urls /\ RemoveSync(flushUrl)
      BY <1>7 DEF FlushCommit, LockType
    <2>1. ASSUME NEW v \in Urls, NEW k \in DOMAIN syncs'[v].items
          PROVE  /\ syncs'[v].items[k].tx \in DOMAIN txs'
                 /\ v \in txs'[syncs'[v].items[k].tx].locations
      <3>1. v # flushUrl /\ syncs'[v].items = syncs[v].items
        BY <1>5, <2>0, <2>1
      <3>2. Tracked(v, k)
        BY <1>0, <3>1
      <3>3. QED
        BY <1>7, <2>0, <3>1, <3>2, AdvanceDurableTracked DEF FlushCommit
    <2>2. QED
      BY <2>1 DEF PendingTxTracked
  <1>8. CASE Crash
    BY <1>8 DEF Crash, NoSyncs, PendingTxTracked
  <1>9. CASE \E o \in Origins : Client(o) \/ Handler(o)
    BY <1>2, <1>3, <1>4, <1>9 DEF Client, Handler, Send, StoreFirst, Probe,
         LockTimeout, EnqueueRejected, bufferVars, txVars
  <1>10. CASE FlushTaskTick \/ FlushLoad \/ FlushEnd \/ Age
    BY <1>2, <1>10 DEF FlushTaskTick, FlushLoad, FlushEnd, Age, bufferVars, txVars
  <1>11. CASE FlushBroken
    BY <1>2, <1>11 DEF FlushBroken, FlushFails, FlushCommitLost,
         ResponseDropped, Abandon, bufferVars, txVars
  <1>12. CASE \E u \in Urls : ForeignCommit(u)
    BY <1>2, <1>12 DEF ForeignCommit, bufferVars, txVars
  <1>13. CASE UNCHANGED vars
    BY <1>2, <1>13 DEF vars, bufferVars, txVars
  <1>14. QED
    BY <1>6, <1>7, <1>8, <1>9, <1>10, <1>11, <1>12, <1>13 DEF Next, Flush

\* Every buffered message belongs to a transaction in the map that has its
\* table among its locations, whatever the clients send and whatever fails:
\* skip_syncs never panics on a missing transaction, and advance_durable never
\* declares a transaction durable whose rows are still in memory.
THEOREM PendingTxAlwaysTracked == Spec => []PendingTxTracked
  <1>1. Init => PendingTxTracked
    BY DEF Init, NoSyncs, PendingTxTracked
  <1>2. TypeOK /\ PendingTxTracked /\ [Next]_vars => PendingTxTracked'
    BY StepTracked
  <1>3. QED
    BY <1>1, <1>2, TypeCorrect, PTL DEF Spec

----------------------------------------------------------------------------
(***************************************************************************)
(* The buffer's order and size.                                            *)
(***************************************************************************)

Sizes == [u \in Urls |-> syncs[u].size]

Queued(u) == \E i \in DOMAIN queue : queue[i] = u

\* The order of the collections and their total size agree with the
\* collections; one without messages has no size.
BufferInv ==
    /\ \A u \in Urls : Queued(u) <=> syncs[u].items # <<>>
    /\ \A i, j \in DOMAIN queue : queue[i] = queue[j] => i = j
    /\ \A u \in Urls : syncs[u].items = <<>> => syncs[u].size = 0
    /\ size = SumFunction(Sizes)

\* The invariant is what BufferAccounted asks for: a buffer without messages
\* is empty, hence below the limit.
LEMMA BufferInvAccounted ==
    ASSUME IsFiniteSet(Urls), BufferType, BufferInv
    PROVE  BufferAccounted
  <1>1. Sizes \in [Urls -> Nat]
    BY DEF BufferType, Sizes
  <1>2. size >= MaxInMemory => queue # <<>>
    <2>1. SUFFICES ASSUME queue = <<>> PROVE size = 0
      BY ConstantsAssumption DEF ConstantsAssumption
    <2>2. \A u \in Urls : ~Queued(u)
      BY <2>1 DEF Queued
    <2>3. \A u \in Urls : Sizes[u] = 0
      BY <2>2 DEF BufferInv, Sizes
    <2>4. SumFunction(Sizes) = 0
      BY <1>1, <2>3, SumFunctionFacts
    <2>5. QED
      BY <2>4 DEF BufferInv
  <1>3. QED
    BY <1>2 DEF BufferAccounted, BufferInv, Queued, Sizes

\* An empty buffer.
LEMMA EmptyAccounted ==
    ASSUME IsFiniteSet(Urls)
    PROVE  /\ queue = <<>> /\ syncs = [u \in Urls |-> NoSyncs] /\ size = 0 => BufferInv
           /\ queue' = <<>> /\ syncs' = [u \in Urls |-> NoSyncs] /\ size' = 0 => BufferInv'
  <1> DEFINE zero == [u \in Urls |-> 0]
  <1>1. SumFunction(zero) = 0
    <2>1. zero \in [Urls -> Nat] /\ \A u \in Urls : zero[u] = 0
      OBVIOUS
    <2> HIDE DEF zero
    <2>2. QED
      BY <2>1, SumFunctionFacts
  <1>2. ASSUME queue = <<>>, syncs = [u \in Urls |-> NoSyncs], size = 0
        PROVE  BufferInv
    <2>1. Sizes = zero
      BY <1>2 DEF Sizes, NoSyncs
    <2>2. \A u \in Urls : syncs[u].items = <<>> /\ syncs[u].size = 0
      BY <1>2 DEF NoSyncs
    <2>3. \A u \in Urls : ~Queued(u)
      BY <1>2 DEF Queued
    <2>4. \A i, j \in DOMAIN queue : queue[i] = queue[j] => i = j
      BY <1>2
    <2> HIDE DEF zero
    <2>5. QED
      BY <1>1, <1>2, <2>1, <2>2, <2>3, <2>4 DEF BufferInv
  <1>3. ASSUME queue' = <<>>, syncs' = [u \in Urls |-> NoSyncs], size' = 0
        PROVE  BufferInv'
    <2>1. Sizes' = zero
      BY <1>3 DEF Sizes, NoSyncs
    <2>2. \A u \in Urls : syncs'[u].items = <<>> /\ syncs'[u].size = 0
      BY <1>3 DEF NoSyncs
    <2>3. \A u \in Urls : ~Queued(u)'
      BY <1>3 DEF Queued
    <2>4. \A i, j \in DOMAIN queue' : queue'[i] = queue'[j] => i = j
      BY <1>3
    <2> HIDE DEF zero
    <2>5. QED
      BY <1>1, <1>3, <2>1, <2>2, <2>3, <2>4 DEF BufferInv
  <1>4. QED
    BY <1>2, <1>3

\* When one collection changes and the total by as much, they still agree.
LEMMA TotalAccounted ==
    ASSUME IsFiniteSet(Urls), BufferType, BufferType', NEW u \in Urls,
           size = SumFunction(Sizes),
           \A v \in Urls \ {u} : syncs'[v].size = syncs[v].size,
           size' + syncs[u].size = size + syncs'[u].size
    PROVE  size' = SumFunction(Sizes')
  <1>1. Sizes \in [Urls -> Nat] /\ Sizes' \in [Urls -> Nat]
    BY DEF BufferType, Sizes
  <1>2. \A v \in Urls \ {u} : Sizes'[v] = Sizes[v]
    BY DEF Sizes
  <1>3. SumFunction(Sizes') + Sizes[u] = SumFunction(Sizes) + Sizes'[u]
    <2>1. PICK f \in [Urls -> Nat], h \in [Urls -> Nat] : f = Sizes /\ h = Sizes'
      BY <1>1
    <2>2. \A x \in Urls \ {u} : h[x] = f[x]
      BY <1>2, <2>1
    <2>3. SumFunction(h) + f[u] = SumFunction(f) + h[u]
      BY <2>2, SumFunctionFacts
    <2>4. QED
      BY <2>1, <2>3
  <1>4. SumFunction(Sizes) \in Nat /\ SumFunction(Sizes') \in Nat
    BY <1>1, SumFunctionFacts
  <1>5. Sizes[u] = syncs[u].size /\ Sizes'[u] = syncs'[u].size
    BY DEF Sizes
  <1>6. size' \in Int /\ syncs[u].size \in Nat /\ syncs'[u].size \in Nat
    BY DEF BufferType
  <1>7. QED
    BY <1>3, <1>4, <1>5, <1>6

\* enqueue_sync queues a table with its first message.
LEMMA PushAccounted ==
    ASSUME IsFiniteSet(Urls), BufferType, BufferType', BufferInv, NEW u \in Urls,
           NEW item \in Item, PushItem(u, item)
    PROVE  BufferInv'
  <1>1. /\ queue \in Seq(Urls) /\ size \in Int /\ item.size \in Nat
        /\ syncs[u].size \in Nat /\ syncs[u].items \in Seq(Item)
    BY DEF BufferType, Item
  <1>2. /\ syncs'[u].size = syncs[u].size + item.size
        /\ syncs'[u].items = Append(syncs[u].items, item)
        /\ \A v \in Urls \ {u} : syncs'[v] = syncs[v]
    BY DEF PushItem, BufferType
  <1>3. syncs'[u].items # <<>>
    BY <1>1, <1>2
  <1>4. size' = SumFunction(Sizes')
    <2>1. size = SumFunction(Sizes)
      BY DEF BufferInv
    <2>2. size' + syncs[u].size = size + syncs'[u].size
      BY <1>1, <1>2 DEF PushItem
    <2>3. QED
      BY <1>2, <2>1, <2>2, TotalAccounted
  <1>5. CASE syncs[u].items # <<>>
    <2>1. queue' = queue
      BY <1>5 DEF PushItem
    <2>2. \A v \in Urls : Queued(v)' <=> Queued(v)
      BY <2>1 DEF Queued
    <2>3. QED
      BY <1>2, <1>3, <1>4, <1>5, <2>1, <2>2 DEF BufferInv
  <1>6. CASE syncs[u].items = <<>>
    <2>1. queue' = Append(queue, u) /\ ~Queued(u)
      BY <1>6 DEF PushItem, BufferInv
    <2>2. /\ Len(queue) \in Nat /\ DOMAIN queue = 1..Len(queue)
          /\ DOMAIN queue' = 1..(Len(queue) + 1) /\ queue'[Len(queue) + 1] = u
          /\ \A i \in 1..Len(queue) : queue'[i] = queue[i] /\ queue[i] # u
      BY <1>1, <2>1 DEF Queued
    <2>3. \A v \in Urls \ {u} : Queued(v)' <=> Queued(v)
      BY <2>2 DEF Queued
    <2>4. Queued(u)'
      BY <2>2 DEF Queued
    <2>5. \A i, j \in DOMAIN queue' : queue'[i] = queue'[j] => i = j
      <3>1. \A i, j \in 1..Len(queue) : queue[i] = queue[j] => i = j
        BY <2>2 DEF BufferInv
      <3>2. QED
        BY <2>2, <3>1
    <2>6. QED
      BY <1>2, <1>3, <1>4, <2>3, <2>4, <2>5 DEF BufferInv
  <1>7. QED
    BY <1>5, <1>6

\* Two sequences one after the other.
LEMMA ConcatFacts ==
    ASSUME NEW S, NEW a \in Seq(S), NEW b \in Seq(S), NEW c, c = a \o b
    PROVE  /\ Len(c) = Len(a) + Len(b) /\ DOMAIN c = 1..(Len(a) + Len(b))
           /\ \A k \in 1..Len(a) : c[k] = a[k]
           /\ \A k \in 1..Len(b) : c[Len(a) + k] = b[k]
  <1>1. Len(a) \in Nat /\ Len(b) \in Nat
    OBVIOUS
  <1>2. c \in Seq(S) /\ Len(c) = Len(a) + Len(b)
    OBVIOUS
  <1>3. DOMAIN c = 1..(Len(a) + Len(b))
    BY <1>2
  <1>4. QED
    BY <1>1, <1>2, <1>3

\* remove_sync takes out of the total what the collection had put in.
LEMMA RemoveAccounted ==
    ASSUME IsFiniteSet(Urls), BufferType, BufferType', BufferInv, NEW u \in Urls,
           RemoveSync(u)
    PROVE  BufferInv'
  <1>1. PICK i \in DOMAIN queue :
          /\ queue[i] = u
          /\ queue' = SubSeq(queue, 1, i - 1) \o SubSeq(queue, i + 1, Len(queue))
          /\ syncs' = [syncs EXCEPT ![u] = NoSyncs]
          /\ size' = size - syncs[u].size
    BY DEF RemoveSync
  <1>2. PICK n \in Nat : n = Len(queue) /\ DOMAIN queue = 1..n /\ i \in 1..n /\ queue \in Seq(Urls)
    <2>1. queue \in Seq(Urls)
      BY DEF BufferType
    <2>2. Len(queue) \in Nat /\ DOMAIN queue = 1..Len(queue)
      BY <2>1
    <2>3. QED
      BY <2>1, <2>2
  <1>3. PICK front, back :
          /\ front = SubSeq(queue, 1, i - 1) /\ back = SubSeq(queue, i + 1, n)
          /\ front \in Seq(Urls) /\ back \in Seq(Urls)
          /\ Len(front) = i - 1 /\ Len(back) = n - i
          /\ \A k \in 1..(i - 1) : front[k] = queue[k]
          /\ \A k \in 1..(n - i) : back[k] = queue[k + i]
    <2>1. PICK front : front = SubSeq(queue, 1, i - 1)
      OBVIOUS
    <2>2. PICK back : back = SubSeq(queue, i + 1, n)
      OBVIOUS
    <2>3. front \in Seq(Urls) /\ back \in Seq(Urls)
      BY <1>2, <2>1, <2>2
    <2>4. Len(front) = i - 1 /\ Len(back) = n - i
      BY <1>2, <2>1, <2>2
    <2>5. \A k \in 1..(i - 1) : front[k] = queue[k]
      BY <1>2, <2>1
    <2>6. \A k \in 1..(n - i) : back[k] = queue[k + i]
      <3>1. \A k \in 1..(n - i) : back[k] = queue[(i + 1) + k - 1]
        BY <1>2, <2>2
      <3>2. \A k \in 1..(n - i) : (i + 1) + k - 1 = k + i
        BY <1>2
      <3>3. QED
        BY <3>1, <3>2
    <2>7. QED
      BY <2>1, <2>2, <2>3, <2>4, <2>5, <2>6
  <1>30. Len(front) = i - 1 /\ Len(back) = n - i /\ i \in Int /\ n \in Int /\ 1 <= i /\ i <= n
    BY <1>2, <1>3
  <1>4. queue' = front \o back
    BY <1>1, <1>2, <1>3
  <1>5. /\ DOMAIN queue' = 1..(n - 1)
        /\ \A k \in 1..(i - 1) : queue'[k] = queue[k]
        /\ \A k \in i..(n - 1) : queue'[k] = queue[k + 1]
    <2>0. PICK q : q = front \o back
      OBVIOUS
    <2>1. Len(q) = n - 1 /\ DOMAIN q = 1..(n - 1) /\ q = queue'
      <3>1. Len(q) = Len(front) + Len(back) /\ DOMAIN q = 1..(Len(front) + Len(back))
        BY <1>3, <2>0, ConcatFacts
      <3>2. Len(front) + Len(back) = n - 1
        BY ONLY <1>30
      <3>3. QED
        BY <1>4, <2>0, <3>1, <3>2
    <2>2. \A k \in 1..(i - 1) : q[k] = queue[k]
      BY <1>3, <2>0, ConcatFacts
    <2>3. ASSUME NEW k \in i..(n - 1)
          PROVE  q[k] = queue[k + 1]
      <3>0. front \in Seq(Urls) /\ back \in Seq(Urls)
        BY <1>3
      <3>1. \A l \in 1..Len(back) : q[Len(front) + l] = back[l]
        BY ONLY <2>0, <3>0, ConcatFacts
      <3>2. k - (i - 1) \in 1..(n - i) /\ (k - (i - 1)) + i = k + 1
             /\ Len(front) + (k - (i - 1)) = k
        <4>1. k \in Int /\ i <= k /\ k <= n - 1
          BY ONLY <1>30, k \in i..(n - 1)
        <4>2. QED
          <5>1. PICK e \in Int : e = k - (i - 1)
            BY ONLY <1>30, <4>1
          <5>2. i \in Int /\ n \in Int
            BY ONLY <1>30
          <5>3. e + i = k + 1
            BY ONLY <4>1, <5>1, <5>2
          <5>4. 1 <= e /\ e <= n - i /\ (i - 1) + e = k
            BY ONLY <4>1, <5>2, <5>3
          <5>5. e \in 1..(n - i)
            BY ONLY <5>2, <5>4
          <5>6. QED
            BY ONLY <1>30, <5>1, <5>3, <5>4, <5>5
      <3>3. q[k] = back[k - (i - 1)]
        BY <1>3, <3>1, <3>2
      <3>4. QED
        BY <1>3, <3>2, <3>3
    <2>4. QED
      BY <2>1, <2>2, <2>3
  <1>6. \A k, l \in 1..n : queue[k] = queue[l] => k = l
    BY <1>2 DEF BufferInv
  <1>7. \A k, l \in DOMAIN queue' : queue'[k] = queue'[l] => k = l
    <2>1. SUFFICES ASSUME NEW k \in 1..(n - 1), NEW l \in 1..(n - 1), queue'[k] = queue'[l]
                   PROVE  k = l
      BY <1>5
    <2>2. PICK x \in 1..n : queue[x] = queue'[k] /\ x = IF k < i THEN k ELSE k + 1
      BY <1>5, <1>30
    <2>3. PICK y \in 1..n : queue[y] = queue'[l] /\ y = IF l < i THEN l ELSE l + 1
      BY <1>5, <1>30
    <2>4. x = y
      BY <1>6, <2>1, <2>2, <2>3
    <2>5. QED
      BY <1>30, <2>2, <2>3, <2>4
  <1>8. ~Queued(u)'
    <2>1. SUFFICES ASSUME NEW k \in 1..(n - 1), queue'[k] = u
                   PROVE  FALSE
      BY <1>5 DEF Queued
    <2>2. CASE k \in 1..(i - 1)
      BY <1>1, <1>2, <1>5, <1>6, <2>1, <2>2
    <2>3. CASE k \in i..(n - 1)
      <3>1. queue[k + 1] = u /\ k + 1 \in 1..n
        BY <1>2, <1>5, <2>1, <2>3
      <3>2. k + 1 = i
        BY <1>1, <1>2, <1>6, <3>1
      <3>3. QED
        BY <1>2, <2>3, <3>2
    <2>4. QED
      BY <1>2, <2>2, <2>3
  <1>9. ASSUME NEW v \in Urls \ {u}
        PROVE  Queued(v)' <=> Queued(v)
    <2>1. ASSUME Queued(v)' PROVE Queued(v)
      <3>1. PICK k \in 1..(n - 1) : queue'[k] = v
        BY <1>5, <2>1 DEF Queued
      <3>2. PICK x \in 1..n : queue[x] = queue'[k]
        BY <1>5, <1>30
      <3>3. QED
        BY <1>2, <3>1, <3>2 DEF Queued
    <2>2. ASSUME Queued(v) PROVE Queued(v)'
      <3>1. PICK k \in 1..n : queue[k] = v
        BY <1>2, <2>2 DEF Queued
      <3>2. k # i
        BY <1>1, <3>1
      <3>3. CASE k < i
        BY <1>2, <1>5, <3>1, <3>3 DEF Queued
      <3>4. CASE k > i
        <4>1. k - 1 \in i..(n - 1) /\ (k - 1) + 1 = k
          BY <1>2, <3>4
        <4>2. queue'[k - 1] = v /\ k - 1 \in DOMAIN queue'
          BY <1>2, <1>5, <3>1, <4>1
        <4>3. QED
          BY <4>2 DEF Queued
      <3>5. QED
        BY <1>2, <3>2, <3>3, <3>4
    <2>3. QED
      BY <2>1, <2>2
  <1>10. /\ syncs'[u].size = 0 /\ syncs'[u].items = <<>>
         /\ \A v \in Urls \ {u} : syncs'[v] = syncs[v]
    BY <1>1 DEF BufferType, NoSyncs
  <1>11. size' = SumFunction(Sizes')
    <2>1. size = SumFunction(Sizes)
      BY DEF BufferInv
    <2>2. size' + syncs[u].size = size + syncs'[u].size
      BY <1>1, <1>10 DEF BufferType
    <2>3. QED
      BY <1>10, <2>1, <2>2, TotalAccounted
  <1>12. QED
    BY <1>7, <1>8, <1>9, <1>10, <1>11 DEF BufferInv

\* Every step keeps the books of the buffer.
LEMMA StepAccounted ==
    ASSUME IsFiniteSet(Urls), TypeOK, BufferInv, [Next]_vars
    PROVE  BufferInv'
  <1>1. BufferType /\ BufferType'
    BY StepType DEF TypeOK
  <1>2. ASSUME UNCHANGED <<queue, syncs, size>>
        PROVE  BufferInv'
    BY <1>2 DEF BufferInv, Queued, Sizes
  <1>3. ASSUME NEW o \in Origins, Enqueue(o)
        PROVE  BufferInv'
    <2> DEFINE m == Script[o][next[o]]
    <2>1. next[o] \in 1..Len(Script[o]) /\ next[o] \in Nat /\ m.url \in Urls /\ m.size \in Nat
      BY <1>3, MessageType DEF Enqueue, Waiting, ClientType, TypeOK
    <2>2. PICK t \in PendingTx \cup {nextTx} :
            /\ UpsertTx(o, m, t)
            /\ IF m.size > 0
               THEN PushItem(m.url, [tx |-> t, origin |-> o, pos |-> next[o],
                                     size |-> m.size])
               ELSE UNCHANGED bufferVars
      BY <1>3 DEF Enqueue
    <2>3. t \in Nat
      BY <2>1, <2>2, UpsertTxType DEF TypeOK
    <2> HIDE DEF m
    <2>4. [tx |-> t, origin |-> o, pos |-> next[o], size |-> m.size] \in Item
      BY <2>1, <2>3 DEF Item
    <2>5. QED
      BY <1>1, <1>2, <2>1, <2>2, <2>4, PushAccounted DEF bufferVars
  <1>4. CASE FlushSkipAll \/ FlushCommit
    <2>1. flushUrl \in Urls /\ RemoveSync(flushUrl)
      BY <1>4 DEF FlushSkipAll, FlushCommit, TypeOK, LockType
    <2>2. QED
      BY <1>1, <2>1, RemoveAccounted
  <1>5. CASE Crash
    BY <1>5, EmptyAccounted DEF Crash
  <1>6. CASE \E o \in Origins : Client(o) \/ Handler(o)
    BY <1>2, <1>3, <1>6 DEF Client, Handler, Send, StoreFirst, Probe, LockTimeout,
         EnqueueRejected, EnqueueSquashFails, bufferVars
  <1>7. CASE FlushTaskTick \/ FlushLoad \/ FlushEnd \/ Age
    BY <1>2, <1>7 DEF FlushTaskTick, FlushLoad, FlushEnd, Age, bufferVars
  <1>8. CASE FlushBroken
    BY <1>2, <1>8 DEF FlushBroken, FlushFails, FlushCommitLost, ResponseDropped,
         Abandon, bufferVars
  <1>9. CASE \E u \in Urls : ForeignCommit(u)
    BY <1>2, <1>9 DEF ForeignCommit, bufferVars
  <1>10. CASE UNCHANGED vars
    BY <1>2, <1>10 DEF vars, bufferVars
  <1>11. QED
    BY <1>4, <1>5, <1>6, <1>7, <1>8, <1>9, <1>10 DEF Next, Flush

\* The order of the buffer and its total size agree with the collections,
\* whatever is received, flushed, lost or restarted: a table is queued once
\* while it has messages, remove_sync subtracts what was added, and the
\* size-based criterion of flush_ready never unwraps an empty buffer.
THEOREM BufferAlwaysAccounted ==
    ASSUME IsFiniteSet(Urls)
    PROVE  Spec => []BufferAccounted
  <1>1. Init => BufferInv
    BY EmptyAccounted DEF Init
  <1>2. TypeOK /\ BufferInv /\ [Next]_vars => BufferInv'
    BY StepAccounted
  <1>3. TypeOK /\ BufferInv => BufferAccounted
    BY BufferInvAccounted DEF TypeOK
  <1>4. QED
    BY <1>1, <1>2, <1>3, TypeCorrect, PTL DEF Spec

----------------------------------------------------------------------------
(***************************************************************************)
(* What the sequence numbers of the data sync writer mean: proofs of        *)
(* DurablePersisted, MemoryHeld and NoGaps, when no table has rows of two   *)
(* origins, clients probe a restarted server and squashing does not fail.   *)
(***************************************************************************)

\* Without any one of these the code does lose changes that it reports as
\* durable, or cannot know that a client skipped some.
OwnTables == OneOriginPerTable /\ ProbeFirst = TRUE /\ "squash" \notin Faults

----------------------------------------------------------------------------
(* The inductive invariant                                                 *)

Held(o, i, u) == Persisted(o, i, u) \/ Buffered(o, i, u)

\* Message i of o is in the first n items of the collection of u.
Among(o, i, u, n) ==
    \E k \in 1..n : /\ k \in DOMAIN syncs[u].items
                    /\ syncs[u].items[k].origin = o
                    /\ syncs[u].items[k].pos = i

\* A client knows about the last restart exactly when it has probed since, and
\* until then nothing of its origin is in memory.
Probing ==
    \A o \in Origins :
        /\ req[o].phase \in {"wait", "held"} => ~first_sync
        /\ synced[o] => ~first_sync /\ ~req[o].first
        /\ ~synced[o] => /\ req[o].phase = "idle" \/ req[o].probe
                         /\ \A t \in DOMAIN txs : txs[t].origin # o

\* An item is a message its client has sent, and belongs to the transaction
\* that it is filed under.
ItemLinked(item, u) ==
    /\ item.pos \in 1..Len(Script[item.origin])
    /\ item.pos <= next[item.origin]
    /\ Carries(item.origin, item.pos, u)
    /\ item.tx \in DOMAIN txs
    /\ txs[item.tx].origin = item.origin
    /\ txs[item.tx].sequence # NoSeq
          => item.pos \in UpTo(item.origin, txs[item.tx].sequence)

ItemsLinked ==
    \A u \in Urls : \A k \in DOMAIN syncs[u].items :
        ItemLinked(syncs[u].items[k], u)

\* A collection is in the order of its transactions.
ItemsOrdered ==
    \A u \in Urls : \A j, k \in DOMAIN syncs[u].items :
        j < k => syncs[u].items[j].tx <= syncs[u].items[k].tx

\* Only the last transaction is open, and sequence numbers follow the map.
TxsOrdered ==
    \A t1, t2 \in DOMAIN txs : t1 < t2 =>
        /\ txs[t1].sequence # NoSeq
        /\ txs[t1].origin = txs[t2].origin /\ txs[t2].sequence # NoSeq
              => txs[t1].sequence <= txs[t2].sequence

\* A sequence number in the map is that of a message its client has sent.
Sent(o, s) == \E p \in 1..Len(Script[o]) : p <= next[o] /\ Script[o][p].seq = s

SeqsSent ==
    \A t \in DOMAIN txs : txs[t].sequence # NoSeq
                            => Sent(txs[t].origin, txs[t].sequence)

\* Whatever a client has been told to be durable is persisted.
KnownPersisted ==
    \A o \in Origins : \A u \in Urls : \A i \in UpTo(o, known[o]) :
        Carries(o, i, u) => Persisted(o, i, u)

\* The client has passed message i, or is about to.
Passed(o, i) == i < next[o] \/ (i = next[o] /\ holder = o)

SentHeld ==
    \A o \in Origins : synced[o] =>
        \A u \in Urls : \A i \in 1..Len(Script[o]) :
            Passed(o, i) /\ Carries(o, i, u) => Held(o, i, u)

\* The rows of a complete transaction, and of all before it, are persisted or
\* in items of transactions that are not after it.
HeldBy(o, i, u, t) ==
    \/ Persisted(o, i, u)
    \/ \E k \in DOMAIN syncs[u].items : /\ syncs[u].items[k].origin = o
                                        /\ syncs[u].items[k].pos = i
                                        /\ syncs[u].items[k].tx <= t

TxsHeld ==
    \A t \in DOMAIN txs : txs[t].sequence # NoSeq =>
        \A u \in Urls : \A i \in UpTo(txs[t].origin, txs[t].sequence) :
            Carries(txs[t].origin, i, u) => HeldBy(txs[t].origin, i, u, t)

\* A commit info names a sequence number up to which the table is complete.
InfoPersisted(c, u) ==
    c # NoInfo =>
        \A i \in UpTo(c.origin, c.sequence) :
            Carries(c.origin, i, u) => Persisted(c.origin, i, u)

InfosPersisted ==
    /\ \A u \in Urls : InfoPersisted(info[u], u)
    /\ flushUrl # NoUrl => InfoPersisted(flushInfo, flushUrl)

\* No item is in the buffer without the earlier ones of its origin, in front of
\* it or in the table.
ItemsGapFree ==
    \A u \in Urls : \A k \in DOMAIN syncs[u].items :
        \A j \in 1..(syncs[u].items[k].pos - 1) :
            Carries(syncs[u].items[k].origin, j, u)
                => \/ Persisted(syncs[u].items[k].origin, j, u)
                   \/ Among(syncs[u].items[k].origin, j, u, k - 1)

SyncInv ==
    /\ Probing /\ ItemsLinked /\ ItemsOrdered /\ TxsOrdered /\ SeqsSent
    /\ KnownPersisted /\ SentHeld /\ TxsHeld /\ InfosPersisted
    /\ ItemsGapFree /\ DurablePersisted /\ MemoryHeld /\ NoGaps

----------------------------------------------------------------------------
(* Scripts                                                                 *)

\* The messages up to a sequence number are messages of the script.
LEMMA UpToRange ==
    ASSUME NEW o \in Origins, NEW s, NEW i \in UpTo(o, s)
    PROVE  i \in 1..Len(Script[o]) /\ i \in Nat
  BY ScriptLen DEF UpTo

\* No sequence number covers no message.
LEMMA UpToNone ==
    ASSUME NEW o \in Origins
    PROVE  UpTo(o, NoSeq) = {}
  <1>1. \A k \in 1..Len(Script[o]) : Script[o][k].seq # NoSeq => Script[o][k].seq \in Nat
    BY MessageType
  <1>2. QED
    BY <1>1, ScriptLen DEF UpTo, NoSeq

\* A larger sequence number covers more.
LEMMA UpToGrows ==
    ASSUME NEW o \in Origins, NEW s1 \in Int, NEW s2 \in Int, s1 <= s2
    PROVE  UpTo(o, s1) \subseteq UpTo(o, s2)
  <1>1. \A k \in 1..Len(Script[o]) : Script[o][k].seq # NoSeq => Script[o][k].seq \in Nat
    BY MessageType
  <1>2. QED
    BY <1>1, ScriptLen DEF UpTo

\* Sequence numbers increase along a script.
LEMMA SeqIncreases ==
    ASSUME NEW o \in Origins, NEW p \in 1..Len(Script[o]),
           NEW q \in 1..Len(Script[o]), p <= q,
           Script[o][p].seq # NoSeq, Script[o][q].seq # NoSeq
    PROVE  Script[o][p].seq <= Script[o][q].seq
  <1>1. Script[o][p].seq \in Nat /\ Script[o][q].seq \in Nat
    BY MessageType
  <1>2. CASE p = q
    BY <1>1, <1>2
  <1>3. CASE p # q
    <2>1. p < q
      BY <1>3, ScriptLen
    <2>2. Script[o][p].seq < Script[o][q].seq
      BY <2>1, ScriptAssumption DEF ScriptAssumption
    <2>3. QED
      BY <1>1, <2>2
  <1>4. QED
    BY <1>2, <1>3

\* The messages up to the sequence number of message p are those up to p.
LEMMA UpToMessage ==
    ASSUME NEW o \in Origins, NEW p \in 1..Len(Script[o]),
           Script[o][p].seq # NoSeq
    PROVE  UpTo(o, Script[o][p].seq) = 1..p
  <1> DEFINE s == Script[o][p].seq
  <1>0. Len(Script[o]) \in Nat
    BY ScriptLen
  <1>1. s \in Nat
    BY MessageType
  <1>2. ASSUME NEW i \in UpTo(o, s) PROVE i \in 1..p
    <2>1. PICK k \in i..Len(Script[o]) : Script[o][k].seq # NoSeq /\ Script[o][k].seq <= s
      BY DEF UpTo
    <2>2. i \in 1..Len(Script[o]) /\ k \in 1..Len(Script[o])
      BY <1>0, UpToRange
    <2>3. Script[o][k].seq \in Nat
      BY <2>1, <2>2, MessageType
    <2>4. k <= p
      <3>1. SUFFICES ASSUME p < k PROVE FALSE
        BY <2>2
      <3>2. Script[o][p].seq < Script[o][k].seq
        BY <2>1, <2>2, <3>1, ScriptAssumption DEF ScriptAssumption
      <3>3. QED
        BY <1>1, <2>1, <2>3, <3>2
    <2>5. QED
      BY <2>2, <2>4
  <1>3. ASSUME NEW i \in 1..p PROVE i \in UpTo(o, s)
    <2>1. i \in 1..Len(Script[o]) /\ p \in i..Len(Script[o])
      BY <1>0
    <2>2. s <= s
      BY <1>1
    <2>3. QED
      BY <2>1, <2>2 DEF UpTo
  <1>4. QED
    BY <1>2, <1>3

\* A table has messages of one origin only.
LEMMA OneOrigin ==
    ASSUME OwnTables, NEW u \in Urls, NEW o1 \in Origins, NEW o2 \in Origins,
           NEW i1 \in 1..Len(Script[o1]), NEW i2 \in 1..Len(Script[o2]),
           Carries(o1, i1, u), Carries(o2, i2, u)
    PROVE  o1 = o2
  BY DEF OwnTables, OneOriginPerTable

\* A client resumes behind the messages it knows to be durable.
LEMMA ResumeKnown ==
    ASSUME ClientType, NEW o \in Origins, NEW i \in 1..Len(Script[o]),
           i < Resume(o)
    PROVE  i \in UpTo(o, known[o])
  <1>1. known[o] # NoSeq
    BY ScriptLen DEF Resume
  <1>2. \E p \in 1..Len(Script[o]) : Script[o][p].seq = known[o]
    BY <1>1 DEF ClientType, SeqNums
  <1>3. PICK p \in 1..Len(Script[o]) : Script[o][p].seq = known[o] /\ Resume(o) = 1 + p
    BY <1>1, <1>2 DEF Resume
  <1>4. UpTo(o, known[o]) = 1..p
    BY <1>1, <1>3, UpToMessage
  <1>5. QED
    BY <1>3, <1>4, ScriptLen

----------------------------------------------------------------------------
(* Steps that leave the buffer, the transactions and the tables alone      *)

\* A client that has not probed since the restart has nothing in the buffer.
LEMMA NoItems ==
    ASSUME Probing, ItemsLinked, BufferType, NEW u \in Urls,
           NEW k \in DOMAIN syncs[u].items
    PROVE  /\ syncs[u].items[k].origin \in Origins
           /\ synced[syncs[u].items[k].origin]
  <1>1. syncs[u].items[k] \in Item
    BY DEF BufferType
  <1>2. syncs[u].items[k].origin \in Origins
    BY <1>1 DEF Item
  <1>3. QED
    BY <1>2 DEF Probing, ItemsLinked, ItemLinked

\* The parts of the invariant that do not mention the clients or the lock.
Stored == /\ ItemsOrdered /\ TxsOrdered /\ TxsHeld /\ ItemsGapFree
          /\ DurablePersisted /\ MemoryHeld /\ NoGaps

\* The tables keep what they have.
Grows == \A o, i : \A u \in Urls : Persisted(o, i, u) => Persisted(o, i, u)'

\* A step that commits nothing takes nothing from the tables.
LEMMA LakeUnchanged ==
    ASSUME NoGaps, UNCHANGED applied
    PROVE  Grows /\ NoGaps'
  BY DEF Grows, NoGaps, Persisted

\* What is stored stays stored when the tables only grow.
LEMMA StoredGrows ==
    ASSUME Stored, UNCHANGED <<txs, syncs, origin_durable, origin_memory>>,
           Grows, NoGaps'
    PROVE  Stored'
  <1>1. ItemsOrdered' /\ TxsOrdered'
    BY DEF Stored, ItemsOrdered, TxsOrdered
  <1>2. TxsHeld'
    <2>1. \A o, i, t : \A u \in Urls : HeldBy(o, i, u, t) => HeldBy(o, i, u, t)'
      BY DEF HeldBy, Grows
    <2>2. QED
      BY <2>1 DEF Stored, TxsHeld
  <1>3. ItemsGapFree'
    <2>1. \A o, i, u, n : Among(o, i, u, n)' <=> Among(o, i, u, n)
      BY DEF Among
    <2>2. QED
      BY <2>1 DEF Stored, ItemsGapFree, Grows
  <1>4. DurablePersisted'
    BY DEF Stored, DurablePersisted, Grows
  <1>5. MemoryHeld'
    <2>1. \A o, i, u : Buffered(o, i, u)' <=> Buffered(o, i, u)
      BY DEF Buffered
    <2>2. QED
      BY <2>1 DEF Stored, MemoryHeld, Grows
  <1>6. QED
    BY <1>1, <1>2, <1>3, <1>4, <1>5 DEF Stored

\* The parts that do.
Clients == ItemsLinked /\ SeqsSent /\ KnownPersisted /\ SentHeld

\* The conjuncts of the invariant, for citation.
LEMMA InvParts == SyncInv <=> Stored /\ Probing /\ Clients /\ InfosPersisted
  BY DEF SyncInv, Stored, Clients

\* Steps that do not move a client.
LEMMA ClientsGrow ==
    ASSUME Clients, UNCHANGED <<txs, syncs, next, known, synced>>, Grows,
           holder' \in {holder, Nobody, FlushTask}
    PROVE  Clients'
  <1>1. ItemsLinked' /\ SeqsSent'
    BY DEF Clients, ItemsLinked, ItemLinked, SeqsSent, Sent
  <1>2. KnownPersisted'
    BY DEF Clients, KnownPersisted, Grows
  <1>3. SentHeld'
    <2>1. \A o \in Origins : holder' = o => holder = o
      BY DistinctAssumption DEF DistinctAssumption
    <2>2. \A o \in Origins : \A i \in 1..Len(Script[o]) : Passed(o, i)' => Passed(o, i)
      BY <2>1 DEF Passed
    <2>3. \A o, i : \A u \in Urls : Held(o, i, u) => Held(o, i, u)'
      BY DEF Held, Grows, Buffered
    <2>4. QED
      BY <2>2, <2>3 DEF Clients, SentHeld
  <1>4. QED
    BY <1>1, <1>2, <1>3 DEF Clients

\* Steps that leave the clients alone, or end a request, keep Probing.
LEMMA ProbingUnchanged ==
    ASSUME Probing, UNCHANGED <<txs, first_sync, synced>>,
           \A o \in Origins : req'[o] \in {req[o], Idle}
    PROVE  Probing'
  BY DEF Probing, Idle

\* A request loads first_sync.
LEMMA SendProbing ==
    ASSUME TypeOK, Probing, NEW o \in Origins, Send(o)
    PROVE  Probing'
  <1>1. PICK probe \in BOOLEAN :
          /\ IF probe THEN ~synced[o] \/ Unconfirmed(o)
                      ELSE synced[o] /\ next[o] <= Len(Script[o])
          /\ req' = [req EXCEPT ![o] =
                       [phase |-> IF first_sync THEN "store" ELSE "wait",
                        probe |-> probe, first |-> first_sync]]
    BY DEF Send
  <1>2. UNCHANGED <<txs, first_sync, synced>>
    BY DEF Send, txVars, clientVars
  <1>3. \A o2 \in Origins : o2 # o => req'[o2] = req[o2]
    BY <1>1 DEF TypeOK, ClientType
  <1>4. /\ req'[o].phase = IF first_sync THEN "store" ELSE "wait"
        /\ req'[o].probe = probe
        /\ req'[o].first = first_sync
    BY <1>1 DEF TypeOK, ClientType
  <1>5. ~synced[o] => probe
    BY <1>1
  <1>6. QED
    BY <1>2, <1>3, <1>4, <1>5 DEF Probing

\* So does the store of first_sync.
LEMMA StoreFirstProbing ==
    ASSUME TypeOK, Probing, NEW o \in Origins, StoreFirst(o)
    PROVE  Probing'
  <1>1. /\ req[o].phase = "store"
        /\ first_sync' = FALSE
        /\ req' = [req EXCEPT ![o].phase = "wait"]
        /\ UNCHANGED <<txs, synced>>
    BY DEF StoreFirst, txVars, clientVars
  <1>2. \A o2 \in Origins : /\ req'[o2].probe = req[o2].probe
                             /\ req'[o2].first = req[o2].first
                             /\ req'[o2].phase = "idle" <=> req[o2].phase = "idle"
    BY <1>1 DEF TypeOK, ClientType, Request
  <1>3. QED
    BY <1>1, <1>2 DEF Probing

\* What a response does to a client that has probed since the last restart, and
\* to one that has not: then the response is that of a probe.
LEMMA RespondMoves ==
    ASSUME TypeOK, Probing, NEW o \in Origins, NEW accepted \in BOOLEAN, NEW dur,
           Respond(o, accepted, dur), req[o].phase # "idle"
    PROVE  /\ synced' = [synced EXCEPT ![o] = TRUE]
           /\ \A o2 \in Origins : o2 # o => next'[o2] = next[o2] /\ known'[o2] = known[o2]
           /\ synced[o] =>
                 /\ next'[o] = IF ~req[o].probe /\ accepted THEN next[o] + 1 ELSE next[o]
                 /\ known'[o] = IF dur = NoSeq THEN known[o] ELSE dur
           /\ ~synced[o] =>
                 /\ req[o].probe
                 /\ next'[o] = Resume(o)
                 /\ known'[o] = known[o]
  <1>1. next \in [Origins -> Nat \ {0}] /\ known \in [Origins -> Nat \cup {NoSeq}]
    BY DEF TypeOK, ClientType
  <1>2. synced[o] => ~req[o].first
    BY DEF Probing
  <1>3. ~synced[o] => req[o].probe
    BY DEF Probing
  <1>4. /\ synced' = [synced EXCEPT ![o] = TRUE]
        /\ next' = [next EXCEPT ![o] =
                      IF /\ req[o].first \/ ~synced[o]
                         /\ ~(~req[o].probe /\ accepted /\ next[o] = Resume(o))
                      THEN Resume(o)
                      ELSE IF ~req[o].probe /\ accepted THEN next[o] + 1 ELSE next[o]]
        /\ known' = IF req[o].first \/ ~synced[o] \/ dur = NoSeq THEN known
                    ELSE [known EXCEPT ![o] = dur]
    BY DEF Respond
  <1>5. \A o2 \in Origins : o2 # o => next'[o2] = next[o2] /\ known'[o2] = known[o2]
    BY <1>1, <1>4
  <1>6. CASE synced[o]
    BY <1>1, <1>2, <1>4, <1>5, <1>6
  <1>7. CASE ~synced[o]
    BY <1>1, <1>3, <1>4, <1>5, <1>7
  <1>8. QED
    BY <1>6, <1>7

\* So does a response.
LEMMA RespondProbing ==
    ASSUME TypeOK, Probing, NEW o \in Origins, NEW accepted, NEW dur,
           Respond(o, accepted, dur), req[o].phase \in {"wait", "held"},
           UNCHANGED <<txs, first_sync>>
    PROVE  Probing'
  <1>1. /\ req' = [req EXCEPT ![o] = Idle]
        /\ synced' = [synced EXCEPT ![o] = TRUE]
    BY DEF Respond
  <1>2. /\ req'[o] = Idle
        /\ synced'[o]
        /\ \A o2 \in Origins : o2 # o => req'[o2] = req[o2] /\ synced'[o2] = synced[o2]
    BY <1>1 DEF TypeOK, ClientType
  <1>3. ~first_sync
    BY DEF Probing
  <1>4. QED
    BY <1>2, <1>3 DEF Probing, Idle

\* A response tells the client what is stored, and moves it no further than that.
LEMMA RespondClients ==
    ASSUME TypeOK, Probing, Clients, DurablePersisted,
           NEW o \in Origins, NEW accepted \in BOOLEAN, NEW dur,
           Respond(o, accepted, dur), req[o].phase \in {"wait", "held"},
           dur \in {NoSeq, origin_durable[o]},
           ~req[o].probe /\ accepted => holder = o,
           \/ holder' = Nobody
           \/ holder' = holder /\ ~(~req[o].probe /\ accepted),
           UNCHANGED <<txs, syncs, applied, first_sync>>
    PROVE  Clients' /\ Probing'
  <1>0. req[o].phase # "idle"
    OBVIOUS
  <1>1. /\ synced' = [synced EXCEPT ![o] = TRUE]
        /\ \A o2 \in Origins : o2 # o => next'[o2] = next[o2] /\ known'[o2] = known[o2]
        /\ synced[o] =>
              /\ next'[o] = IF ~req[o].probe /\ accepted THEN next[o] + 1 ELSE next[o]
              /\ known'[o] = IF dur = NoSeq THEN known[o] ELSE dur
        /\ ~synced[o] =>
              /\ req[o].probe
              /\ next'[o] = Resume(o)
              /\ known'[o] = known[o]
    BY <1>0, RespondMoves
  <1>2. \A o2 \in Origins : /\ synced'[o2] = (synced[o2] \/ o2 = o)
                            /\ next[o2] \in Nat /\ Len(Script[o2]) \in Nat
    BY <1>1, ScriptLen DEF TypeOK, ClientType
  <1> DEFINE moves == ~req[o].probe /\ accepted
  <1>a. synced[o] => \/ moves /\ next'[o] = next[o] + 1
                     \/ ~moves /\ next'[o] = next[o]
    BY <1>1
  <1> HIDE DEF moves
  <1>b. synced[o] => next[o] <= next'[o] /\ next'[o] \in Nat
    BY <1>a, <1>2
  <1>c. ~synced[o] => next'[o] \in Nat
    BY <1>1, <1>2, ResumeType DEF TypeOK
  <1>3. \A o2 \in Origins : synced[o2] => next[o2] <= next'[o2]
    <2>1. \A o2 \in Origins : o2 # o => next'[o2] = next[o2]
      BY <1>1
    <2>2. \A o2 \in Origins : next[o2] <= next[o2]
      BY <1>2
    <2>3. QED
      BY <1>b, <2>1, <2>2
  <1>4. \A o2 \in Origins : next'[o2] \in Nat
    BY <1>1, <1>2, <1>b, <1>c
  <1>5. Probing'
    BY <1>1, RespondProbing
  <1>6. ItemsLinked'
    <2>1. ASSUME NEW u \in Urls, NEW k \in DOMAIN syncs[u].items
          PROVE  ItemLinked(syncs[u].items[k], u)'
      <3> DEFINE item == syncs[u].items[k]
      <3>1. item.origin \in Origins /\ synced[item.origin] /\ item \in Item
        BY NoItems DEF TypeOK, Clients, BufferType
      <3>2. ItemLinked(item, u)
        BY DEF Clients, ItemsLinked
      <3>3. item.pos <= next'[item.origin]
        BY <1>2, <1>3, <1>4, <3>1, <3>2 DEF ItemLinked, Item
      <3>4. QED
        BY <3>2, <3>3 DEF ItemLinked
    <2>2. QED
      BY <2>1 DEF ItemsLinked
  <1>7. SeqsSent'
    <2>1. ASSUME NEW t \in DOMAIN txs, txs[t].sequence # NoSeq
          PROVE  Sent(txs[t].origin, txs[t].sequence)'
      <3>1. txs[t].origin \in Origins
        BY DEF TypeOK, TxType, Transaction
      <3>2. synced[txs[t].origin]
        BY <3>1 DEF Probing
      <3>3. PICK p \in 1..Len(Script[txs[t].origin]) :
              p <= next[txs[t].origin] /\ Script[txs[t].origin][p].seq = txs[t].sequence
        BY <2>1 DEF Clients, SeqsSent, Sent
      <3>4. p <= next'[txs[t].origin]
        BY <1>2, <1>3, <1>4, <3>1, <3>2, <3>3
      <3>5. QED
        BY <3>3, <3>4 DEF Sent
    <2>2. QED
      BY <2>1 DEF SeqsSent
  <1>8. KnownPersisted'
    <2>1. ASSUME NEW o2 \in Origins, NEW u \in Urls, NEW i \in UpTo(o2, known'[o2]),
                 Carries(o2, i, u)
          PROVE  Persisted(o2, i, u)
      <3>1. CASE known'[o2] = known[o2]
        BY <2>1, <3>1 DEF Clients, KnownPersisted
      <3>2. CASE known'[o2] # known[o2]
        <4>1. o2 = o /\ known'[o2] = origin_durable[o]
          BY <1>1, <3>2
        <4>2. QED
          BY <2>1, <4>1 DEF DurablePersisted
      <3>3. QED
        BY <3>1, <3>2
    <2>2. QED
      BY <2>1 DEF KnownPersisted, Persisted
  <1>9. SentHeld'
    <2>1. ASSUME NEW o2 \in Origins, synced'[o2], NEW u \in Urls,
                 NEW i \in 1..Len(Script[o2]), Passed(o2, i)', Carries(o2, i, u)
          PROVE  Held(o2, i, u)
      <3>0. holder' = o2 => holder = o2
        BY DistinctAssumption DEF DistinctAssumption
      <3>1. CASE o2 # o
        <4>1. Passed(o2, i) /\ synced[o2]
          BY <1>1, <1>2, <2>1, <3>0, <3>1 DEF Passed
        <4>2. QED
          BY <2>1, <4>1 DEF Clients, SentHeld
      <3>2. CASE o2 = o /\ synced[o]
        <4>0. holder' = Nobody \/ (holder' = holder /\ ~moves)
          BY DEF moves
        <4>a. Passed(o, i)'
          BY <2>1, <3>2
        <4>1. Passed(o, i)
          <5>1. CASE moves /\ next'[o] = next[o] + 1
            <6>1. holder = o /\ holder' # o
              BY <4>0, <5>1, DistinctAssumption DEF moves, DistinctAssumption
            <6>2. i \in Nat /\ i < next[o] + 1
              BY <4>a, <5>1, <6>1, <1>2, <3>2 DEF Passed
            <6>3. i < next[o] \/ i = next[o]
              BY <6>2, <1>2
            <6>4. QED
              BY <6>1, <6>3 DEF Passed
          <5>2. CASE next'[o] = next[o]
            BY <3>0, <3>2, <4>a, <5>2 DEF Passed
          <5>3. QED
            BY <1>a, <3>2, <5>1, <5>2
        <4>2. QED
          BY <2>1, <3>2, <4>1 DEF Clients, SentHeld
      <3>3. CASE o2 = o /\ ~synced[o]
        <4>1. req[o].probe /\ next'[o] = Resume(o)
          BY <1>1, <3>3
        <4>2. holder' # o
          BY <3>0, <3>3, <4>1 DEF TypeOK, LockType
        <4>3. i < Resume(o)
          BY <2>1, <3>3, <4>1, <4>2 DEF Passed
        <4>4. i \in UpTo(o, known[o])
          BY <3>3, <4>3, ResumeKnown DEF TypeOK
        <4>5. QED
          BY <2>1, <3>3, <4>4 DEF Clients, KnownPersisted, Held
      <3>4. QED
        BY <3>1, <3>2, <3>3
    <2>2. \A o2, i, u : Held(o2, i, u)' <=> Held(o2, i, u)
      BY DEF Held, Persisted, Buffered
    <2>3. QED
      BY <2>1, <2>2 DEF SentHeld
  <1>10. QED
    BY <1>5, <1>6, <1>7, <1>8, <1>9 DEF Clients

----------------------------------------------------------------------------
(* Flushing a table                                                        *)

\* An item and its transaction.
LEMMA ItemFacts ==
    ASSUME TypeOK, ItemsLinked, NEW u \in Urls, NEW k \in DOMAIN syncs[u].items
    PROVE  /\ syncs[u].items \in Seq(Item)
           /\ syncs[u].items[k] \in Item
           /\ syncs[u].items[k].origin \in Origins
           /\ syncs[u].items[k].pos \in 1..Len(Script[syncs[u].items[k].origin])
           /\ syncs[u].items[k].tx \in DOMAIN txs
           /\ syncs[u].items[k].tx \in Nat
           /\ ItemLinked(syncs[u].items[k], u)
  <1>1. syncs[u].items \in Seq(Item)
    BY DEF TypeOK, BufferType
  <1>2. syncs[u].items[k] \in Item
    BY <1>1
  <1>3. ItemLinked(syncs[u].items[k], u)
    BY DEF ItemsLinked
  <1>4. QED
    BY <1>1, <1>2, <1>3 DEF Item, ItemLinked

\* The rows of an item whose transaction is complete are among those up to the
\* sequence number of any later complete transaction of the table.
LEMMA ItemUpTo ==
    ASSUME OwnTables, TypeOK, ItemsLinked, ItemsOrdered, TxsOrdered,
           NEW u \in Urls, NEW j \in DOMAIN syncs[u].items,
           NEW k \in DOMAIN syncs[u].items, j <= k,
           txs[syncs[u].items[k].tx].sequence # NoSeq
    PROVE  /\ syncs[u].items[j].origin = syncs[u].items[k].origin
           /\ syncs[u].items[j].pos \in UpTo(syncs[u].items[k].origin,
                                             txs[syncs[u].items[k].tx].sequence)
  <1> DEFINE a == syncs[u].items[j]
             b == syncs[u].items[k]
  <1>1. /\ a.origin \in Origins /\ a.pos \in 1..Len(Script[a.origin])
        /\ a.tx \in DOMAIN txs /\ a.tx \in Nat /\ ItemLinked(a, u)
    BY ItemFacts
  <1>2. /\ b.origin \in Origins /\ b.pos \in 1..Len(Script[b.origin])
        /\ b.tx \in DOMAIN txs /\ b.tx \in Nat /\ ItemLinked(b, u)
    BY ItemFacts
  <1>3. j \in Nat /\ k \in Nat
    BY ItemFacts
  <1>4. a.origin = b.origin
    BY <1>1, <1>2, OneOrigin DEF ItemLinked
  <1>5. j < k => a.tx <= b.tx
    BY DEF ItemsOrdered
  <1> HIDE DEF a, b
  <1>6. a.tx <= b.tx
    <2>1. CASE j = k
      BY <1>1, <2>1 DEF a, b
    <2>2. CASE j < k
      BY <1>5, <2>2
    <2>3. QED
      BY <1>3, <2>1, <2>2
  <1>7. txs[b.tx].sequence # NoSeq
    BY DEF b
  <1>8. /\ txs[a.tx].sequence # NoSeq /\ txs[a.tx].sequence \in Int
        /\ txs[b.tx].sequence \in Int
        /\ txs[a.tx].sequence <= txs[b.tx].sequence
    <2>1. txs[a.tx].sequence \in Nat \cup {NoSeq} /\ txs[b.tx].sequence \in Nat \cup {NoSeq}
      BY <1>1, <1>2 DEF TypeOK, TxType, Transaction
    <2>2. CASE a.tx = b.tx
      BY <1>7, <2>1, <2>2 DEF NoSeq
    <2>3. CASE a.tx < b.tx
      <3>1. txs[a.tx].origin = txs[b.tx].origin
        BY <1>1, <1>2, <1>4 DEF ItemLinked
      <3>2. txs[a.tx].sequence # NoSeq /\ txs[a.tx].sequence <= txs[b.tx].sequence
        BY <1>1, <1>2, <1>7, <2>3, <3>1 DEF TxsOrdered
      <3>3. QED
        BY <2>1, <3>2 DEF NoSeq
    <2>4. QED
      BY <1>1, <1>2, <1>6, <2>2, <2>3
  <1>9. a.pos \in UpTo(a.origin, txs[a.tx].sequence)
    BY <1>1, <1>8 DEF ItemLinked
  <1>10. a.pos \in UpTo(b.origin, txs[b.tx].sequence)
    BY <1>1, <1>4, <1>8, <1>9, UpToGrows
  <1>11. QED
    BY <1>4, <1>10 DEF a, b

\* A list of positions contains <<o, i>>, and has no gaps for table u.
Has(list, o, i) == \E k \in DOMAIN list : list[k] = <<o, i>>

NoGapsIn(list, u) ==
    \A k \in DOMAIN list : \A j \in 1..(list[k][2] - 1) :
        Carries(list[k][1], j, u) => \E l \in 1..(k - 1) : list[l] = <<list[k][1], j>>

\* The same for the list of items behind a list of positions.
GapFreeBehind(items, list, u) ==
    \A k \in DOMAIN items : \A j \in 1..(items[k].pos - 1) :
        Carries(items[k].origin, j, u)
            => \/ Has(list, items[k].origin, j)
               \/ \E l \in 1..(k - 1) : /\ l \in DOMAIN items
                                         /\ items[l].origin = items[k].origin
                                         /\ items[l].pos = j

\* rest is what is left of items without a first part that is in list.
SkipsStored(rest, items, list) ==
    \E n \in 0..Len(items) :
        /\ Len(rest) = Len(items) - n
        /\ \A k \in 1..Len(rest) : rest[k] = items[n + k]
        /\ \A j \in 1..n : Has(list, items[j].origin, items[j].pos)

\* new is old followed by the positions of rest.
Appended(new, old, rest) ==
    /\ new \in Seq(Origins \X Nat)
    /\ Len(new) = Len(old) + Len(rest)
    /\ \A k \in 1..Len(old) : new[k] = old[k]
    /\ \A k \in 1..Len(rest) : new[Len(old) + k] = <<rest[k].origin, rest[k].pos>>

\* new has all of old and of items.
StoresAll(new, old, items) ==
    /\ \A o, i : Has(old, o, i) => Has(new, o, i)
    /\ \A k \in DOMAIN items : Has(new, items[k].origin, items[k].pos)

\* skip_syncs skips persisted messages only.
LEMMA SkippedPersisted ==
    ASSUME OwnTables, TypeOK, SyncInv, flushUrl \in Urls,
           NEW items, items = syncs[flushUrl].items,
           NEW rest, rest = SkipSyncs(items, flushInfo)
    PROVE  SkipsStored(rest, items, applied[flushUrl])
  <1>0. items \in Seq(Item) /\ rest \in Seq(Item) /\ Len(items) \in Nat
    BY SkipSyncsType DEF TypeOK, BufferType
  <1>1. CASE flushInfo = NoInfo \/ FirstMatch(items, flushInfo) = {}
    <2>1. rest = items
      BY <1>1 DEF SkipSyncs
    <2>2. 0 \in 0..Len(items) /\ Len(rest) = Len(items) - 0
      BY <1>0, <2>1
    <2>3. \A k \in 1..Len(rest) : rest[k] = items[0 + k]
      BY <1>0, <2>1
    <2>4. \A j \in 1..0 : Has(applied[flushUrl], items[j].origin, items[j].pos)
      OBVIOUS
    <2>5. QED
      BY <2>2, <2>3, <2>4 DEF SkipsStored
  <1>2. CASE ~(flushInfo = NoInfo \/ FirstMatch(items, flushInfo) = {})
    <2>1. PICK n \in FirstMatch(items, flushInfo) :
            rest = SubSeq(items, n + 1, Len(items))
      BY <1>2 DEF SkipSyncs
    <2>2. n \in 1..Len(items) /\ n \in DOMAIN items /\ DOMAIN items = 1..Len(items)
      BY <1>0 DEF FirstMatch
    <2>3. Len(rest) = Len(items) - n
      BY <1>0, <2>1, <2>2
    <2>4. \A k \in 1..Len(rest) : rest[k] = items[n + k]
      BY <1>0, <2>1, <2>2, <2>3
    <2>5. /\ items[n].tx \in DOMAIN txs
          /\ txs[items[n].tx].origin = flushInfo.origin
          /\ txs[items[n].tx].sequence = flushInfo.sequence
      BY <2>1 DEF FirstMatch, Matches
    <2>6. flushInfo \in SyncCommitInfo
      BY <1>2 DEF TypeOK, LockType
    <2>7. /\ txs[items[n].tx].sequence # NoSeq
          /\ items[n].origin = flushInfo.origin
      <3>1. flushInfo.sequence # NoSeq
        BY <2>6 DEF SyncCommitInfo, NoSeq
      <3>2. ItemLinked(items[n], flushUrl)
        BY <2>2 DEF SyncInv, ItemsLinked
      <3>3. QED
        BY <2>5, <3>1, <3>2 DEF ItemLinked
    <2>8. ASSUME NEW j \in 1..n
          PROVE  Persisted(items[j].origin, items[j].pos, flushUrl)
      <3>1. j \in DOMAIN items /\ j <= n
        BY <2>2
      <3>2. /\ items[j].origin = flushInfo.origin
            /\ items[j].pos \in UpTo(flushInfo.origin, flushInfo.sequence)
        BY <2>2, <2>5, <2>7, <3>1, ItemUpTo DEF SyncInv
      <3>3. Carries(flushInfo.origin, items[j].pos, flushUrl)
        BY <3>1, <3>2 DEF SyncInv, ItemsLinked, ItemLinked
      <3>4. InfoPersisted(flushInfo, flushUrl)
        BY DistinctAssumption DEF SyncInv, InfosPersisted, DistinctAssumption
      <3>5. QED
        BY <1>2, <3>2, <3>3, <3>4 DEF InfoPersisted
    <2>9. n \in 0..Len(items)
      BY <1>0, <2>2
    <2>10. \A j \in 1..n : Has(applied[flushUrl], items[j].origin, items[j].pos)
      BY <2>8 DEF Persisted, Has
    <2>11. QED
      BY <2>3, <2>4, <2>9, <2>10 DEF SkipsStored
  <1>3. QED
    BY <1>1, <1>2

\* The positions of a list of items.
Positions(rest) == [k \in 1..Len(rest) |-> <<rest[k].origin, rest[k].pos>>]

\* What a commit appends: origin and position of each item, in order.
LEMMA PositionsFacts ==
    ASSUME NEW rest \in Seq(Item)
    PROVE  /\ Positions(rest) \in Seq(Origins \X Nat)
           /\ Len(Positions(rest)) = Len(rest)
           /\ \A k \in 1..Len(rest) : Positions(rest)[k] = <<rest[k].origin, rest[k].pos>>
  <1>1. Len(rest) \in Nat /\ \A k \in 1..Len(rest) : rest[k] \in Item
    OBVIOUS
  <1>2. \A k \in 1..Len(rest) : <<rest[k].origin, rest[k].pos>> \in Origins \X Nat
    BY <1>1 DEF Item
  <1>3. Positions(rest) \in Seq(Origins \X Nat) /\ Len(Positions(rest)) = Len(rest)
    BY <1>1, <1>2 DEF Positions
  <1>4. \A k \in 1..Len(rest) : Positions(rest)[k] = <<rest[k].origin, rest[k].pos>>
    BY DEF Positions
  <1>5. QED
    BY <1>3, <1>4

\* Appending the positions of rest to what a table has.
LEMMA AppendFacts ==
    ASSUME NEW old \in Seq(Origins \X Nat), NEW rest \in Seq(Item),
           NEW new, new = old \o Positions(rest)
    PROVE  Appended(new, old, rest)
  <1> DEFINE S == Origins \X Nat
             add == Positions(rest)
  <1>1. old \in Seq(S) /\ add \in Seq(S)
    BY PositionsFacts
  <1>a. /\ Len(add) = Len(rest)
        /\ \A k \in 1..Len(rest) : add[k] = <<rest[k].origin, rest[k].pos>>
    BY PositionsFacts
  <1>2. new = old \o add
    OBVIOUS
  <1> HIDE DEF S, add
  <1>3. old \o add \in Seq(S) /\ Len(old \o add) = Len(old) + Len(add)
    BY <1>1
  <1>4. \A k \in 1..Len(old) : (old \o add)[k] = old[k]
    BY <1>1
  <1>5. \A k \in 1..Len(add) : (old \o add)[Len(old) + k] = add[k]
    BY <1>1
  <1>6. QED
    BY <1>1, <1>2, <1>a, <1>3, <1>4, <1>5 DEF S, Appended

\* Positions in the second part of a list.
LEMMA SecondPart ==
    ASSUME NEW a \in Nat, NEW b \in Nat, NEW k \in 1..(a + b), ~(k <= a)
    PROVE  k - a \in 1..b /\ k = a + (k - a)
  OBVIOUS

\* An index in the second part of a concatenation, counted from its start.
LEMMA SecondPartBefore ==
    ASSUME NEW a \in Nat, NEW n \in Nat, NEW r \in Nat, NEW l \in 1..(n + r - 1), ~(l <= n)
    PROVE  a + (l - n) \in 1..(a + r - 1)
  OBVIOUS

\* No gaps arise, and everything is there.
LEMMA AppendRest ==
    ASSUME NEW u, NEW old \in Seq(Origins \X Nat), NEW new,
           NEW items \in Seq(Item), NEW rest \in Seq(Item),
           SkipsStored(rest, items, old), Appended(new, old, rest),
           NoGapsIn(old, u), GapFreeBehind(items, old, u)
    PROVE  StoresAll(new, old, items) /\ NoGapsIn(new, u)
  <1>a. PICK n \in 0..Len(items) :
          /\ Len(rest) = Len(items) - n
          /\ \A k \in 1..Len(rest) : rest[k] = items[n + k]
          /\ \A j \in 1..n : Has(old, items[j].origin, items[j].pos)
    BY DEF SkipsStored
  <1>b. /\ new \in Seq(Origins \X Nat)
        /\ Len(new) = Len(old) + Len(rest)
        /\ \A k \in 1..Len(old) : new[k] = old[k]
        /\ \A k \in 1..Len(rest) : new[Len(old) + k] = <<rest[k].origin, rest[k].pos>>
    BY DEF Appended
  <1>1. /\ Len(items) \in Nat /\ Len(rest) \in Nat /\ Len(old) \in Nat
        /\ DOMAIN items = 1..Len(items) /\ DOMAIN old = 1..Len(old)
        /\ DOMAIN new = 1..Len(new)
    BY <1>b
  <1>2. ASSUME NEW o, NEW i, Has(old, o, i)
        PROVE  Has(new, o, i)
    <2>1. PICK k \in 1..Len(old) : old[k] = <<o, i>>
      BY <1>1, <1>2 DEF Has
    <2>2. k \in DOMAIN new /\ new[k] = <<o, i>>
      BY <1>1, <1>b, <2>1
    <2>3. QED
      BY <2>2 DEF Has
  <1>3. \A k \in 1..Len(items) : ~(k <= n) =>
          /\ k - n \in 1..Len(rest)
          /\ rest[k - n] = items[k]
          /\ Len(old) + (k - n) \in 1..Len(new)
          /\ new[Len(old) + (k - n)] = <<items[k].origin, items[k].pos>>
    <2>1. SUFFICES ASSUME NEW k \in 1..Len(items), ~(k <= n)
                   PROVE  /\ k - n \in 1..Len(rest)
                          /\ rest[k - n] = items[k]
                          /\ Len(old) + (k - n) \in 1..Len(new)
                          /\ new[Len(old) + (k - n)] = <<items[k].origin, items[k].pos>>
      OBVIOUS
    <2>2. k - n \in 1..Len(rest) /\ n + (k - n) = k
      BY <1>1, <1>a, <2>1
    <2>3. rest[k - n] = items[k]
      BY <1>a, <2>2
    <2>4. Len(old) + (k - n) \in 1..Len(new)
      BY <1>1, <1>b, <2>2
    <2>5. QED
      BY <1>b, <2>2, <2>3, <2>4
  <1>4. ASSUME NEW k \in 1..Len(items)
        PROVE  Has(new, items[k].origin, items[k].pos)
    <2>1. CASE k <= n
      BY <1>1, <1>2, <1>a, <2>1
    <2>2. CASE ~(k <= n)
      BY <1>1, <1>3, <2>2 DEF Has
    <2>3. QED
      BY <2>1, <2>2
  <1>5. ASSUME NEW k \in DOMAIN new, NEW j \in 1..(new[k][2] - 1),
               Carries(new[k][1], j, u)
        PROVE  \E l \in 1..(k - 1) : new[l] = <<new[k][1], j>>
    <2>1. CASE k <= Len(old)
      <3>1. k \in DOMAIN old /\ new[k] = old[k]
        BY <1>1, <1>b, <2>1
      <3>2. PICK l \in 1..(k - 1) : old[l] = <<old[k][1], j>>
        BY <1>5, <3>1 DEF NoGapsIn
      <3>3. l \in 1..Len(old)
        BY <1>1, <2>1, <3>1
      <3>4. QED
        BY <1>b, <3>1, <3>2, <3>3
    <2>2. CASE ~(k <= Len(old))
      <3> DEFINE r == k - Len(old)
                 q == n + r
      <3>0. k \in 1..Len(new) /\ n \in Nat
        BY <1>1, <1>a
      <3>1. k \in 1..(Len(old) + Len(rest))
        BY <1>b, <3>0
      <3>a. r \in 1..Len(rest) /\ k = Len(old) + r
        BY <1>1, <2>2, <3>1, SecondPart
      <3> HIDE DEF r
      <3>b. q \in 1..Len(items) /\ q \in DOMAIN items /\ q = n + r
        BY <1>1, <1>a, <3>0, <3>a
      <3>c. rest[r] = items[q]
        BY <1>a, <3>a
      <3> HIDE DEF q
      <3>2. new[k] = <<items[q].origin, items[q].pos>>
        BY <1>b, <3>a, <3>c
      <3> DEFINE o == items[q].origin
      <3>3. /\ j \in 1..(items[q].pos - 1)
            /\ Carries(o, j, u)
            /\ new[k][1] = o
        BY <1>5, <3>2
      <3>4. \/ Has(old, o, j)
            \/ \E l \in 1..(q - 1) : /\ l \in DOMAIN items
                                      /\ items[l].origin = o
                                      /\ items[l].pos = j
        BY <3>b, <3>3 DEF GapFreeBehind
      <3> HIDE DEF o
      <3>5. ASSUME Has(old, o, j)
            PROVE  \E l \in 1..(k - 1) : new[l] = <<o, j>>
        <4>1. PICK l \in 1..Len(old) : old[l] = <<o, j>>
          BY <1>1, <3>5 DEF Has
        <4>2. l \in 1..(k - 1)
          BY <1>1, <3>a
        <4>3. QED
          BY <1>b, <4>1, <4>2
      <3>6. ASSUME NEW l \in 1..(q - 1), l \in DOMAIN items,
                   items[l].origin = o, items[l].pos = j
            PROVE  \E l2 \in 1..(k - 1) : new[l2] = <<o, j>>
        <4>1. CASE l <= n
          <5>1. l \in 1..n
            BY <1>1, <3>6, <4>1
          <5>2. Has(old, o, j)
            BY <1>a, <3>6, <5>1
          <5>3. QED
            BY <3>5, <5>2
        <4>2. CASE ~(l <= n)
          <5>1. new[Len(old) + (l - n)] = <<o, j>>
            BY <1>1, <1>3, <3>6, <4>2
          <5>2. Len(old) + (l - n) \in 1..(k - 1)
            <6>1. r \in Nat /\ l \in 1..(n + r - 1)
              BY <1>1, <3>a, <3>b
            <6>2. Len(old) + (l - n) \in 1..(Len(old) + r - 1)
              BY <1>1, <3>0, <4>2, <6>1, SecondPartBefore
            <6>3. QED
              BY <3>a, <6>2
          <5>3. QED
            BY <5>1, <5>2
        <4>3. QED
          BY <4>1, <4>2
      <3>7. QED
        BY <3>3, <3>4, <3>5, <3>6
    <2>3. QED
      BY <2>1, <2>2
  <1>6. QED
    BY <1>1, <1>2, <1>4, <1>5 DEF NoGapsIn, StoresAll

\* A commit appends to one table what skip_syncs has left of its items.
LEMMA CommitAppends ==
    ASSUME TypeOK, NEW u \in Urls, CommitSyncs(u),
           NEW rest, rest = SkipSyncs(syncs[u].items, flushInfo)
    PROVE  /\ \A v \in Urls : v # u => applied'[v] = applied[v]
           /\ applied'[u] = applied[u] \o Positions(rest)
           /\ rest \in Seq(Item)
           /\ applied[u] \in Seq(Origins \X Nat)
  <1>1. applied' = [applied EXCEPT ![u] = @ \o Positions(rest)]
    BY DEF CommitSyncs, Positions
  <1>2. rest \in Seq(Item)
    BY SkipSyncsType DEF TypeOK, BufferType
  <1>3. applied \in [Urls -> Seq(Origins \X Nat)]
    BY DEF TypeOK, LakeType
  <1>4. /\ \A v \in Urls : v # u => applied'[v] = applied[v]
        /\ applied'[u] = applied[u] \o Positions(rest)
    BY <1>1, <1>3
  <1>5. QED
    BY <1>2, <1>3, <1>4

\* After a commit the tables have all they had, and all buffered messages of
\* the flushed table; no table has a gap.
LEMMA CommitStores ==
    ASSUME OwnTables, TypeOK, SyncInv, NEW u \in Urls, u = flushUrl, CommitSyncs(u),
           NEW items, items = syncs[u].items
    PROVE  /\ Grows
           /\ \A k \in DOMAIN items : Persisted(items[k].origin, items[k].pos, u)'
           /\ NoGaps'
  <1>0. PICK rest : rest = SkipSyncs(items, flushInfo)
    OBVIOUS
  <1> DEFINE old == applied[u]
             new == applied'[u]
  <1>1. /\ \A v \in Urls : v # u => applied'[v] = applied[v]
        /\ new = old \o Positions(rest)
        /\ rest \in Seq(Item)
        /\ old \in Seq(Origins \X Nat)
    BY <1>0, CommitAppends
  <1>2. items \in Seq(Item)
    BY DEF TypeOK, BufferType
  <1>3. SkipsStored(rest, items, old)
    <2>1. flushUrl \in Urls /\ items = syncs[flushUrl].items
      OBVIOUS
    <2>2. SkipsStored(rest, items, applied[flushUrl])
      BY <1>0, <2>1, SkippedPersisted
    <2>3. QED
      BY <2>2
  <1>4. NoGapsIn(old, u)
    BY DEF SyncInv, NoGaps, NoGapsIn
  <1>5. GapFreeBehind(items, old, u)
    <2>1. \A k \in DOMAIN items : \A j \in 1..(items[k].pos - 1) :
            Carries(items[k].origin, j, u)
              => Persisted(items[k].origin, j, u) \/ Among(items[k].origin, j, u, k - 1)
      BY DEF SyncInv, ItemsGapFree
    <2>2. QED
      BY <2>1 DEF GapFreeBehind, Persisted, Has, Among
  <1> HIDE DEF old, new
  <1>6. Appended(new, old, rest)
    BY <1>1, AppendFacts
  <1>7. StoresAll(new, old, items) /\ NoGapsIn(new, u)
    BY <1>1, <1>2, <1>3, <1>4, <1>5, <1>6, AppendRest
  <1>8. ASSUME NEW o, NEW i, NEW v \in Urls, Persisted(o, i, v)
        PROVE  Persisted(o, i, v)'
    <2>1. CASE v # u
      BY <1>1, <1>8, <2>1 DEF Persisted
    <2>2. CASE v = u
      <3>1. Has(old, o, i)
        BY <1>8, <2>2 DEF Persisted, Has, old
      <3>2. Has(new, o, i)
        BY <1>7, <3>1 DEF StoresAll
      <3>3. QED
        BY <2>2, <3>2 DEF Persisted, Has, new
    <2>3. QED
      BY <2>1, <2>2
  <1>9. ASSUME NEW k \in DOMAIN items
        PROVE  Persisted(items[k].origin, items[k].pos, u)'
    <2>1. Has(new, items[k].origin, items[k].pos)
      BY <1>7 DEF StoresAll
    <2>2. QED
      BY <2>1 DEF Persisted, Has, new
  <1>10. NoGaps'
    <2>1. ASSUME NEW v \in Urls, v # u PROVE NoGapsIn(applied'[v], v)
      <3>1. NoGapsIn(applied[v], v)
        BY DEF SyncInv, NoGaps, NoGapsIn
      <3>2. QED
        BY <1>1, <2>1, <3>1
    <2>2. NoGapsIn(applied'[u], u)
      BY <1>7 DEF new
    <2>3. QED
      <3>1. \A v \in Urls : NoGapsIn(applied'[v], v)
        BY <2>1, <2>2
      <3>2. QED
        BY <3>1 DEF NoGaps, NoGapsIn
  <1>11. QED
    BY <1>8, <1>9, <1>10 DEF Grows

\* The info of a commit tells the truth about the table.
LEMMA CommitInfos ==
    ASSUME OwnTables, TypeOK, SyncInv, NEW u \in Urls, u = flushUrl, CommitSyncs(u),
           NEW v \in Urls
    PROVE  InfoPersisted(info[v], v)'
  <1>0. PICK items : items = syncs[u].items
    OBVIOUS
  <1>1. PICK rest : rest = SkipSyncs(items, flushInfo)
    OBVIOUS
  <1>2. /\ \A o, i : Persisted(o, i, v) => Persisted(o, i, v)'
        /\ \A k \in DOMAIN items : Persisted(items[k].origin, items[k].pos, u)'
    BY <1>0, CommitStores DEF Grows
  <1>3. info' = [info EXCEPT ![u] = NewSyncCommit(rest, flushInfo)]
    BY <1>0, <1>1 DEF CommitSyncs
  <1>4. info \in [Urls -> SyncCommitInfo \cup {NoInfo}]
    BY DEF TypeOK, LakeType
  <1>5. SUFFICES ASSUME NEW c, c = info'[v], c # NoInfo,
                        NEW o, o = c.origin, NEW i \in UpTo(o, c.sequence),
                        Carries(o, i, v)
                 PROVE  Persisted(o, i, v)'
    BY DEF InfoPersisted
  <1>6. CASE v # u
    <2>1. info[v] = c
      BY <1>3, <1>4, <1>5, <1>6
    <2>2. InfoPersisted(info[v], v)
      BY DEF SyncInv, InfosPersisted
    <2>3. QED
      BY <1>2, <1>5, <2>1, <2>2 DEF InfoPersisted
  <1>7. CASE v = u /\ LastComplete(rest) # {}
    <2>1. c = NewSyncCommit(rest, flushInfo)
      BY <1>3, <1>4, <1>5, <1>7
    <2>2. PICK k \in LastComplete(rest) :
            /\ c.origin = txs[rest[k].tx].origin
            /\ c.sequence = txs[rest[k].tx].sequence
      BY <2>1, <1>7 DEF NewSyncCommit
    <2>3. PICK t : t = rest[k].tx
      OBVIOUS
    <2>4. t \in DOMAIN txs /\ txs[t].sequence # NoSeq
      BY <2>3 DEF LastComplete, Complete
    <2>5. HeldBy(o, i, u, t)
      BY <1>5, <1>7, <2>2, <2>3, <2>4 DEF SyncInv, TxsHeld
    <2>6. QED
      BY <1>0, <1>2, <1>7, <2>5 DEF HeldBy
  <1>8. CASE v = u /\ LastComplete(rest) = {}
    <2>1. c = NewSyncCommit(rest, flushInfo)
      BY <1>3, <1>4, <1>5, <1>8
    <2>2. flushInfo # NoInfo
      BY <1>5, <1>8, <2>1 DEF NewSyncCommit
    <2>3. flushInfo \in SyncCommitInfo
      BY <2>2 DEF TypeOK, LockType
    <2>4. c.origin = flushInfo.origin /\ c.sequence = flushInfo.sequence
      BY <1>8, <2>1, <2>2, <2>3 DEF NewSyncCommit, SyncCommitInfo
    <2>5. InfoPersisted(flushInfo, u)
      BY DistinctAssumption DEF SyncInv, InfosPersisted, DistinctAssumption
    <2>6. QED
      BY <1>2, <1>5, <1>8, <2>2, <2>4, <2>5 DEF InfoPersisted
  <1>9. QED
    BY <1>6, <1>7, <1>8

\* A step that drops the collection of a table whose messages are persisted,
\* and possibly transactions that have no items left.
TableFlushed(u) ==
    /\ syncs' = [syncs EXCEPT ![u] = NoSyncs]
    /\ \A k \in DOMAIN syncs[u].items :
          \A o, i : /\ syncs[u].items[k].origin = o
                    /\ syncs[u].items[k].pos = i
                    => Persisted(o, i, u)'
    /\ DOMAIN txs' \subseteq DOMAIN txs
    /\ \A t \in DOMAIN txs' : /\ txs'[t].origin = txs[t].origin
                              /\ txs'[t].sequence = txs[t].sequence
    /\ \A v \in Urls : v # u =>
          \A k \in DOMAIN syncs[v].items : syncs[v].items[k].tx \in DOMAIN txs'

\* After a commit the table has no items left, other tables keep theirs.
LEMMA TableFlushedSyncs ==
    ASSUME BufferType, NEW u \in Urls, TableFlushed(u)
    PROVE  /\ syncs'[u].items = <<>>
           /\ DOMAIN syncs'[u].items = {}
           /\ \A v \in Urls : v # u => syncs'[v] = syncs[v]
  <1>1. syncs'[u] = NoSyncs /\ \A v \in Urls : v # u => syncs'[v] = syncs[v]
    BY DEF TableFlushed, BufferType
  <1>2. syncs'[u].items = <<>>
    BY <1>1 DEF NoSyncs
  <1>3. DOMAIN syncs'[u].items = {}
    BY <1>2
  <1>4. QED
    BY <1>1, <1>2, <1>3

\* What left the buffer with a commit is in the table.
LEMMA FlushedHeld ==
    ASSUME BufferType, Grows, NEW u \in Urls, TableFlushed(u),
           NEW o, NEW i, NEW v \in Urls
    PROVE  /\ Buffered(o, i, v) => Persisted(o, i, v)' \/ Buffered(o, i, v)'
           /\ Held(o, i, v) => Held(o, i, v)'
           /\ \A t : HeldBy(o, i, v, t) => HeldBy(o, i, v, t)'
  <1>1. \A w \in Urls : w # u => syncs'[w] = syncs[w]
    BY TableFlushedSyncs
  <1>2. ASSUME v = u, Buffered(o, i, v) PROVE Persisted(o, i, v)'
    BY <1>2 DEF TableFlushed, Buffered
  <1>3. ASSUME v # u PROVE Buffered(o, i, v)' <=> Buffered(o, i, v)
    BY <1>1, <1>3 DEF Buffered
  <1>4. \A t : HeldBy(o, i, v, t) => Persisted(o, i, v) \/ Buffered(o, i, v)
    BY DEF HeldBy, Buffered
  <1>5. ASSUME NEW t, v # u, HeldBy(o, i, v, t) PROVE HeldBy(o, i, v, t)'
    <2>1. CASE Persisted(o, i, v)
      BY <2>1 DEF HeldBy, Grows
    <2>2. CASE ~Persisted(o, i, v)
      <3>1. syncs'[v] = syncs[v]
        BY <1>1, <1>5
      <3>2. \E k \in DOMAIN syncs[v].items : /\ syncs[v].items[k].origin = o
                                             /\ syncs[v].items[k].pos = i
                                             /\ syncs[v].items[k].tx <= t
        BY <1>5, <2>2 DEF HeldBy
      <3>3. QED
        BY <3>1, <3>2 DEF HeldBy
    <2>3. QED
      BY <2>1, <2>2
  <1>6. ASSUME NEW t, v = u, HeldBy(o, i, v, t) PROVE HeldBy(o, i, v, t)'
    <2>1. Persisted(o, i, v)'
      BY <1>2, <1>4, <1>6 DEF Grows
    <2>2. QED
      BY <2>1 DEF HeldBy
  <1>7. Buffered(o, i, v) => Persisted(o, i, v)' \/ Buffered(o, i, v)'
    BY <1>2, <1>3
  <1>8. Persisted(o, i, v) => Persisted(o, i, v)'
    BY DEF Grows
  <1>9. QED
    BY <1>5, <1>6, <1>7, <1>8 DEF Held

\* A commit keeps what the invariant says of transactions and items.
LEMMA TableFlushedStored ==
    ASSUME TypeOK, Stored, Grows, NoGaps', NEW u \in Urls, TableFlushed(u),
           UNCHANGED origin_memory, DurablePersisted'
    PROVE  Stored'
  <1>0. BufferType
    BY DEF TypeOK
  <1>1. /\ DOMAIN syncs'[u].items = {}
        /\ \A v \in Urls : v # u => syncs'[v] = syncs[v]
    BY <1>0, TableFlushedSyncs
  <1>2. ItemsOrdered'
    <2>1. ASSUME NEW v \in Urls, NEW j \in DOMAIN syncs'[v].items,
                 NEW k \in DOMAIN syncs'[v].items, j < k
          PROVE  syncs'[v].items[j].tx <= syncs'[v].items[k].tx
      <3>1. v # u /\ syncs'[v] = syncs[v]
        BY <1>1
      <3>2. QED
        BY <2>1, <3>1 DEF Stored, ItemsOrdered
    <2>2. QED
      BY <2>1 DEF ItemsOrdered
  <1>3. TxsOrdered'
    BY DEF Stored, TxsOrdered, TableFlushed
  <1>4. TxsHeld'
    <2>1. ASSUME NEW t \in DOMAIN txs', txs'[t].sequence # NoSeq, NEW v \in Urls,
                 NEW o, o = txs'[t].origin, NEW i \in UpTo(o, txs'[t].sequence),
                 Carries(o, i, v)
          PROVE  HeldBy(o, i, v, t)'
      <3>1. t \in DOMAIN txs /\ o = txs[t].origin /\ txs'[t].sequence = txs[t].sequence
        BY <2>1 DEF TableFlushed
      <3>2. HeldBy(o, i, v, t)
        BY <2>1, <3>1 DEF Stored, TxsHeld
      <3>3. QED
        BY <1>0, <3>2, FlushedHeld
    <2>2. QED
      BY <2>1 DEF TxsHeld
  <1>5. ItemsGapFree'
    <2>1. ASSUME NEW v \in Urls, NEW k \in DOMAIN syncs'[v].items,
                 NEW o, o = syncs'[v].items[k].origin,
                 NEW j \in 1..(syncs'[v].items[k].pos - 1), Carries(o, j, v)
          PROVE  Persisted(o, j, v)' \/ Among(o, j, v, k - 1)'
      <3>1. v # u /\ syncs'[v] = syncs[v]
        BY <1>1
      <3>2. Persisted(o, j, v) \/ Among(o, j, v, k - 1)
        BY <2>1, <3>1 DEF Stored, ItemsGapFree
      <3>3. Among(o, j, v, k - 1) => Among(o, j, v, k - 1)'
        BY <3>1 DEF Among
      <3>4. QED
        BY <3>2, <3>3 DEF Grows
    <2>2. QED
      BY <2>1 DEF ItemsGapFree
  <1>6. MemoryHeld'
    <2>1. ASSUME NEW o \in Origins, NEW v \in Urls, NEW i \in UpTo(o, origin_memory[o]),
                 Carries(o, i, v)
          PROVE  Buffered(o, i, v)' \/ Persisted(o, i, v)'
      <3>1. Buffered(o, i, v) \/ Persisted(o, i, v)
        BY <2>1 DEF Stored, MemoryHeld
      <3>2. QED
        BY <1>0, <3>1, FlushedHeld DEF Grows
    <2>2. QED
      BY <2>1 DEF MemoryHeld
  <1>7. QED
    BY <1>2, <1>3, <1>4, <1>5, <1>6 DEF Stored

\* It keeps what the invariant says of clients.
LEMMA TableFlushedClients ==
    ASSUME TypeOK, Clients, Probing, Grows, NEW u \in Urls, TableFlushed(u),
           UNCHANGED <<next, known, synced, holder, req, first_sync>>
    PROVE  Clients' /\ Probing'
  <1>0. BufferType
    BY DEF TypeOK
  <1>1. /\ DOMAIN syncs'[u].items = {}
        /\ \A v \in Urls : v # u => syncs'[v] = syncs[v]
    BY <1>0, TableFlushedSyncs
  <1>2. ItemsLinked'
    <2>1. ASSUME NEW v \in Urls, NEW k \in DOMAIN syncs'[v].items,
                 NEW item, item = syncs'[v].items[k]
          PROVE  ItemLinked(item, v)'
      <3>1. v # u /\ syncs'[v] = syncs[v]
        BY <1>1
      <3>2. ItemLinked(item, v)
        BY <2>1, <3>1 DEF Clients, ItemsLinked
      <3>3. item.tx \in DOMAIN txs'
        BY <2>1, <3>1 DEF TableFlushed
      <3>4. /\ txs'[item.tx].origin = txs[item.tx].origin
            /\ txs'[item.tx].sequence = txs[item.tx].sequence
        BY <3>3 DEF TableFlushed
      <3>5. QED
        BY <3>2, <3>3, <3>4 DEF ItemLinked
    <2>2. QED
      BY <2>1 DEF ItemsLinked
  <1>3. SeqsSent'
    <2>1. \A o, s : Sent(o, s) => Sent(o, s)'
      BY DEF Sent
    <2>2. QED
      BY <2>1 DEF Clients, SeqsSent, TableFlushed
  <1>4. KnownPersisted'
    BY DEF Clients, KnownPersisted, Grows
  <1>5. SentHeld'
    <2>1. \A o, i : Passed(o, i)' <=> Passed(o, i)
      BY DEF Passed
    <2>2. \A o, i : \A v \in Urls : Held(o, i, v) => Held(o, i, v)'
      BY <1>0, FlushedHeld
    <2>3. QED
      BY <2>1, <2>2 DEF Clients, SentHeld
  <1>6. Probing'
    BY DEF Probing, TableFlushed
  <1>7. QED
    BY <1>2, <1>3, <1>4, <1>5, <1>6 DEF Clients

\* All items are skipped: nothing is committed, the collection is dropped.
LEMMA SkipAllInv ==
    ASSUME OwnTables, TypeOK, SyncInv, FlushSkipAll
    PROVE  SyncInv'
  <1>0. PICK u \in Urls : u = flushUrl
    BY DEF FlushSkipAll, TypeOK, LockType
  <1>1. /\ syncs' = [syncs EXCEPT ![u] = NoSyncs]
        /\ flushUrl' = NoUrl
        /\ UNCHANGED <<txs, origin_memory, origin_durable, holder, first_sync, req,
                       next, known, synced, info, applied>>
    BY <1>0 DEF FlushSkipAll, RemoveSync, txVars, seqVars, clientVars, lakeVars
  <1>2. PICK items : items = syncs[u].items
    OBVIOUS
  <1>3. items \in Seq(Item) /\ Len(items) \in Nat /\ DOMAIN items = 1..Len(items)
    BY <1>2 DEF TypeOK, BufferType
  <1>4. PICK rest : rest = SkipSyncs(items, flushInfo) /\ rest = <<>>
    BY <1>0, <1>2 DEF FlushSkipAll
  <1>5. SkipsStored(rest, items, applied[u])
    <2>1. flushUrl \in Urls /\ items = syncs[flushUrl].items
      BY <1>0, <1>2
    <2>2. SkipsStored(rest, items, applied[flushUrl])
      BY <1>4, <2>1, SkippedPersisted
    <2>3. QED
      BY <1>0, <2>2
  <1>6. \A k \in DOMAIN items : Has(applied[u], items[k].origin, items[k].pos)
    <2>1. PICK n \in 0..Len(items) :
            /\ Len(rest) = Len(items) - n
            /\ \A j \in 1..n : Has(applied[u], items[j].origin, items[j].pos)
      BY <1>5 DEF SkipsStored
    <2>2. n = Len(items)
      <3>1. Len(rest) = 0
        BY <1>4
      <3>2. Len(rest) = Len(items) - n
        BY <2>1
      <3>3. n \in Int /\ Len(items) \in Int
        BY <1>3
      <3>4. QED
        BY <3>1, <3>2, <3>3
    <2>3. QED
      BY <1>3, <2>1, <2>2
  <1>7. Grows /\ NoGaps'
    BY <1>1, LakeUnchanged DEF SyncInv
  <1>8. TableFlushed(u)
    <2>1. ASSUME NEW k \in DOMAIN syncs[u].items, NEW o, NEW i,
                 syncs[u].items[k].origin = o, syncs[u].items[k].pos = i
          PROVE  Persisted(o, i, u)'
      <3>1. Has(applied[u], o, i)
        BY <1>2, <1>6, <2>1
      <3>2. QED
        BY <1>1, <3>1 DEF Has, Persisted
    <2>2. ASSUME NEW v \in Urls, NEW k \in DOMAIN syncs[v].items
          PROVE  syncs[v].items[k].tx \in DOMAIN txs'
      BY <1>1 DEF SyncInv, ItemsLinked, ItemLinked
    <2>3. QED
      BY <1>1, <2>1, <2>2 DEF TableFlushed
  <1>9. DurablePersisted'
    BY <1>1, <1>7 DEF SyncInv, DurablePersisted, Grows
  <1>10. Stored'
    BY <1>1, <1>7, <1>8, <1>9, InvParts, TableFlushedStored
  <1>11. Clients' /\ Probing'
    BY <1>1, <1>7, <1>8, InvParts, TableFlushedClients
  <1>12. InfosPersisted'
    BY <1>1, <1>7 DEF SyncInv, InfosPersisted, InfoPersisted, Grows
  <1>13. QED
    BY <1>10, <1>11, <1>12 DEF SyncInv, Stored, Clients

\* The durable sequence number of an origin stays, or becomes that of a
\* transaction whose rows, and those of all transactions before it, have left
\* the buffer.
LEMMA AdvanceDurableFlushed ==
    ASSUME TypeOK, PendingTxTracked, NEW u \in Urls, NEW ids,
           AdvanceDurable(RemoveTxLocations(txs, u, ids)), NEW o \in Origins
    PROVE  \/ origin_durable'[o] = origin_durable[o]
           \/ \E t \in DOMAIN txs :
                /\ txs[t].origin = o
                /\ txs[t].sequence = origin_durable'[o]
                /\ txs[t].sequence # NoSeq
                /\ \A v \in Urls : v # u => \A k \in DOMAIN syncs[v].items :
                                      ~(syncs[v].items[k].tx <= t)
  <1> DEFINE ts == RemoveTxLocations(txs, u, ids)
             D == DurableTxs(ts)
  <1>1. /\ DOMAIN ts = DOMAIN txs
        /\ \A t \in DOMAIN txs : /\ ts[t].origin = txs[t].origin
                                 /\ ts[t].sequence = txs[t].sequence
                                 /\ txs[t].locations \subseteq ts[t].locations \cup {u}
    BY DEF RemoveTxLocations, TypeOK, TxType, Transaction
  <1>2. origin_durable' =
              [o2 \in Origins |->
                  IF LastOf(ts, D, o2) = {} THEN origin_durable[o2]
                  ELSE ts[CHOOSE t \in LastOf(ts, D, o2) : TRUE].sequence]
    BY DEF AdvanceDurable
  <1> HIDE DEF ts
  <1>3. \A t \in D : t \in DOMAIN txs /\ \A t2 \in DOMAIN txs :
                        t2 <= t => ts[t2].sequence # NoSeq /\ ts[t2].locations = {}
    BY <1>1 DEF DurableTxs
  <1> HIDE DEF D
  <1>4. CASE LastOf(ts, D, o) = {}
    BY <1>2, <1>4
  <1>5. CASE LastOf(ts, D, o) # {}
    <2>1. PICK t \in LastOf(ts, D, o) : origin_durable'[o] = ts[t].sequence
      BY <1>2, <1>5
    <2>2. t \in D /\ ts[t].origin = o
      BY DEF LastOf
    <2>3. t \in DOMAIN txs /\ t \in Nat
      BY <1>3, <2>2 DEF TypeOK, TxType
    <2>4. t <= t
      BY <2>3
    <2>5. txs[t].origin = o /\ txs[t].sequence = origin_durable'[o] /\ txs[t].sequence # NoSeq
      BY <1>1, <1>3, <2>1, <2>2, <2>3, <2>4
    <2>6. ASSUME NEW v \in Urls, v # u, NEW k \in DOMAIN syncs[v].items,
                 syncs[v].items[k].tx <= t
          PROVE  FALSE
      <3>1. PICK t2 : t2 = syncs[v].items[k].tx
        OBVIOUS
      <3>2. t2 \in DOMAIN txs /\ v \in txs[t2].locations
        BY <3>1 DEF PendingTxTracked
      <3>3. v \in ts[t2].locations
        BY <1>1, <2>6, <3>2
      <3>4. ts[t2].locations = {}
        BY <1>3, <2>2, <2>6, <3>1, <3>2
      <3>5. QED
        BY <3>3, <3>4
    <2>7. QED
      BY <2>3, <2>5, <2>6
  <1>6. QED
    BY <1>4, <1>5

\* FlushCommit: commit, remove_tx_locations, remove_sync and advance_durable.
LEMMA CommitInv ==
    ASSUME OwnTables, TypeOK, PendingTxTracked, SyncInv, FlushCommit
    PROVE  SyncInv'
  <1>0. PICK u \in Urls : u = flushUrl
    BY DEF FlushCommit, TypeOK, LockType
  <1>1. PICK ids : ids = {syncs[u].items[k].tx : k \in DOMAIN syncs[u].items}
    OBVIOUS
  <1>2. /\ syncs' = [syncs EXCEPT ![u] = NoSyncs]
        /\ flushUrl' = NoUrl
        /\ CommitSyncs(u)
        /\ AdvanceDurable(RemoveTxLocations(txs, u, ids))
        /\ UNCHANGED <<origin_memory, holder, first_sync, req, next, known, synced>>
    BY <1>0, <1>1 DEF FlushCommit, RemoveSync, clientVars
  <1>3. PICK items : items = syncs[u].items
    OBVIOUS
  <1>4. /\ Grows
        /\ \A k \in DOMAIN items : Persisted(items[k].origin, items[k].pos, u)'
        /\ NoGaps'
    BY <1>0, <1>2, <1>3, CommitStores
  <1>5. TableFlushed(u)
    <2>1. ASSUME NEW k \in DOMAIN syncs[u].items, NEW o, NEW i,
                 syncs[u].items[k].origin = o, syncs[u].items[k].pos = i
          PROVE  Persisted(o, i, u)'
      BY <1>3, <1>4, <2>1
    <2>2. /\ DOMAIN txs' \subseteq DOMAIN txs
          /\ \A t \in DOMAIN txs' : /\ txs'[t].origin = txs[t].origin
                                    /\ txs'[t].sequence = txs[t].sequence
      <3> DEFINE ts == RemoveTxLocations(txs, u, ids)
      <3>1. /\ DOMAIN ts = DOMAIN txs
            /\ \A t \in DOMAIN txs : /\ ts[t].origin = txs[t].origin
                                     /\ ts[t].sequence = txs[t].sequence
        BY DEF RemoveTxLocations, TypeOK, TxType, Transaction
      <3>2. txs' = [t \in DOMAIN ts \ DurableTxs(ts) |-> ts[t]]
        BY <1>2 DEF AdvanceDurable
      <3> HIDE DEF ts
      <3>3. QED
        BY <3>1, <3>2
    <2>3. ASSUME NEW v \in Urls, v # u, NEW k \in DOMAIN syncs[v].items
          PROVE  syncs[v].items[k].tx \in DOMAIN txs'
      <3>1. PICK t : t = syncs[v].items[k].tx
        OBVIOUS
      <3>2. t \in DOMAIN txs /\ v \in txs[t].locations
        BY <3>1 DEF PendingTxTracked
      <3>3. t \in DOMAIN txs'
        BY <1>2, <2>3, <3>2, AdvanceDurableTracked DEF TypeOK
      <3>4. QED
        BY <3>1, <3>3
    <2>4. QED
      BY <1>2, <2>1, <2>2, <2>3 DEF TableFlushed
  <1>6. DurablePersisted'
    <2>1. ASSUME NEW o \in Origins, NEW v \in Urls, NEW i, i \in UpTo(o, origin_durable'[o]),
                 Carries(o, i, v)
          PROVE  Persisted(o, i, v)'
      <3>1. CASE origin_durable'[o] = origin_durable[o]
        BY <1>4, <2>1, <3>1 DEF SyncInv, DurablePersisted, Grows
      <3>2. CASE origin_durable'[o] # origin_durable[o]
        <4>1. PICK t \in DOMAIN txs :
                /\ txs[t].origin = o
                /\ txs[t].sequence = origin_durable'[o]
                /\ txs[t].sequence # NoSeq
                /\ \A w \in Urls : w # u => \A k \in DOMAIN syncs[w].items :
                                      ~(syncs[w].items[k].tx <= t)
          BY <1>2, <3>2, AdvanceDurableFlushed
        <4>2. HeldBy(o, i, v, t)
          BY <2>1, <4>1 DEF SyncInv, TxsHeld
        <4>3. CASE Persisted(o, i, v)
          BY <1>4, <4>3 DEF Grows
        <4>4. CASE ~Persisted(o, i, v)
          <5>1. PICK k \in DOMAIN syncs[v].items : /\ syncs[v].items[k].origin = o
                                                   /\ syncs[v].items[k].pos = i
                                                   /\ syncs[v].items[k].tx <= t
            BY <4>2, <4>4 DEF HeldBy
          <5>2. v = u
            BY <4>1, <5>1
          <5>3. QED
            BY <1>5, <5>1, <5>2 DEF TableFlushed
        <4>5. QED
          BY <4>3, <4>4
      <3>3. QED
        BY <3>1, <3>2
    <2>2. QED
      BY <2>1 DEF DurablePersisted
  <1>7. Stored'
    BY <1>2, <1>4, <1>5, <1>6, InvParts, TableFlushedStored
  <1>8. Clients' /\ Probing'
    BY <1>2, <1>4, <1>5, InvParts, TableFlushedClients
  <1>9. InfosPersisted'
    <2>1. \A v \in Urls : InfoPersisted(info[v], v)'
      BY <1>0, <1>2, CommitInfos
    <2>2. QED
      BY <1>2, <2>1 DEF InfosPersisted
  <1>10. QED
    BY <1>7, <1>8, <1>9 DEF SyncInv, Stored, Clients

----------------------------------------------------------------------------
(* Storing a message                                                       *)

\* The message with sequence number s of origin o belongs to transaction t now,
\* the last one of the map.
Upserted(o, s, t) ==
    /\ DOMAIN txs' = DOMAIN txs \cup {t}
    /\ txs'[t].origin = o
    /\ txs'[t].sequence = s
    /\ t \in DOMAIN txs => txs[t].origin = o /\ txs[t].sequence = NoSeq
    /\ \A t2 \in DOMAIN txs : /\ t2 <= t
                              /\ t2 # t => txs'[t2] = txs[t2] /\ txs[t2].sequence # NoSeq

\* What enqueue_sync's transaction update does, by cases.
LEMMA UpsertTxFacts ==
    ASSUME TxType, TxsOrdered, NEW o \in Origins, NEW m \in Message, NEW t,
           UpsertTx(o, m, t)
    PROVE  Upserted(o, m.seq, t)
  <1>0. \A x \in DOMAIN txs : x \in Nat /\ txs[x] \in Transaction /\ x < nextTx
    BY DEF TxType
  <1>1. CASE /\ t \in PendingTx
             /\ txs[t].origin = o
             /\ txs' = [txs EXCEPT
                          ![t].sequence = IF m.seq = NoSeq THEN @ ELSE m.seq,
                          ![t].locations = IF m.size > 0 THEN @ \cup {m.url} ELSE @]
    <2>1. /\ t \in DOMAIN txs /\ txs[t].sequence = NoSeq
          /\ \A t2 \in DOMAIN txs : t2 <= t
      BY <1>1 DEF PendingTx
    <2>2. DOMAIN txs' = DOMAIN txs /\ \A t2 \in DOMAIN txs : t2 # t => txs'[t2] = txs[t2]
      BY <1>1
    <2>3. txs'[t].origin = o /\ txs'[t].sequence = m.seq
      BY <1>0, <1>1, <2>1 DEF Transaction
    <2>4. \A t2 \in DOMAIN txs : t2 # t => txs[t2].sequence # NoSeq
      <3>1. \A t2 \in DOMAIN txs : t2 # t => t2 < t
        BY <1>0, <2>1
      <3>2. QED
        BY <2>1, <3>1 DEF TxsOrdered
    <2>5. QED
      BY <1>1, <2>1, <2>2, <2>3, <2>4 DEF Upserted
  <1>2. CASE /\ PendingTx = {}
             /\ t = nextTx
             /\ txs' = [x \in DOMAIN txs \cup {t} |->
                          IF x = t THEN [origin |-> o, sequence |-> m.seq,
                                         locations |-> {m.url}]
                                   ELSE txs[x]]
    <2>1. t \notin DOMAIN txs /\ \A t2 \in DOMAIN txs : t2 <= t
      <3>1. nextTx \in Nat
        BY DEF TxType
      <3>2. QED
        BY <1>0, <1>2, <3>1
    <2>2. /\ DOMAIN txs' = DOMAIN txs \cup {t}
          /\ \A t2 \in DOMAIN txs : t2 # t => txs'[t2] = txs[t2]
      BY <1>2
    <2>3. txs'[t].origin = o /\ txs'[t].sequence = m.seq
      BY <1>2
    <2>4. ASSUME NEW t2 \in DOMAIN txs, txs[t2].sequence = NoSeq PROVE FALSE
      <3>1. PICK t3 \in DOMAIN txs : ~(t3 <= t2)
        BY <1>2, <2>4 DEF PendingTx
      <3>2. t2 < t3
        BY <1>0, <3>1
      <3>3. QED
        BY <2>4, <3>2 DEF TxsOrdered
    <2>5. QED
      BY <2>1, <2>2, <2>3, <2>4 DEF Upserted
  <1>3. QED
    BY <1>1, <1>2 DEF UpsertTx

\* Sequence numbers follow the map with the new message, too.
LEMMA UpsertedOrdered ==
    ASSUME TxType, TxsOrdered, SeqsSent, NEW o \in Origins, NEW p \in 1..Len(Script[o]),
           p = next[o], NEW t \in Nat, Upserted(o, Script[o][p].seq, t)
    PROVE  TxsOrdered'
  <1> DEFINE s == Script[o][p].seq
  <1>a. Upserted(o, s, t)
    OBVIOUS
  <1> HIDE DEF s
  <1>b. \A x \in DOMAIN txs : x \in Nat
    BY DEF TxType
  <1>1. ASSUME NEW t1 \in DOMAIN txs', NEW t2 \in DOMAIN txs', t1 < t2
        PROVE  /\ txs'[t1].sequence # NoSeq
               /\ txs'[t1].origin = txs'[t2].origin /\ txs'[t2].sequence # NoSeq
                     => txs'[t1].sequence <= txs'[t2].sequence
    <2>1. t1 \in DOMAIN txs \cup {t} /\ t2 \in DOMAIN txs \cup {t}
      BY <1>a DEF Upserted
    <2>2. t1 # t
      <3>1. SUFFICES ASSUME t1 = t PROVE FALSE
        OBVIOUS
      <3>2. t2 <= t
        BY <1>a, <2>1 DEF Upserted
      <3>3. t2 \in Nat
        BY <1>b, <2>1
      <3>4. QED
        BY <1>1, <3>1, <3>2, <3>3
    <2>3. t1 \in DOMAIN txs /\ txs'[t1] = txs[t1] /\ txs[t1].sequence # NoSeq
      BY <1>a, <2>1, <2>2 DEF Upserted
    <2>4. CASE t2 # t
      <3>1. t2 \in DOMAIN txs /\ txs'[t2] = txs[t2]
        BY <1>a, <2>1, <2>4 DEF Upserted
      <3>2. QED
        BY <1>1, <2>3, <3>1 DEF TxsOrdered
    <2>5. CASE t2 = t
      <3>1. txs'[t2].origin = o /\ txs'[t2].sequence = s
        BY <1>a, <2>5 DEF Upserted
      <3>2. ASSUME txs[t1].origin = o, s # NoSeq
            PROVE  txs[t1].sequence <= s
        <4>1. PICK q \in 1..Len(Script[o]) : q <= next[o] /\ Script[o][q].seq = txs[t1].sequence
          BY <2>3, <3>2 DEF SeqsSent, Sent
        <4>2. QED
          BY <1>a, <2>3, <3>2, <4>1, SeqIncreases DEF s
      <3>3. QED
        BY <2>3, <3>1, <3>2
    <2>6. QED
      BY <2>4, <2>5
  <1>2. QED
    BY <1>1 DEF TxsOrdered

\* Sequence numbers in the transactions stay those of messages sent.
LEMMA UpsertedSent ==
    ASSUME SeqsSent, NEW o \in Origins, NEW p \in 1..Len(Script[o]), p = next[o],
           NEW t, Upserted(o, Script[o][p].seq, t), UNCHANGED next
    PROVE  SeqsSent'
  <1>1. ASSUME NEW t2 \in DOMAIN txs', txs'[t2].sequence # NoSeq,
               NEW o2, o2 = txs'[t2].origin, NEW s2, s2 = txs'[t2].sequence
        PROVE  Sent(o2, s2)'
    <2>1. CASE t2 = t
      <3>1. o2 = o /\ s2 = Script[o][p].seq
        BY <1>1, <2>1 DEF Upserted
      <3>2. p <= next'[o]
        BY ScriptLen
      <3>3. QED
        BY <3>1, <3>2 DEF Sent
    <2>2. CASE t2 # t
      <3>1. t2 \in DOMAIN txs /\ txs'[t2] = txs[t2]
        BY <2>2 DEF Upserted
      <3>2. QED
        BY <1>1, <3>1 DEF SeqsSent, Sent
    <2>3. QED
      BY <2>1, <2>2
  <1>2. QED
    BY <1>1 DEF SeqsSent

\* A client that enqueues has probed before.
LEMMA UpsertedProbing ==
    ASSUME TypeOK, Probing, NEW o \in Origins, synced[o], NEW s, NEW t,
           Upserted(o, s, t), UNCHANGED <<synced, first_sync>>,
           \/ req' = [req EXCEPT ![o].phase = "held"]
           \/ req' = [req EXCEPT ![o] = Idle]
    PROVE  Probing'
  <1>1. ~first_sync /\ ~req[o].first
    BY DEF Probing
  <1>2. ~req'[o].first
    BY <1>1 DEF TypeOK, ClientType, Request, Idle
  <1>3. \A o2 \in Origins : o2 # o => req'[o2] = req[o2]
    BY DEF TypeOK, ClientType
  <1>4. ASSUME NEW o2 \in Origins, ~synced[o2], NEW t2 \in DOMAIN txs'
        PROVE  txs'[t2].origin # o2
    <2>1. CASE t2 = t
      BY <1>4, <2>1 DEF Upserted
    <2>2. CASE t2 # t
      <3>1. t2 \in DOMAIN txs /\ txs'[t2] = txs[t2]
        BY <2>2 DEF Upserted
      <3>2. QED
        BY <1>4, <3>1 DEF Probing
    <2>3. QED
      BY <2>1, <2>2
  <1>5. ASSUME NEW o2 \in Origins
        PROVE  /\ synced[o2] => ~req'[o2].first
               /\ ~synced[o2] => req'[o2].phase = "idle" \/ req'[o2].probe
    BY <1>2, <1>3 DEF Probing
  <1>6. QED
    BY <1>1, <1>4, <1>5 DEF Probing

\* Message i of o, of transaction t, is in the buffer at the end of its table,
\* and nothing else has changed there.
PushedTo(o, i, t, v) ==
    /\ \A k \in DOMAIN syncs[v].items : /\ k \in DOMAIN syncs'[v].items
                                        /\ syncs'[v].items[k] = syncs[v].items[k]
    /\ \A k \in DOMAIN syncs'[v].items :
          \/ k \in DOMAIN syncs[v].items
          \/ /\ k = Len(syncs[v].items) + 1
             /\ Carries(o, i, v)
             /\ syncs'[v].items[k].origin = o
             /\ syncs'[v].items[k].pos = i
             /\ syncs'[v].items[k].tx = t
    /\ Carries(o, i, v) => \E k \in DOMAIN syncs'[v].items :
                              /\ syncs'[v].items[k].origin = o
                              /\ syncs'[v].items[k].pos = i
                              /\ syncs'[v].items[k].tx = t

Pushed(o, i, t) == \A v \in Urls : PushedTo(o, i, t, v)

\* What the push onto a collection does.
LEMMA PushItemFacts ==
    ASSUME BufferType, NEW o \in Origins, NEW i \in 1..Len(Script[o]), NEW t, NEW m,
           m = Script[o][i],
           IF m.size > 0
           THEN PushItem(m.url, [tx |-> t, origin |-> o, pos |-> i, size |-> m.size])
           ELSE UNCHANGED bufferVars
    PROVE  Pushed(o, i, t)
  <1>1. m.url \in Urls /\ m.size \in Nat
    BY MessageType
  <1>2. CASE ~(m.size > 0)
    <2>1. syncs' = syncs
      BY <1>2 DEF bufferVars
    <2>2. \A v : ~Carries(o, i, v)
      BY <1>2 DEF Carries
    <2>3. QED
      BY <2>1, <2>2 DEF Pushed, PushedTo
  <1>3. CASE m.size > 0
    <2>1. PICK item : item = [tx |-> t, origin |-> o, pos |-> i, size |-> m.size]
      OBVIOUS
    <2>2. item.tx = t /\ item.origin = o /\ item.pos = i
      BY <2>1
    <2>3. syncs' = [syncs EXCEPT ![m.url].size = @ + item.size,
                                 ![m.url].items = Append(@, item)]
      BY <1>3, <2>1 DEF PushItem
    <2>4. \A v \in Urls : v # m.url => syncs'[v].items = syncs[v].items
      BY <2>3 DEF BufferType
    <2>5. syncs'[m.url].items = Append(syncs[m.url].items, item)
      BY <1>1, <2>3 DEF BufferType
    <2>6. \A v : Carries(o, i, v) <=> v = m.url
      BY <1>3 DEF Carries
    <2>7. PICK old : old = syncs[m.url].items
      OBVIOUS
    <2>8. old \in Seq(Item) /\ Len(old) \in Nat
      BY <1>1, <2>7 DEF BufferType
    <2>9. PICK new : new = Append(old, item)
      OBVIOUS
    <2>10. /\ DOMAIN old = 1..Len(old) /\ DOMAIN new = 1..(Len(old) + 1)
           /\ \A k \in 1..Len(old) : new[k] = old[k]
           /\ new[Len(old) + 1] = item
      BY <2>8, <2>9
    <2>11. /\ \A k \in DOMAIN old : k \in DOMAIN new /\ new[k] = old[k]
           /\ \A k \in DOMAIN new : \/ k \in DOMAIN old
                                    \/ k = Len(old) + 1 /\ new[k] = item
           /\ Len(old) + 1 \in DOMAIN new
      BY <2>8, <2>10
    <2>12. syncs'[m.url].items = new
      BY <2>5, <2>7, <2>9
    <2>13. ASSUME NEW v \in Urls, v # m.url
           PROVE  /\ DOMAIN syncs'[v].items = DOMAIN syncs[v].items
                  /\ \A k \in DOMAIN syncs[v].items : syncs'[v].items[k] = syncs[v].items[k]
                  /\ ~Carries(o, i, v)
      BY <2>4, <2>6, <2>13
    <2>14. /\ \A k \in DOMAIN syncs[m.url].items :
                 /\ k \in DOMAIN syncs'[m.url].items
                 /\ syncs'[m.url].items[k] = syncs[m.url].items[k]
           /\ \A k \in DOMAIN syncs'[m.url].items :
                 \/ k \in DOMAIN syncs[m.url].items
                 \/ k = Len(syncs[m.url].items) + 1 /\ syncs'[m.url].items[k] = item
           /\ \E k \in DOMAIN syncs'[m.url].items : syncs'[m.url].items[k] = item
      BY <2>7, <2>10, <2>11, <2>12
    <2>15. PushedTo(o, i, t, m.url)
      BY <2>2, <2>6, <2>14 DEF PushedTo
    <2>16. ASSUME NEW v \in Urls, v # m.url PROVE PushedTo(o, i, t, v)
      BY <2>13, <2>16 DEF PushedTo
    <2>17. QED
      BY <2>15, <2>16 DEF Pushed
  <1>4. QED
    BY <1>2, <1>3

\* A message that was held is still held after a push.
LEMMA PushedHeld ==
    ASSUME NEW o, NEW p, NEW t \in Nat, Pushed(o, p, t), UNCHANGED applied,
           NEW v \in Urls, NEW o2, NEW i
    PROVE  /\ Buffered(o2, i, v) => Buffered(o2, i, v)'
           /\ Held(o2, i, v) => Held(o2, i, v)'
           /\ \A t2 : HeldBy(o2, i, v, t2) => HeldBy(o2, i, v, t2)'
           /\ \A n : Among(o2, i, v, n) => Among(o2, i, v, n)'
           /\ Carries(o, p, v) => HeldBy(o, p, v, t)' /\ Buffered(o, p, v)'
  <1>0. PushedTo(o, p, t, v)
    BY DEF Pushed
  <1>1. Persisted(o2, i, v)' <=> Persisted(o2, i, v)
    BY DEF Persisted
  <1>2. Buffered(o2, i, v) => Buffered(o2, i, v)'
    BY <1>0 DEF PushedTo, Buffered
  <1>3. ASSUME NEW t2, HeldBy(o2, i, v, t2) PROVE HeldBy(o2, i, v, t2)'
    BY <1>0, <1>1, <1>3 DEF PushedTo, HeldBy
  <1>4. ASSUME NEW n, Among(o2, i, v, n) PROVE Among(o2, i, v, n)'
    BY <1>0, <1>4 DEF PushedTo, Among
  <1>5. ASSUME Carries(o, p, v) PROVE HeldBy(o, p, v, t)' /\ Buffered(o, p, v)'
    <2>1. PICK k \in DOMAIN syncs'[v].items : /\ syncs'[v].items[k].origin = o
                                              /\ syncs'[v].items[k].pos = p
                                              /\ syncs'[v].items[k].tx = t
      BY <1>0, <1>5 DEF PushedTo
    <2>2. t <= t
      OBVIOUS
    <2>3. QED
      BY <2>1, <2>2 DEF HeldBy, Buffered
  <1>6. QED
    BY <1>1, <1>2, <1>3, <1>4, <1>5 DEF Held

\* What enqueue_sync does to the state, for message p of origin o.
Stores(o, p, t) ==
    /\ p \in 1..Len(Script[o]) /\ p = next[o] /\ synced[o]
    /\ Upserted(o, Script[o][p].seq, t)
    /\ Pushed(o, p, t)
    /\ origin_memory' = IF Script[o][p].seq = NoSeq THEN origin_memory
                        ELSE [origin_memory EXCEPT ![o] = Script[o][p].seq]
    /\ UNCHANGED <<applied, origin_durable, next, known, synced, first_sync>>

\* With message p, all messages of the origin up to p are held by transactions
\* up to the one of p.
LEMMA StoresHeld ==
    ASSUME TypeOK, SyncInv, NEW o \in Origins, NEW p, NEW t \in Nat, Stores(o, p, t),
           NEW i \in 1..p, NEW v \in Urls, Carries(o, i, v)
    PROVE  /\ HeldBy(o, i, v, t)' /\ Held(o, i, v)'
           /\ i # p => Held(o, i, v)
  <1>0. Pushed(o, p, t) /\ UNCHANGED applied /\ p \in Nat
    BY ScriptLen DEF Stores
  <1>1. CASE i = p
    BY <1>0, <1>1, PushedHeld DEF Held
  <1>2. CASE i # p
    <2>1. i \in 1..Len(Script[o]) /\ i < next[o]
      BY <1>2, ScriptLen DEF Stores
    <2>2. Held(o, i, v)
      BY <2>1 DEF SyncInv, SentHeld, Passed, Stores
    <2>3. HeldBy(o, i, v, t)
      <3>1. CASE Persisted(o, i, v)
        BY <3>1 DEF HeldBy
      <3>2. CASE Buffered(o, i, v)
        <4>1. PICK k \in DOMAIN syncs[v].items : /\ syncs[v].items[k].origin = o
                                                 /\ syncs[v].items[k].pos = i
          BY <3>2 DEF Buffered
        <4>2. syncs[v].items[k].tx \in DOMAIN txs
          BY DEF SyncInv, ItemsLinked, ItemLinked
        <4>3. syncs[v].items[k].tx <= t
          BY <4>2 DEF Stores, Upserted
        <4>4. QED
          BY <4>1, <4>3 DEF HeldBy
      <3>3. QED
        BY <2>2, <3>1, <3>2 DEF Held
    <2>4. QED
      BY <1>0, <2>2, <2>3, PushedHeld
  <1>3. QED
    BY <1>1, <1>2

\* Enqueuing keeps what the invariant says of transactions and items.
LEMMA StoresStored ==
    ASSUME TypeOK, SyncInv, NEW o \in Origins, NEW p, NEW t \in Nat, Stores(o, p, t)
    PROVE  Stored'
  <1> DEFINE s == Script[o][p].seq
  <1>0. /\ Pushed(o, p, t) /\ Upserted(o, s, t)
        /\ UNCHANGED <<applied, origin_durable, next>>
        /\ p \in 1..Len(Script[o]) /\ p = next[o]
        /\ s \in Nat \cup {NoSeq}
    BY MessageType DEF Stores
  <1>1. s # NoSeq => UpTo(o, s) = 1..p
    BY <1>0, UpToMessage
  <1> HIDE DEF s
  <1>2. \A x \in DOMAIN txs : x \in Nat /\ txs[x].origin \in Origins
                                        /\ txs[x].sequence \in Nat \cup {NoSeq}
    BY DEF TypeOK, TxType, Transaction
  <1>3. ItemsOrdered'
    <2>1. ASSUME NEW v \in Urls, NEW j \in DOMAIN syncs'[v].items,
                 NEW k \in DOMAIN syncs'[v].items, j < k
          PROVE  syncs'[v].items[j].tx <= syncs'[v].items[k].tx
      <3>0. PushedTo(o, p, t, v)
        BY <1>0 DEF Pushed
      <3>1. CASE k \in DOMAIN syncs[v].items /\ j \in DOMAIN syncs[v].items
        <4>1. syncs'[v].items[k] = syncs[v].items[k] /\ syncs'[v].items[j] = syncs[v].items[j]
          BY <3>0, <3>1 DEF PushedTo
        <4>2. QED
          BY <2>1, <3>1, <4>1 DEF SyncInv, ItemsOrdered
      <3>2. CASE k \notin DOMAIN syncs[v].items /\ j \in DOMAIN syncs[v].items
        <4>1. syncs'[v].items[j] = syncs[v].items[j] /\ syncs'[v].items[k].tx = t
          BY <3>0, <3>2 DEF PushedTo
        <4>2. syncs[v].items[j].tx \in DOMAIN txs
          BY <3>2 DEF SyncInv, ItemsLinked, ItemLinked
        <4>3. QED
          BY <1>0, <4>1, <4>2 DEF Upserted
      <3>3. CASE j \notin DOMAIN syncs[v].items
        <4>1. j = Len(syncs[v].items) + 1
          BY <3>0, <3>3 DEF PushedTo
        <4>2. \/ k \in DOMAIN syncs[v].items
              \/ k = Len(syncs[v].items) + 1
          BY <3>0 DEF PushedTo
        <4>3. /\ Len(syncs[v].items) \in Nat
              /\ DOMAIN syncs[v].items = 1..Len(syncs[v].items)
          BY DEF TypeOK, BufferType
        <4>4. QED
          BY <2>1, <4>1, <4>2, <4>3
      <3>4. QED
        BY <3>1, <3>2, <3>3
    <2>2. QED
      BY <2>1 DEF ItemsOrdered
  <1>4. TxsOrdered'
    BY <1>0, UpsertedOrdered DEF TypeOK, SyncInv, s
  <1>5. TxsHeld'
    <2>1. ASSUME NEW t2 \in DOMAIN txs', txs'[t2].sequence # NoSeq, NEW v \in Urls,
                 NEW o2, o2 = txs'[t2].origin, NEW i, i \in UpTo(o2, txs'[t2].sequence),
                 Carries(o2, i, v)
          PROVE  HeldBy(o2, i, v, t2)'
      <3>1. CASE t2 = t
        <4>1. o2 = o /\ txs'[t2].sequence = s
          BY <1>0, <2>1, <3>1 DEF Upserted
        <4>2. i \in 1..p
          BY <1>1, <2>1, <4>1
        <4>3. QED
          BY <2>1, <3>1, <4>1, <4>2, StoresHeld
      <3>2. CASE t2 # t
        <4>1. t2 \in DOMAIN txs /\ txs'[t2] = txs[t2]
          BY <1>0, <3>2 DEF Upserted
        <4>2. HeldBy(o2, i, v, t2)
          BY <2>1, <4>1 DEF SyncInv, TxsHeld
        <4>3. QED
          BY <1>0, <4>2, PushedHeld
      <3>3. QED
        BY <3>1, <3>2
    <2>2. QED
      BY <2>1 DEF TxsHeld
  <1>6. ItemsGapFree'
    <2>1. ASSUME NEW v \in Urls, NEW k \in DOMAIN syncs'[v].items,
                 NEW o2, o2 = syncs'[v].items[k].origin,
                 NEW j \in 1..(syncs'[v].items[k].pos - 1), Carries(o2, j, v)
          PROVE  Persisted(o2, j, v)' \/ Among(o2, j, v, k - 1)'
      <3>0. PushedTo(o, p, t, v)
        BY <1>0 DEF Pushed
      <3>1. CASE k \in DOMAIN syncs[v].items
        <4>1. syncs'[v].items[k] = syncs[v].items[k]
          BY <3>0, <3>1 DEF PushedTo
        <4>2. Persisted(o2, j, v) \/ Among(o2, j, v, k - 1)
          BY <2>1, <3>1, <4>1 DEF SyncInv, ItemsGapFree
        <4>3. Persisted(o2, j, v) => Persisted(o2, j, v)'
          BY <1>0 DEF Persisted
        <4>4. QED
          BY <1>0, <4>2, <4>3, PushedHeld
      <3>2. CASE k \notin DOMAIN syncs[v].items
        <4>1. /\ k = Len(syncs[v].items) + 1 /\ o2 = o
              /\ syncs'[v].items[k].pos = p
          BY <2>1, <3>0, <3>2 DEF PushedTo
        <4>2. j \in 1..p /\ j # p
          BY <1>0, <4>1, ScriptLen
        <4>3. Held(o, j, v)
          BY <2>1, <4>1, <4>2, StoresHeld
        <4>4. /\ Len(syncs[v].items) \in Nat
              /\ DOMAIN syncs[v].items = 1..Len(syncs[v].items)
          BY DEF TypeOK, BufferType
        <4>5. k - 1 = Len(syncs[v].items)
          BY <4>1, <4>4
        <4>6. Buffered(o, j, v) => Among(o, j, v, k - 1)
          BY <4>4, <4>5 DEF Buffered, Among
        <4>7. Persisted(o, j, v) => Persisted(o, j, v)'
          BY <1>0 DEF Persisted
        <4>8. QED
          BY <1>0, <4>1, <4>3, <4>6, <4>7, PushedHeld DEF Held
      <3>3. QED
        BY <3>1, <3>2
    <2>2. QED
      BY <2>1 DEF ItemsGapFree
  <1>7. DurablePersisted' /\ NoGaps'
    BY <1>0 DEF SyncInv, DurablePersisted, NoGaps, Persisted
  <1>8. MemoryHeld'
    <2>1. ASSUME NEW o2 \in Origins, NEW v \in Urls, NEW i, i \in UpTo(o2, origin_memory'[o2]),
                 Carries(o2, i, v)
          PROVE  Held(o2, i, v)'
      <3>1. CASE o2 = o /\ s # NoSeq
        <4>1. origin_memory'[o] = s
          BY <3>1 DEF Stores, s, TypeOK, SeqType
        <4>2. i \in 1..p
          BY <1>1, <2>1, <3>1, <4>1
        <4>3. QED
          BY <2>1, <3>1, <4>2, StoresHeld
      <3>2. CASE ~(o2 = o /\ s # NoSeq)
        <4>1. origin_memory'[o2] = origin_memory[o2]
          BY <3>2 DEF Stores, s, TypeOK, SeqType
        <4>2. Held(o2, i, v)
          BY <2>1, <4>1 DEF SyncInv, MemoryHeld, Held
        <4>3. QED
          BY <1>0, <4>2, PushedHeld
      <3>3. QED
        BY <3>1, <3>2
    <2>2. QED
      BY <2>1 DEF MemoryHeld, Held
  <1>9. QED
    BY <1>3, <1>4, <1>5, <1>6, <1>7, <1>8 DEF Stored

\* It keeps what the invariant says of clients.
LEMMA StoresClients ==
    ASSUME TypeOK, SyncInv, NEW o \in Origins, NEW p, NEW t \in Nat, Stores(o, p, t),
           holder' = o
    PROVE  Clients'
  <1> DEFINE s == Script[o][p].seq
  <1>0. /\ Pushed(o, p, t) /\ Upserted(o, s, t)
        /\ UNCHANGED <<applied, next, known, synced>>
        /\ p \in 1..Len(Script[o]) /\ p = next[o] /\ p \in Nat
    BY ScriptLen DEF Stores
  <1>1. s # NoSeq => UpTo(o, s) = 1..p
    BY <1>0, UpToMessage
  <1> HIDE DEF s
  <1>3. ItemsLinked'
    <2>1. ASSUME NEW v \in Urls, NEW k \in DOMAIN syncs'[v].items,
                 NEW item, item = syncs'[v].items[k]
          PROVE  ItemLinked(item, v)'
      <3>0. PushedTo(o, p, t, v)
        BY <1>0 DEF Pushed
      <3>1. CASE k \in DOMAIN syncs[v].items
        <4>1. item = syncs[v].items[k]
          BY <2>1, <3>0, <3>1 DEF PushedTo
        <4>2. ItemLinked(item, v)
          BY <3>1, <4>1 DEF SyncInv, ItemsLinked
        <4>3. item.tx \in DOMAIN txs /\ item.tx \in DOMAIN txs'
          BY <1>0, <4>2 DEF ItemLinked, Upserted
        <4>4. CASE item.tx # t
          <5>1. txs'[item.tx] = txs[item.tx]
            BY <1>0, <4>3, <4>4 DEF Upserted
          <5>2. QED
            BY <1>0, <4>2, <4>3, <5>1 DEF ItemLinked
        <4>5. CASE item.tx = t
          <5>1. /\ txs'[item.tx].origin = o /\ txs'[item.tx].sequence = s
                /\ item.origin = o
            BY <1>0, <4>2, <4>3, <4>5 DEF Upserted, ItemLinked
          <5>2. item.pos \in 1..p
            BY <1>0, <4>2, <5>1, ScriptLen DEF ItemLinked
          <5>3. s # NoSeq => item.pos \in UpTo(o, s)
            BY <1>1, <5>2
          <5>4. QED
            BY <1>0, <4>2, <4>3, <5>1, <5>3 DEF ItemLinked
        <4>6. QED
          BY <4>4, <4>5
      <3>2. CASE k \notin DOMAIN syncs[v].items
        <4>1. item.origin = o /\ item.pos = p /\ item.tx = t /\ Carries(o, p, v)
          BY <2>1, <3>0, <3>2 DEF PushedTo
        <4>2. t \in DOMAIN txs' /\ txs'[t].origin = o /\ txs'[t].sequence = s
          BY <1>0 DEF Upserted
        <4>3. p <= next'[o] /\ p \in 1..p
          BY <1>0
        <4>4. QED
          BY <1>0, <1>1, <4>1, <4>2, <4>3 DEF ItemLinked
      <3>3. QED
        BY <3>1, <3>2
    <2>2. QED
      BY <2>1 DEF ItemsLinked
  <1>4. SeqsSent'
    BY <1>0, UpsertedSent DEF SyncInv, s
  <1>5. KnownPersisted'
    BY <1>0 DEF SyncInv, KnownPersisted, Persisted
  <1>6. SentHeld'
    <2>1. ASSUME NEW o2 \in Origins, synced[o2], NEW v \in Urls,
                 NEW i \in 1..Len(Script[o2]), Passed(o2, i)', Carries(o2, i, v)
          PROVE  Held(o2, i, v)'
      <3>1. CASE o2 # o
        <4>1. Passed(o2, i)
          BY <1>0, <2>1, <3>1 DEF Passed
        <4>2. Held(o2, i, v)
          BY <2>1, <4>1 DEF SyncInv, SentHeld
        <4>3. QED
          BY <1>0, <4>2, PushedHeld
      <3>2. CASE o2 = o
        <4>1. i < p \/ i = p
          BY <1>0, <2>1, <3>2 DEF Passed
        <4>2. i \in 1..p
          BY <1>0, <4>1
        <4>3. QED
          BY <2>1, <3>2, <4>2, StoresHeld
      <3>3. QED
        BY <3>1, <3>2
    <2>2. QED
      BY <1>0, <2>1 DEF SentHeld
  <1>7. QED
    BY <1>3, <1>4, <1>5, <1>6 DEF Clients

\* enqueue_sync, accepting the message.
LEMMA EnqueueInv ==
    ASSUME TypeOK, SyncInv, NEW o \in Origins, Enqueue(o)
    PROVE  SyncInv'
  <1>1. PICK p : p = next[o]
    OBVIOUS
  <1>2. PICK m : m = Script[o][p]
    OBVIOUS
  <1>3. /\ req[o].phase = "wait" /\ ~req[o].probe
        /\ holder' = o
        /\ req' = [req EXCEPT ![o].phase = "held"]
        /\ UNCHANGED <<applied, origin_durable, next, known, synced, first_sync,
                       info, flushUrl, flushInfo>>
    BY DEF Enqueue, Waiting, clientVars, lakeVars
  <1>4. origin_memory' = IF m.seq = NoSeq THEN origin_memory
                         ELSE [origin_memory EXCEPT ![o] = m.seq]
    BY <1>1, <1>2 DEF Enqueue
  <1>5. PICK t \in PendingTx \cup {nextTx} :
          /\ UpsertTx(o, m, t)
          /\ IF m.size > 0
             THEN PushItem(m.url, [tx |-> t, origin |-> o, pos |-> p, size |-> m.size])
             ELSE UNCHANGED bufferVars
    BY <1>1, <1>2 DEF Enqueue
  <1>6. p \in 1..Len(Script[o])
    BY <1>1, <1>3, ScriptLen DEF TypeOK, ClientType
  <1>7. m \in Message
    BY <1>2, <1>6, MessageType
  <1>8. t \in Nat
    BY DEF PendingTx, TypeOK, TxType
  <1>9. synced[o] /\ ~first_sync
    BY <1>3 DEF SyncInv, Probing
  <1>10. Upserted(o, m.seq, t)
    BY <1>5, <1>7, UpsertTxFacts DEF TypeOK, SyncInv
  <1>11. Pushed(o, p, t)
    BY <1>2, <1>5, <1>6, PushItemFacts DEF TypeOK
  <1>12. Stores(o, p, t)
    BY <1>1, <1>2, <1>3, <1>4, <1>6, <1>9, <1>10, <1>11 DEF Stores
  <1>13. Stored'
    BY <1>8, <1>12, StoresStored
  <1>14. Clients'
    BY <1>3, <1>8, <1>12, StoresClients
  <1>15. Probing'
    BY <1>3, <1>9, <1>10, UpsertedProbing DEF SyncInv
  <1>16. InfosPersisted'
    BY <1>3 DEF SyncInv, InfosPersisted, InfoPersisted, Persisted
  <1>17. QED
    BY <1>13, <1>14, <1>15, <1>16 DEF SyncInv, Stored, Clients

----------------------------------------------------------------------------
(* All steps                                                               *)

\* Tables that only grow keep what their commit infos say.
LEMMA InfosUnchanged ==
    ASSUME InfosPersisted, Grows, UNCHANGED info,
           flushUrl' = NoUrl \/ UNCHANGED <<flushUrl, flushInfo>>,
           flushUrl \in Urls \cup {NoUrl}
    PROVE  InfosPersisted'
  BY DEF InfosPersisted, InfoPersisted, Grows

\* Steps that change neither the buffer nor what the clients have got.
LEMMA QuietInv ==
    ASSUME SyncInv, Grows, NoGaps', Probing', InfosPersisted',
           UNCHANGED <<txs, syncs, origin_durable, origin_memory, next, known, synced>>,
           holder' \in {holder, Nobody, FlushTask}
    PROVE  SyncInv'
  <1>1. Stored'
    BY StoredGrows, InvParts
  <1>2. Clients'
    BY ClientsGrow, InvParts
  <1>3. QED
    BY <1>1, <1>2 DEF SyncInv, Stored, Clients

\* Requests, probes and lock timeouts.
LEMMA ClientInv ==
    ASSUME TypeOK, SyncInv, NEW o \in Origins, Client(o)
    PROVE  SyncInv'
  <1>1. UNCHANGED <<txs, syncs, origin_durable, origin_memory, holder, flushUrl,
                    flushInfo, info, applied>>
    BY DEF Client, Send, StoreFirst, Probe, LockTimeout, txVars, bufferVars, seqVars,
         lockVars, lakeVars
  <1>2. Grows /\ NoGaps'
    BY <1>1, LakeUnchanged DEF SyncInv
  <1>3. InfosPersisted'
    BY <1>1, <1>2, InfosUnchanged DEF SyncInv, TypeOK, LockType
  <1>4. CASE Send(o)
    <2>1. Probing'
      BY <1>4, SendProbing DEF SyncInv
    <2>2. UNCHANGED <<next, known, synced>>
      BY <1>4 DEF Send, clientVars
    <2>3. QED
      BY <1>1, <1>2, <1>3, <2>1, <2>2, QuietInv
  <1>5. CASE StoreFirst(o)
    <2>1. Probing'
      BY <1>5, StoreFirstProbing DEF SyncInv
    <2>2. UNCHANGED <<next, known, synced>>
      BY <1>5 DEF StoreFirst, clientVars
    <2>3. QED
      BY <1>1, <1>2, <1>3, <2>1, <2>2, QuietInv
  <1>6. CASE Probe(o) \/ LockTimeout(o)
    <2>1. Stored'
      BY <1>1, <1>2, StoredGrows, InvParts
    <2>2. Clients' /\ Probing'
      <3>1. Probing /\ Clients /\ DurablePersisted
        BY DEF SyncInv, Clients
      <3>2. CASE Probe(o)
        <4>1. /\ req[o].phase \in {"wait", "held"} /\ req[o].probe
              /\ Respond(o, TRUE, origin_durable[o])
              /\ UNCHANGED first_sync
          BY <3>2 DEF Probe, Waiting
        <4>2. QED
          BY <1>1, <3>1, <4>1, RespondClients
      <3>3. CASE LockTimeout(o)
        <4>1. /\ req[o].phase \in {"wait", "held"}
              /\ Respond(o, FALSE, NoSeq)
              /\ UNCHANGED first_sync
          BY <3>3 DEF LockTimeout, Waiting
        <4>2. QED
          BY <1>1, <3>1, <4>1, RespondClients
      <3>4. QED
        BY <1>6, <3>2, <3>3
    <2>3. QED
      BY <1>3, <2>1, <2>2 DEF SyncInv, Stored, Clients
  <1>7. QED
    BY <1>4, <1>5, <1>6 DEF Client

\* The handler's steps under the lock.
LEMMA HandlerInv ==
    ASSUME OwnTables, TypeOK, SyncInv, NEW o \in Origins, Handler(o)
    PROVE  SyncInv'
  <1>1. CASE Enqueue(o)
    BY <1>1, EnqueueInv
  <1>2. CASE EnqueueRejected(o)
    <2>1. /\ req' = [req EXCEPT ![o] = Idle]
          /\ UNCHANGED <<txs, syncs, origin_durable, origin_memory, holder, flushUrl,
                         flushInfo, info, applied, next, known, synced, first_sync>>
      BY <1>2 DEF EnqueueRejected, txVars, bufferVars, seqVars, lockVars, clientVars,
           lakeVars
    <2>2. Grows /\ NoGaps'
      BY <2>1, LakeUnchanged DEF SyncInv
    <2>3. InfosPersisted'
      BY <2>1, <2>2, InfosUnchanged DEF SyncInv, TypeOK, LockType
    <2>4. \A o2 \in Origins : req'[o2] \in {req[o2], Idle}
      BY <2>1 DEF TypeOK, ClientType
    <2>5. Probing'
      BY <2>1, <2>4, ProbingUnchanged DEF SyncInv
    <2>6. QED
      BY <2>1, <2>2, <2>3, <2>5, QuietInv
  <1>3. CASE EnqueueSquashFails(o)
    BY <1>3 DEF EnqueueSquashFails, Fault, OwnTables
  <1>4. QED
    BY <1>1, <1>2, <1>3 DEF Handler

\* The steps of a flush.
LEMMA FlushInv ==
    ASSUME OwnTables, TypeOK, PendingTxTracked, SyncInv, Flush
    PROVE  SyncInv'
  <1>1. CASE FlushLoad
    <2>1. UNCHANGED <<txs, syncs, origin_durable, origin_memory, holder, info, applied,
                      next, known, synced, first_sync, req>>
      BY <1>1 DEF FlushLoad, txVars, bufferVars, seqVars, clientVars
    <2>2. Grows /\ NoGaps'
      BY <2>1, LakeUnchanged DEF SyncInv
    <2>3. PICK u \in Urls : flushUrl' = u /\ flushInfo' = info[u]
      BY <1>1, FlushReadyType DEF FlushLoad, TableSequence, TypeOK
    <2>4. InfosPersisted'
      BY <2>1, <2>2, <2>3 DEF SyncInv, InfosPersisted, InfoPersisted, Grows
    <2>5. Probing'
      BY <2>1, ProbingUnchanged DEF SyncInv
    <2>6. QED
      BY <2>1, <2>2, <2>4, <2>5, QuietInv
  <1>2. CASE FlushSkipAll
    BY <1>2, SkipAllInv
  <1>3. CASE FlushCommit
    BY <1>3, CommitInv
  <1>4. CASE FlushEnd
    <2>1. /\ holder' = Nobody
          /\ UNCHANGED <<txs, syncs, origin_durable, origin_memory, flushUrl, flushInfo,
                         info, applied, first_sync>>
      BY <1>4 DEF FlushEnd, txVars, bufferVars, seqVars, lakeVars
    <2>2. Grows /\ NoGaps'
      BY <2>1, LakeUnchanged DEF SyncInv
    <2>3. InfosPersisted'
      BY <2>1, <2>2, InfosUnchanged DEF SyncInv, TypeOK, LockType
    <2>4. CASE holder = FlushTask
      <3>1. UNCHANGED <<req, next, known, synced>>
        BY <1>4, <2>4 DEF FlushEnd, clientVars
      <3>2. Probing'
        BY <2>1, <3>1, ProbingUnchanged DEF SyncInv
      <3>3. QED
        BY <2>1, <2>2, <2>3, <3>1, <3>2, QuietInv
    <2>5. CASE holder # FlushTask
      <3>1. PICK o \in Origins : o = holder
        BY <1>4, <2>5 DEF FlushEnd, TypeOK, LockType
      <3>2. Respond(o, TRUE, origin_durable[o])
        BY <1>4, <2>5, <3>1 DEF FlushEnd
      <3>3. req[o].phase \in {"wait", "held"}
        BY <3>1 DEF TypeOK, LockType
      <3>4. Probing /\ Clients /\ DurablePersisted
        BY DEF SyncInv, Clients
      <3>5. Clients' /\ Probing'
        BY <2>1, <3>1, <3>2, <3>3, <3>4, RespondClients
      <3>6. Stored'
        BY <2>1, <2>2, StoredGrows, InvParts
      <3>7. QED
        BY <2>3, <3>5, <3>6 DEF SyncInv, Stored, Clients
    <2>6. QED
      BY <2>4, <2>5
  <1>5. QED
    BY <1>1, <1>2, <1>3, <1>4 DEF Flush

\* A lost commit, or none.
LEMMA LakeStep ==
    ASSUME OwnTables, TypeOK, SyncInv,
           UNCHANGED lakeVars \/ (flushUrl # NoUrl /\ CommitSyncs(flushUrl)),
           flushUrl' = NoUrl
    PROVE  Grows /\ NoGaps' /\ InfosPersisted'
  <1>1. CASE UNCHANGED lakeVars
    <2>1. UNCHANGED <<info, applied>>
      BY <1>1 DEF lakeVars
    <2>2. Grows /\ NoGaps'
      BY <2>1, LakeUnchanged DEF SyncInv
    <2>3. InfosPersisted'
      BY <2>1, <2>2, InfosUnchanged DEF SyncInv, TypeOK, LockType
    <2>4. QED
      BY <2>2, <2>3
  <1>2. CASE flushUrl # NoUrl /\ CommitSyncs(flushUrl)
    <2>1. PICK u \in Urls : u = flushUrl
      BY <1>2 DEF TypeOK, LockType
    <2>2. PICK items : items = syncs[u].items
      OBVIOUS
    <2>3. CommitSyncs(u)
      BY <1>2, <2>1
    <2>4. Grows /\ NoGaps'
      BY <2>1, <2>2, <2>3, CommitStores
    <2>5. \A v \in Urls : InfoPersisted(info[v], v)'
      BY <2>1, <2>3, CommitInfos
    <2>6. QED
      BY <2>4, <2>5 DEF InfosPersisted
  <1>3. QED
    BY <1>1, <1>2

\* A flush that fails, whether its commit landed or not.
LEMMA BrokenInv ==
    ASSUME OwnTables, TypeOK, SyncInv, FlushBroken
    PROVE  SyncInv'
  <1>1. Abandon
    BY DEF FlushBroken, FlushFails, FlushCommitLost, ResponseDropped
  <1>2. /\ holder' = Nobody /\ flushUrl' = NoUrl
        /\ req' = [o \in Origins |-> IF o = holder THEN Idle ELSE req[o]]
        /\ UNCHANGED <<txs, syncs, origin_durable, origin_memory, next, known, synced,
                       first_sync>>
    BY <1>1 DEF Abandon, txVars, bufferVars, seqVars, clientVars
  <1>3. UNCHANGED lakeVars \/ (flushUrl # NoUrl /\ CommitSyncs(flushUrl))
    BY DEF FlushBroken, FlushFails, FlushCommitLost, ResponseDropped
  <1>4. Grows /\ NoGaps' /\ InfosPersisted'
    BY <1>2, <1>3, LakeStep
  <1>5. \A o \in Origins : req'[o] \in {req[o], Idle}
    BY <1>2
  <1>6. Probing'
    BY <1>2, <1>5, ProbingUnchanged DEF SyncInv
  <1>7. QED
    BY <1>2, <1>4, <1>6, QuietInv

\* With an empty buffer and nothing promised.
Blank ==
    /\ txs = <<>>
    /\ syncs = [u \in Urls |-> NoSyncs]
    /\ origin_memory = [o \in Origins |-> NoSeq]
    /\ origin_durable = [o \in Origins |-> NoSeq]
    /\ req = [o \in Origins |-> Idle]
    /\ synced = [o \in Origins |-> FALSE]

\* A restarted writer has nothing to lose: what is stored decides.
LEMMA BlankInv == Blank /\ KnownPersisted /\ NoGaps /\ InfosPersisted => SyncInv
  <1> SUFFICES ASSUME Blank, KnownPersisted, NoGaps, InfosPersisted
               PROVE  SyncInv
    OBVIOUS
  <1>1. DOMAIN txs = {}
    BY DEF Blank
  <1>2. \A u \in Urls : DOMAIN syncs[u].items = {}
    BY DEF Blank, NoSyncs
  <1>3. Probing
    BY <1>1 DEF Blank, Probing, Idle
  <1>4. ItemsLinked /\ ItemsOrdered /\ ItemsGapFree
    BY <1>2 DEF ItemsLinked, ItemsOrdered, ItemsGapFree
  <1>5. TxsOrdered /\ SeqsSent /\ TxsHeld
    BY <1>1 DEF TxsOrdered, SeqsSent, TxsHeld
  <1>6. SentHeld
    BY DEF Blank, SentHeld
  <1>7. DurablePersisted /\ MemoryHeld
    <2>1. \A o \in Origins : UpTo(o, origin_durable[o]) = {} /\ UpTo(o, origin_memory[o]) = {}
      BY UpToNone DEF Blank
    <2>2. QED
      BY <2>1 DEF DurablePersisted, MemoryHeld
  <1>8. QED
    BY <1>3, <1>4, <1>5, <1>6, <1>7 DEF SyncInv

\* A restart, whether the commit under way landed or not.
LEMMA CrashInv ==
    ASSUME OwnTables, TypeOK, SyncInv, Crash
    PROVE  SyncInv'
  <1>1. Blank' /\ flushUrl' = NoUrl /\ UNCHANGED known
    BY DEF Crash, Blank, OwnTables
  <1>2. UNCHANGED lakeVars \/ (flushUrl # NoUrl /\ CommitSyncs(flushUrl))
    BY DEF Crash
  <1>3. Grows /\ NoGaps' /\ InfosPersisted'
    BY <1>1, <1>2, LakeStep
  <1>4. KnownPersisted'
    BY <1>1, <1>3 DEF SyncInv, KnownPersisted, Grows
  <1>5. QED
    BY <1>1, <1>3, <1>4, BlankInv, PTL

\* The invariant is inductive relative to the two earlier theorems.
LEMMA StepSyncInv ==
    ASSUME OwnTables, TypeOK, PendingTxTracked, SyncInv, [Next]_vars
    PROVE  SyncInv'
  <1>1. CASE \E o \in Origins : Client(o) \/ Handler(o)
    BY <1>1, ClientInv, HandlerInv
  <1>2. CASE Flush
    BY <1>2, FlushInv
  <1>3. CASE FlushBroken
    BY <1>3, BrokenInv
  <1>4. CASE Crash
    BY <1>4, CrashInv
  <1>5. CASE FlushTaskTick \/ Age \/ UNCHANGED vars
    <2>1. /\ holder' \in {holder, FlushTask}
          /\ UNCHANGED <<txs, syncs, origin_durable, origin_memory, flushUrl, flushInfo,
                         info, applied, next, known, synced, first_sync, req>>
      BY <1>5 DEF FlushTaskTick, Age, vars, txVars, bufferVars, seqVars, lockVars,
           clientVars, lakeVars
    <2>2. Grows /\ NoGaps'
      BY <2>1, LakeUnchanged DEF SyncInv
    <2>3. InfosPersisted'
      BY <2>1, <2>2, InfosUnchanged DEF SyncInv, TypeOK, LockType
    <2>4. Probing'
      BY <2>1, ProbingUnchanged DEF SyncInv
    <2>5. QED
      BY <2>1, <2>2, <2>3, <2>4, QuietInv
  <1>6. ASSUME NEW u \in Urls, ForeignCommit(u)
        PROVE  SyncInv'
    <2>1. /\ info' = [info EXCEPT ![u] = NoInfo]
          /\ UNCHANGED <<txs, syncs, origin_durable, origin_memory, flushUrl, flushInfo,
                         applied, next, known, synced, first_sync, req, holder>>
      BY <1>6 DEF ForeignCommit, txVars, bufferVars, seqVars, lockVars, clientVars
    <2>2. Grows /\ NoGaps'
      BY <2>1, LakeUnchanged DEF SyncInv
    <2>3. InfosPersisted'
      <3>1. \A v \in Urls : info'[v] = info[v] \/ info'[v] = NoInfo
        BY <2>1 DEF TypeOK, LakeType
      <3>2. QED
        BY <2>1, <2>2, <3>1 DEF SyncInv, InfosPersisted, InfoPersisted, Persisted
    <2>4. Probing'
      BY <2>1, ProbingUnchanged DEF SyncInv
    <2>5. QED
      BY <2>1, <2>2, <2>3, <2>4, QuietInv
  <1>7. QED
    BY <1>1, <1>2, <1>3, <1>4, <1>5, <1>6 DEF Next

\* It holds at the start.
LEMMA InitSyncInv == OwnTables /\ Init => SyncInv
  <1> SUFFICES ASSUME OwnTables, Init PROVE SyncInv
    OBVIOUS
  <1>1. Blank
    BY DEF Init, Blank, OwnTables
  <1>2. KnownPersisted
    <2>1. \A o \in Origins : UpTo(o, known[o]) = {}
      BY UpToNone DEF Init
    <2>2. QED
      BY <2>1 DEF KnownPersisted
  <1>3. NoGaps
    <2>1. \A u \in Urls : DOMAIN applied[u] = {}
      BY DEF Init
    <2>2. QED
      BY <2>1 DEF NoGaps
  <1>4. InfosPersisted
    BY DEF Init, InfosPersisted, InfoPersisted
  <1>5. QED
    BY <1>1, <1>2, <1>3, <1>4, BlankInv

\* It therefore always holds.
LEMMA SyncInvAlways ==
    ASSUME OwnTables
    PROVE  Spec => []SyncInv
  <1>1. Init => SyncInv
    BY InitSyncInv
  <1>2. TypeOK /\ PendingTxTracked /\ SyncInv /\ [Next]_vars => SyncInv'
    BY StepSyncInv
  <1>3. QED
    BY <1>1, <1>2, TypeCorrect, PendingTxAlwaysTracked, PTL DEF Spec

----------------------------------------------------------------------------
(* What the sequence numbers mean                                          *)

\* When every table belongs to one origin, clients probe a restarted server and
\* squashing does not fail, a durable sequence number can be relied on, through
\* crashes, failed and lost commits, timeouts and foreign commits: all rows of
\* the origin up to it are in the Delta tables (advance_durable).
THEOREM DurableAlwaysPersisted ==
    ASSUME OwnTables
    PROVE  Spec => []DurablePersisted
  <1>1. SyncInv => DurablePersisted
    BY DEF SyncInv
  <1>2. QED
    BY <1>1, SyncInvAlways, PTL

\* Under the same conditions, all rows up to the memory sequence number are in
\* the buffer or in the tables (enqueue_sync).
THEOREM MemoryAlwaysHeld ==
    ASSUME OwnTables
    PROVE  Spec => []MemoryHeld
  <1>1. SyncInv => MemoryHeld
    BY DEF SyncInv
  <1>2. QED
    BY <1>1, SyncInvAlways, PTL

\* Under the same conditions, no commit to a table leaves out an earlier message
\* (flush_syncs, skip_syncs).
THEOREM NeverGaps ==
    ASSUME OwnTables
    PROVE  Spec => []NoGaps
  <1>1. SyncInv => NoGaps
    BY DEF SyncInv
  <1>2. QED
    BY <1>1, SyncInvAlways, PTL

----------------------------------------------------------------------------
(***************************************************************************)
(* Sequence numbers never go back: a proof of DurableMonotone when clients  *)
(* probe a restarted server, and with it of the refinement of SyncContract. *)
(* And nothing is applied twice when no answer is lost: ExactlyOnce.        *)
(***************************************************************************)

----------------------------------------------------------------------------
(* The inductive invariant                                                 *)

\* A durable sequence number is one that the client has sent since it probed
\* the server, and is not before what the client was told earlier.
DurableSent ==
    \A o \in Origins : origin_durable[o] # NoSeq =>
        synced[o] /\ Sent(o, origin_durable[o]) /\ known[o] <= origin_durable[o]

\* A client resumes behind what it was told.
KnownSent ==
    \A o \in Origins : synced[o] /\ known[o] # NoSeq => Sent(o, known[o])

\* The transactions in the map are not before the durable ones.
TxsAhead ==
    \A t \in DOMAIN txs : txs[t].sequence # NoSeq =>
        /\ origin_durable[txs[t].origin] <= txs[t].sequence
        /\ known[txs[t].origin] <= txs[t].sequence

SeqInv == Probing /\ TxsOrdered /\ SeqsSent /\ DurableSent /\ KnownSent /\ TxsAhead

----------------------------------------------------------------------------
(* Steps                                                                   *)

\* Sequence numbers are integers, so they can be compared.
LEMMA SeqTypes ==
    ASSUME TypeOK, NEW o \in Origins
    PROVE  /\ origin_durable[o] \in Int /\ known[o] \in Int /\ NoSeq \in Int
           /\ next[o] \in Nat
           /\ NoSeq <= origin_durable[o]
  BY DEF TypeOK, SeqType, ClientType, NoSeq

\* The same for those of transactions.
LEMMA TxTypes ==
    ASSUME TypeOK, NEW t \in DOMAIN txs
    PROVE  /\ t \in Nat /\ txs[t].origin \in Origins
           /\ txs[t].sequence \in Int
  BY DEF TypeOK, TxType, Transaction, NoSeq

\* Steps that change no sequence number and move no client.
LEMMA SeqQuiet ==
    ASSUME SeqInv, Probing', UNCHANGED <<txs, origin_durable, next, known, synced>>
    PROVE  SeqInv'
  <1>1. \A o, s : Sent(o, s)' <=> Sent(o, s)
    BY DEF Sent
  <1>2. TxsOrdered' /\ SeqsSent' /\ TxsAhead'
    BY <1>1 DEF SeqInv, TxsOrdered, SeqsSent, TxsAhead
  <1>3. DurableSent' /\ KnownSent'
    BY <1>1 DEF SeqInv, DurableSent, KnownSent
  <1>4. QED
    BY <1>2, <1>3 DEF SeqInv

\* What was sent before message p has a smaller sequence number.
LEMMA SentBefore ==
    ASSUME NEW o \in Origins, NEW p \in 1..Len(Script[o]), p = next[o],
           NEW s, s # NoSeq, Sent(o, s), Script[o][p].seq # NoSeq
    PROVE  s <= Script[o][p].seq
  <1>1. PICK q \in 1..Len(Script[o]) : q <= next[o] /\ Script[o][q].seq = s
    BY DEF Sent
  <1>2. QED
    BY <1>1, SeqIncreases

\* enqueue_sync gives the newest transaction the newest number.
LEMMA UpsertedSeqs ==
    ASSUME TypeOK, SeqInv, Probing', NEW o \in Origins, NEW p \in 1..Len(Script[o]),
           p = next[o], synced[o], NEW t \in Nat, Upserted(o, Script[o][p].seq, t),
           UNCHANGED <<origin_durable, next, known, synced>>
    PROVE  SeqInv'
  <1>1. TxsOrdered'
    BY UpsertedOrdered DEF SeqInv, TypeOK
  <1>2. SeqsSent'
    BY UpsertedSent DEF SeqInv
  <1>3. DurableSent' /\ KnownSent'
    BY DEF SeqInv, DurableSent, KnownSent, Sent
  <1>4. TxsAhead'
    <2>1. ASSUME NEW t2 \in DOMAIN txs', txs'[t2].sequence # NoSeq
          PROVE  /\ origin_durable[txs'[t2].origin] <= txs'[t2].sequence
                 /\ known[txs'[t2].origin] <= txs'[t2].sequence
      <3>1. CASE t2 = t
        <4> DEFINE s == Script[o][p].seq
        <4>1. txs'[t2].origin = o /\ txs'[t2].sequence = s /\ s # NoSeq
          BY <2>1, <3>1 DEF Upserted
        <4>2. s \in Nat
          BY <4>1, MessageType
        <4> HIDE DEF s
        <4>3. ASSUME NEW d \in {origin_durable[o], known[o]}
              PROVE  d <= s
          <5>1. CASE d = NoSeq
            BY <4>2, <5>1 DEF NoSeq
          <5>2. CASE d # NoSeq
            <6>1. Sent(o, d)
              BY <5>2 DEF SeqInv, DurableSent, KnownSent
            <6>2. QED
              BY <4>1, <5>2, <6>1, SentBefore DEF s
          <5>3. QED
            BY <5>1, <5>2
        <4>4. QED
          BY <4>1, <4>3
      <3>2. CASE t2 # t
        <4>1. t2 \in DOMAIN txs /\ txs'[t2] = txs[t2]
          BY <3>2 DEF Upserted
        <4>2. QED
          BY <2>1, <4>1 DEF SeqInv, TxsAhead
      <3>3. QED
        BY <3>1, <3>2
    <2>2. QED
      BY <2>1 DEF TxsAhead
  <1>5. QED
    BY <1>1, <1>2, <1>3, <1>4 DEF SeqInv

\* A response: the client moves on, or back to where it has to resume.
LEMMA RespondSeqs ==
    ASSUME TypeOK, SeqInv, NEW o \in Origins, NEW accepted \in BOOLEAN, NEW dur,
           Respond(o, accepted, dur), req[o].phase \in {"wait", "held"},
           dur \in {NoSeq, origin_durable[o]},
           UNCHANGED <<txs, origin_durable, first_sync>>
    PROVE  SeqInv' /\ \A o2 \in Origins : known[o2] <= known'[o2]
  <1>0. Probing /\ req[o].phase # "idle"
    BY DEF SeqInv
  <1>1. /\ synced' = [synced EXCEPT ![o] = TRUE]
        /\ \A o2 \in Origins : o2 # o => next'[o2] = next[o2] /\ known'[o2] = known[o2]
        /\ synced[o] =>
              /\ next'[o] = IF ~req[o].probe /\ accepted THEN next[o] + 1 ELSE next[o]
              /\ known'[o] = IF dur = NoSeq THEN known[o] ELSE dur
        /\ ~synced[o] =>
              /\ next'[o] = Resume(o)
              /\ known'[o] = known[o]
    BY <1>0, RespondMoves
  <1>2. Probing'
    BY <1>0, RespondProbing
  <1>3. \A o2 \in Origins : synced'[o2] <=> (synced[o2] \/ o2 = o)
    BY <1>1 DEF TypeOK, ClientType
  <1>4. \A o2 \in Origins : synced[o2] => next[o2] <= next'[o2] /\ next'[o2] \in Nat
    <2>1. next[o] \in Nat
      BY SeqTypes
    <2>2. synced[o] => next'[o] = next[o] + 1 \/ next'[o] = next[o]
      BY <1>1
    <2>3. synced[o] => next[o] <= next'[o] /\ next'[o] \in Nat
      BY <2>1, <2>2
    <2>4. \A o2 \in Origins : o2 # o => next[o2] <= next'[o2] /\ next'[o2] \in Nat
      BY <1>1, SeqTypes
    <2>5. QED
      BY <2>3, <2>4
  <1>5. \A o2 \in Origins : synced[o2] => \A s : Sent(o2, s) => Sent(o2, s)'
    <2>1. ASSUME NEW o2 \in Origins, synced[o2], NEW s, Sent(o2, s) PROVE Sent(o2, s)'
      <3>1. PICK q \in 1..Len(Script[o2]) : q <= next[o2] /\ Script[o2][q].seq = s
        BY <2>1 DEF Sent
      <3>2. q <= next'[o2]
        <4>1. next[o2] <= next'[o2] /\ next'[o2] \in Nat
          BY <1>4, <2>1
        <4>2. next[o2] \in Nat /\ q \in Nat
          BY SeqTypes, ScriptLen
        <4>3. QED
          BY <3>1, <4>1, <4>2
      <3>3. QED
        BY <3>1, <3>2 DEF Sent
    <2>2. QED
      BY <2>1
  <1>6. \A o2 \in Origins : \/ known'[o2] = known[o2]
                            \/ /\ o2 = o /\ synced[o] /\ origin_durable[o] # NoSeq
                               /\ known'[o2] = origin_durable[o]
    BY <1>1
  <1>7. TxsOrdered'
    BY DEF SeqInv, TxsOrdered
  <1>8. ASSUME NEW t \in DOMAIN txs
        PROVE  txs[t].origin \in Origins /\ synced[txs[t].origin]
    BY TxTypes DEF SeqInv, Probing
  <1>9. SeqsSent'
    <2>1. ASSUME NEW t \in DOMAIN txs, txs[t].sequence # NoSeq,
                 NEW o2, o2 = txs[t].origin, NEW s2, s2 = txs[t].sequence
          PROVE  Sent(o2, s2)'
      <3>1. Sent(o2, s2)
        BY <2>1 DEF SeqInv, SeqsSent
      <3>2. QED
        BY <1>5, <1>8, <2>1, <3>1
    <2>2. QED
      BY <2>1 DEF SeqsSent
  <1>10. DurableSent'
    <2>1. ASSUME NEW o2 \in Origins, NEW d, d = origin_durable[o2], d # NoSeq
          PROVE  synced'[o2] /\ Sent(o2, d)' /\ known'[o2] <= d
      <3>1. synced[o2] /\ Sent(o2, d) /\ known[o2] <= d
        BY <2>1 DEF SeqInv, DurableSent
      <3>2. known'[o2] <= d
        <4>1. d \in Int
          BY <2>1, SeqTypes
        <4>2. d <= d
          BY <4>1
        <4>3. QED
          BY <1>6, <2>1, <3>1, <4>2
      <3>3. QED
        BY <1>3, <1>5, <3>1, <3>2
    <2>2. QED
      BY <2>1 DEF DurableSent
  <1>11. KnownSent'
    <2>1. ASSUME NEW o2 \in Origins, synced'[o2], NEW d, d = known'[o2], d # NoSeq
          PROVE  Sent(o2, d)'
      <3>1. CASE synced[o2]
        <4>1. Sent(o2, d)
          BY <1>6, <2>1, <3>1 DEF SeqInv, DurableSent, KnownSent
        <4>2. QED
          BY <1>5, <3>1, <4>1
      <3>2. CASE ~synced[o2]
        <4>1. o2 = o /\ next'[o] = Resume(o) /\ known[o] = d
          BY <1>1, <1>3, <2>1, <3>2
        <4>2. PICK q \in 1..Len(Script[o]) : Script[o][q].seq = d /\ Resume(o) = 1 + q
          <5>1. \E q \in 1..Len(Script[o]) : Script[o][q].seq = known[o]
            BY <2>1, <4>1 DEF TypeOK, ClientType, SeqNums
          <5>2. QED
            BY <2>1, <4>1, <5>1 DEF Resume
        <4>3. q <= next'[o]
          BY <4>1, <4>2, ScriptLen
        <4>4. QED
          BY <4>1, <4>2, <4>3 DEF Sent
      <3>3. QED
        BY <3>1, <3>2
    <2>2. QED
      BY <2>1 DEF KnownSent
  <1>12. TxsAhead'
    BY <1>6, <1>8 DEF SeqInv, TxsAhead
  <1>13. ASSUME NEW o2 \in Origins
         PROVE  known[o2] <= known'[o2]
    <2>1. CASE known'[o2] = known[o2]
      BY <2>1, SeqTypes
    <2>2. CASE o2 = o /\ origin_durable[o] # NoSeq /\ known'[o2] = origin_durable[o]
      BY <2>2 DEF SeqInv, DurableSent
    <2>3. QED
      BY <1>6, <2>1, <2>2
  <1>14. QED
    BY <1>2, <1>7, <1>9, <1>10, <1>11, <1>12, <1>13 DEF SeqInv

\* advance_durable takes a prefix off the map.
Advanced(o) ==
    \/ origin_durable'[o] = origin_durable[o]
    \/ \E t \in DOMAIN txs : /\ txs[t].origin = o
                             /\ txs[t].sequence = origin_durable'[o]
                             /\ txs[t].sequence # NoSeq
                             /\ \A t2 \in DOMAIN txs' : t < t2

TxsShrink ==
    /\ DOMAIN txs' \subseteq DOMAIN txs
    /\ \A t \in DOMAIN txs' : /\ txs'[t].origin = txs[t].origin
                              /\ txs'[t].sequence = txs[t].sequence

\* advance_durable removes a prefix of the transactions and reports its last number.
LEMMA AdvanceDurablePrefix ==
    ASSUME TypeOK, NEW u \in Urls, NEW ids,
           AdvanceDurable(RemoveTxLocations(txs, u, ids))
    PROVE  TxsShrink /\ \A o \in Origins : Advanced(o)
  <1> DEFINE ts == RemoveTxLocations(txs, u, ids)
             D == DurableTxs(ts)
  <1>1. /\ DOMAIN ts = DOMAIN txs
        /\ \A t \in DOMAIN txs : /\ ts[t].origin = txs[t].origin
                                 /\ ts[t].sequence = txs[t].sequence
    BY DEF RemoveTxLocations, TypeOK, TxType, Transaction
  <1>2. origin_durable' =
              [o \in Origins |->
                  IF LastOf(ts, D, o) = {} THEN origin_durable[o]
                  ELSE ts[CHOOSE t \in LastOf(ts, D, o) : TRUE].sequence]
    BY DEF AdvanceDurable
  <1>3. txs' = [t \in DOMAIN ts \ D |-> ts[t]]
    BY DEF AdvanceDurable
  <1> HIDE DEF ts
  <1>4. D = {t \in DOMAIN txs :
               \A t2 \in DOMAIN txs :
                  t2 <= t => ts[t2].sequence # NoSeq /\ ts[t2].locations = {}}
    BY <1>1 DEF DurableTxs
  <1>5. \A t \in DOMAIN txs : t \in Nat
    BY TxTypes
  <1> HIDE DEF D
  <1>6. TxsShrink
    BY <1>1, <1>3 DEF TxsShrink
  <1>7. ASSUME NEW t \in D, NEW t2 \in DOMAIN txs'
        PROVE  t < t2
    <2>1. t \in DOMAIN txs /\ t2 \in DOMAIN txs /\ t2 \notin D
      BY <1>1, <1>3, <1>4
    <2>2. t \in Nat /\ t2 \in Nat
      BY <1>5, <2>1
    <2>3. SUFFICES ASSUME t2 <= t PROVE FALSE
      BY <2>2
    <2>4. ASSUME NEW t3 \in DOMAIN txs, t3 <= t2
          PROVE  ts[t3].sequence # NoSeq /\ ts[t3].locations = {}
      <3>1. t3 <= t
        BY <1>5, <2>2, <2>3, <2>4
      <3>2. QED
        BY <1>4, <3>1
    <2>5. QED
      BY <1>4, <2>1, <2>4
  <1>8. ASSUME NEW o \in Origins
        PROVE  Advanced(o)
    <2>1. CASE LastOf(ts, D, o) = {}
      BY <1>2, <2>1 DEF Advanced
    <2>2. CASE LastOf(ts, D, o) # {}
      <3>1. PICK t \in LastOf(ts, D, o) : origin_durable'[o] = ts[t].sequence
        BY <1>2, <2>2
      <3>2. t \in D /\ ts[t].origin = o
        BY DEF LastOf
      <3>3. t \in DOMAIN txs /\ t <= t
        BY <1>4, <1>5, <3>2
      <3>4. ts[t].sequence # NoSeq
        BY <1>4, <3>2, <3>3
      <3>5. QED
        BY <1>1, <1>7, <3>1, <3>2, <3>3, <3>4 DEF Advanced
    <2>3. QED
      BY <2>1, <2>2
  <1>9. QED
    BY <1>6, <1>8

\* Hence it only moves forward, and the transactions left stay ahead.
LEMMA AdvancedSeqs ==
    ASSUME TypeOK, SeqInv, TxsShrink, \A o \in Origins : Advanced(o),
           UNCHANGED <<next, known, synced, req, first_sync>>
    PROVE  SeqInv' /\ \A o \in Origins : origin_durable[o] <= origin_durable'[o]
  <1>1. Probing'
    BY DEF SeqInv, Probing, TxsShrink
  <1>2. TxsOrdered'
    BY DEF SeqInv, TxsOrdered, TxsShrink
  <1>3. \A o, s : Sent(o, s)' <=> Sent(o, s)
    BY DEF Sent
  <1>4. SeqsSent'
    BY <1>3 DEF SeqInv, SeqsSent, TxsShrink
  <1>5. KnownSent'
    BY <1>3 DEF SeqInv, KnownSent
  <1>6. ASSUME NEW o \in Origins, NEW d, d = origin_durable'[o], d # NoSeq
        PROVE  synced[o] /\ Sent(o, d) /\ known[o] <= d
    <2>1. CASE d = origin_durable[o]
      BY <1>6, <2>1 DEF SeqInv, DurableSent
    <2>2. CASE d # origin_durable[o]
      <3>1. PICK t \in DOMAIN txs : txs[t].origin = o /\ txs[t].sequence = d
        BY <1>6, <2>2 DEF Advanced
      <3>2. synced[o]
        BY <3>1 DEF SeqInv, Probing
      <3>3. Sent(o, d) /\ known[o] <= d
        BY <1>6, <3>1 DEF SeqInv, SeqsSent, TxsAhead
      <3>4. QED
        BY <3>2, <3>3
    <2>3. QED
      BY <2>1, <2>2
  <1>7. DurableSent'
    <2>1. ASSUME NEW o \in Origins, NEW d, d = origin_durable'[o], d # NoSeq
          PROVE  synced'[o] /\ Sent(o, d)' /\ known'[o] <= d
      BY <1>3, <1>6, <2>1
    <2>2. QED
      BY <2>1 DEF DurableSent
  <1>8. TxsAhead'
    <2>1. ASSUME NEW t2 \in DOMAIN txs', txs'[t2].sequence # NoSeq,
                 NEW o, o = txs'[t2].origin
          PROVE  origin_durable'[o] <= txs'[t2].sequence /\ known[o] <= txs'[t2].sequence
      <3>1. /\ t2 \in DOMAIN txs /\ txs[t2].origin = o
            /\ txs'[t2].sequence = txs[t2].sequence
        BY <2>1 DEF TxsShrink
      <3>2. o \in Origins
        BY <3>1, TxTypes
      <3>3. origin_durable[o] <= txs[t2].sequence /\ known[o] <= txs[t2].sequence
        BY <2>1, <3>1 DEF SeqInv, TxsAhead
      <3>4. CASE origin_durable'[o] = origin_durable[o]
        BY <3>1, <3>3, <3>4
      <3>5. CASE origin_durable'[o] # origin_durable[o]
        <4>1. PICK t \in DOMAIN txs : /\ txs[t].origin = o
                                      /\ txs[t].sequence = origin_durable'[o]
                                      /\ t < t2
          BY <3>2, <3>5 DEF Advanced
        <4>2. txs[t].sequence <= txs[t2].sequence
          BY <2>1, <3>1, <4>1 DEF SeqInv, TxsOrdered
        <4>3. QED
          BY <3>1, <3>3, <4>1, <4>2
      <3>6. QED
        BY <3>4, <3>5
    <2>2. QED
      BY <2>1 DEF TxsAhead
  <1>9. ASSUME NEW o \in Origins
        PROVE  origin_durable[o] <= origin_durable'[o]
    <2>1. CASE origin_durable'[o] = origin_durable[o]
      BY <2>1, SeqTypes
    <2>2. CASE origin_durable'[o] # origin_durable[o]
      <3>1. PICK t \in DOMAIN txs : /\ txs[t].origin = o
                                    /\ txs[t].sequence = origin_durable'[o]
                                    /\ txs[t].sequence # NoSeq
        BY <2>2 DEF Advanced
      <3>2. QED
        BY <3>1 DEF SeqInv, TxsAhead
    <2>3. QED
      BY <2>1, <2>2
  <1>10. QED
    BY <1>1, <1>2, <1>4, <1>5, <1>7, <1>8, <1>9 DEF SeqInv

\* What no step but a crash does: take back a sequence number.
Forward ==
    \A o \in Origins : /\ known[o] <= known'[o]
                       /\ origin_durable[o] <= origin_durable'[o]

\* A step that changes neither number takes nothing back.
LEMMA ForwardUnchanged ==
    ASSUME TypeOK, UNCHANGED <<known, origin_durable>>
    PROVE  Forward
  BY SeqTypes DEF Forward

\* Requests, probes and lock timeouts.
LEMMA ClientSeqs ==
    ASSUME TypeOK, SeqInv, NEW o \in Origins, Client(o)
    PROVE  SeqInv' /\ Forward
  <1>1. UNCHANGED <<txs, origin_durable>>
    BY DEF Client, Send, StoreFirst, Probe, LockTimeout, txVars, seqVars
  <1>2. CASE Send(o) \/ StoreFirst(o)
    <2>1. Probing'
      BY <1>2, SendProbing, StoreFirstProbing DEF SeqInv
    <2>2. UNCHANGED <<next, known, synced>>
      BY <1>2 DEF Send, StoreFirst, clientVars
    <2>3. QED
      BY <1>1, <2>1, <2>2, SeqQuiet, ForwardUnchanged
  <1>3. CASE Probe(o) \/ LockTimeout(o)
    <2>1. PICK accepted \in BOOLEAN, dur \in {NoSeq, origin_durable[o]} :
            Respond(o, accepted, dur)
      BY <1>3 DEF Probe, LockTimeout
    <2>2. req[o].phase \in {"wait", "held"} /\ UNCHANGED first_sync
      BY <1>3 DEF Probe, LockTimeout, Waiting
    <2>3. SeqInv' /\ \A o2 \in Origins : known[o2] <= known'[o2]
      BY <1>1, <2>1, <2>2, RespondSeqs
    <2>4. QED
      BY <1>1, <2>3, SeqTypes DEF Forward
  <1>4. QED
    BY <1>2, <1>3 DEF Client

\* The handler's steps under the lock.
LEMMA HandlerSeqs ==
    ASSUME TypeOK, SeqInv, NEW o \in Origins, Handler(o)
    PROVE  SeqInv' /\ Forward
  <1>1. UNCHANGED <<origin_durable, next, known, synced, first_sync>>
    BY DEF Handler, Enqueue, EnqueueRejected, EnqueueSquashFails, seqVars, clientVars
  <1>2. CASE EnqueueRejected(o)
    <2>1. UNCHANGED txs /\ req' = [req EXCEPT ![o] = Idle]
      BY <1>2 DEF EnqueueRejected, txVars
    <2>2. \A o2 \in Origins : req'[o2] \in {req[o2], Idle}
      BY <2>1 DEF TypeOK, ClientType
    <2>3. Probing'
      BY <1>1, <2>1, <2>2, ProbingUnchanged DEF SeqInv
    <2>4. QED
      BY <1>1, <2>1, <2>3, SeqQuiet, ForwardUnchanged
  <1>3. CASE Enqueue(o) \/ EnqueueSquashFails(o)
    <2>1. PICK p : p = next[o]
      OBVIOUS
    <2>2. PICK m : m = Script[o][p]
      OBVIOUS
    <2>3. PICK t \in PendingTx \cup {nextTx} : UpsertTx(o, m, t)
      BY <1>3, <2>1, <2>2 DEF Enqueue, EnqueueSquashFails
    <2>4. /\ req[o].phase = "wait" /\ ~req[o].probe
          /\ \/ req' = [req EXCEPT ![o].phase = "held"]
             \/ req' = [req EXCEPT ![o] = Idle]
      BY <1>3 DEF Enqueue, EnqueueSquashFails, Waiting
    <2>5. p \in 1..Len(Script[o])
      BY <2>1, <2>4, ScriptLen DEF TypeOK, ClientType
    <2>6. m \in Message
      BY <2>2, <2>5, MessageType
    <2>7. t \in Nat
      BY DEF PendingTx, TypeOK, TxType
    <2>8. synced[o]
      BY <2>4 DEF SeqInv, Probing
    <2>9. Upserted(o, m.seq, t)
      BY <2>3, <2>6, UpsertTxFacts DEF TypeOK, SeqInv
    <2>10. Probing'
      BY <1>1, <2>4, <2>8, <2>9, UpsertedProbing DEF SeqInv
    <2>11. SeqInv'
      BY <1>1, <2>1, <2>2, <2>5, <2>7, <2>8, <2>9, <2>10, UpsertedSeqs
    <2>12. QED
      BY <1>1, <2>11, ForwardUnchanged
  <1>4. QED
    BY <1>2, <1>3 DEF Handler

\* The steps of a flush, failing or not.
LEMMA FlushSeqs ==
    ASSUME TypeOK, SeqInv, Flush \/ FlushBroken
    PROVE  SeqInv' /\ Forward
  <1>1. CASE FlushLoad \/ FlushSkipAll \/ FlushBroken
    <2>1. UNCHANGED <<txs, origin_durable, next, known, synced, first_sync>>
      BY <1>1 DEF FlushLoad, FlushSkipAll, FlushBroken, FlushFails, FlushCommitLost,
           ResponseDropped, Abandon, txVars, seqVars, clientVars
    <2>2. \A o \in Origins : req'[o] \in {req[o], Idle}
      BY <1>1 DEF FlushLoad, FlushSkipAll, FlushBroken, FlushFails, FlushCommitLost,
           ResponseDropped, Abandon
    <2>3. Probing'
      BY <2>1, <2>2, ProbingUnchanged DEF SeqInv
    <2>4. QED
      BY <2>1, <2>3, SeqQuiet, ForwardUnchanged
  <1>2. CASE FlushCommit
    <2>1. PICK u \in Urls : u = flushUrl
      BY <1>2 DEF FlushCommit, TypeOK, LockType
    <2>2. PICK ids : AdvanceDurable(RemoveTxLocations(txs, u, ids))
      BY <1>2, <2>1 DEF FlushCommit
    <2>3. UNCHANGED <<next, known, synced, req, first_sync>>
      BY <1>2 DEF FlushCommit, clientVars
    <2>4. TxsShrink /\ \A o \in Origins : Advanced(o)
      BY <2>2, AdvanceDurablePrefix
    <2>5. SeqInv' /\ \A o \in Origins : origin_durable[o] <= origin_durable'[o]
      BY <2>3, <2>4, AdvancedSeqs
    <2>6. QED
      BY <2>3, <2>5, SeqTypes DEF Forward
  <1>3. CASE FlushEnd
    <2>1. UNCHANGED <<txs, origin_durable, first_sync>>
      BY <1>3 DEF FlushEnd, txVars, seqVars
    <2>2. CASE holder = FlushTask
      <3>1. UNCHANGED <<req, next, known, synced>>
        BY <1>3, <2>2 DEF FlushEnd, clientVars
      <3>2. Probing'
        BY <2>1, <3>1, ProbingUnchanged DEF SeqInv
      <3>3. QED
        BY <2>1, <3>1, <3>2, SeqQuiet, ForwardUnchanged
    <2>3. CASE holder # FlushTask
      <3>1. PICK o \in Origins : o = holder
        BY <1>3, <2>3 DEF FlushEnd, TypeOK, LockType
      <3>2. Respond(o, TRUE, origin_durable[o]) /\ req[o].phase \in {"wait", "held"}
        BY <1>3, <2>3, <3>1 DEF FlushEnd, TypeOK, LockType
      <3>3. SeqInv' /\ \A o2 \in Origins : known[o2] <= known'[o2]
        BY <2>1, <3>2, RespondSeqs
      <3>4. QED
        BY <2>1, <3>3, SeqTypes DEF Forward
    <2>4. QED
      BY <2>2, <2>3
  <1>4. QED
    BY <1>1, <1>2, <1>3 DEF Flush

\* A restarted writer has no numbers to order.
LEMMA BlankSeqs == Blank => SeqInv
  <1> SUFFICES ASSUME Blank PROVE SeqInv
    OBVIOUS
  <1>1. DOMAIN txs = {}
    BY DEF Blank
  <1>2. Probing /\ TxsOrdered /\ SeqsSent /\ TxsAhead
    BY <1>1 DEF Blank, Probing, Idle, TxsOrdered, SeqsSent, TxsAhead
  <1>3. DurableSent /\ KnownSent
    BY DEF Blank, DurableSent, KnownSent
  <1>4. QED
    BY <1>2, <1>3 DEF SeqInv

\* Every step keeps the order; only a restart forgets.
LEMMA StepSeqs ==
    ASSUME ProbeFirst = TRUE, TypeOK, SeqInv, [Next]_vars
    PROVE  SeqInv' /\ (Forward \/ Crash)
  <1>1. CASE \E o \in Origins : Client(o) \/ Handler(o)
    BY <1>1, ClientSeqs, HandlerSeqs
  <1>2. CASE Flush \/ FlushBroken
    BY <1>2, FlushSeqs
  <1>3. CASE FlushTaskTick \/ Age \/ (\E u \in Urls : ForeignCommit(u)) \/ UNCHANGED vars
    <2>1. UNCHANGED <<txs, origin_durable, next, known, synced, first_sync, req>>
      BY <1>3 DEF FlushTaskTick, Age, ForeignCommit, vars, txVars, seqVars, clientVars
    <2>2. Probing'
      BY <2>1, ProbingUnchanged DEF SeqInv
    <2>3. QED
      BY <2>1, <2>2, SeqQuiet, ForwardUnchanged
  <1>4. CASE Crash
    <2>1. Blank'
      BY <1>4 DEF Crash, Blank
    <2>2. SeqInv'
      BY <2>1, BlankSeqs, PTL
    <2>3. QED
      BY <1>4, <2>2
  <1>5. QED
    BY <1>1, <1>2, <1>3, <1>4 DEF Next

\* The order of sequence numbers always holds.
LEMMA SeqInvAlways ==
    ASSUME ProbeFirst = TRUE
    PROVE  Spec => []SeqInv
  <1>1. Init => SeqInv
    <2>1. Init => Blank
      BY DEF Init, Blank
    <2>2. QED
      BY <2>1, BlankSeqs
  <1>2. TypeOK /\ SeqInv /\ [Next]_vars => SeqInv'
    BY StepSeqs
  <1>3. QED
    BY <1>1, <1>2, TypeCorrect, PTL DEF Spec

\* When clients probe a restarted server, no response takes back what a client
\* was told, across restarts included, and no flush takes back a durable
\* sequence number (advance_durable), whatever the scripts are and whatever
\* fails.
THEOREM DurableNeverBack ==
    ASSUME ProbeFirst = TRUE
    PROVE  Spec => DurableMonotone
  <1> DEFINE Step == \A o \in Origins : /\ known[o] <= known'[o]
                                        /\ origin_durable[o] <= origin_durable'[o] \/ Crash
  <1>1. ASSUME TypeOK, SeqInv, [Next]_vars
        PROVE  [Step]_vars
    <2>1. CASE Forward
      BY <2>1 DEF Forward
    <2>2. CASE Crash
      <3>1. UNCHANGED known
        BY <2>2 DEF Crash
      <3>2. QED
        BY <1>1, <2>2, <3>1, SeqTypes
    <2>3. QED
      BY <1>1, <2>1, <2>2, StepSeqs
  <1>2. TypeOK /\ SeqInv /\ [Next]_vars => [Step]_vars
    BY <1>1
  <1> HIDE DEF Step
  <1>3. Spec => [][Step]_vars
    BY <1>2, SeqInvAlways, TypeCorrect, PTL DEF Spec
  <1>4. QED
    BY <1>3 DEF Step, DurableMonotone

----------------------------------------------------------------------------
(* The refinement                                                          *)

\* Every step keeps what the tables have.
LEMMA StepGrows ==
    ASSUME OwnTables, TypeOK, SyncInv, [Next]_vars
    PROVE  Grows
  <1>1. CASE UNCHANGED applied
    BY <1>1, LakeUnchanged DEF SyncInv
  <1>2. CASE flushUrl # NoUrl /\ CommitSyncs(flushUrl)
    <2>1. PICK u \in Urls : u = flushUrl
      BY <1>2 DEF TypeOK, LockType
    <2>2. PICK items : items = syncs[u].items
      OBVIOUS
    <2>3. QED
      BY <1>2, <2>1, <2>2, CommitStores
  <1>3. QED
    <2>1. CASE \E o \in Origins : Client(o) \/ Handler(o)
      BY <1>1, <2>1 DEF Client, Handler, Send, StoreFirst, Probe, LockTimeout, Enqueue,
           EnqueueRejected, EnqueueSquashFails, lakeVars
    <2>2. CASE Flush \/ FlushBroken \/ Crash
      BY <1>1, <1>2, <2>2 DEF Flush, FlushLoad, FlushSkipAll, FlushCommit, FlushEnd,
           FlushBroken, FlushFails, FlushCommitLost, ResponseDropped, Crash, lakeVars
    <2>3. CASE FlushTaskTick \/ Age \/ (\E u \in Urls : ForeignCommit(u)) \/ UNCHANGED vars
      BY <1>1, <2>3 DEF FlushTaskTick, Age, ForeignCommit, lakeVars, vars
    <2>4. QED
      BY <2>1, <2>2, <2>3 DEF Next

\* What the abstract state `stored` has of a table.
StoredIn(u) == Range(applied[u])

\* Being in the abstract state is being persisted.
LEMMA StoredInFacts ==
    /\ \A o, i, u : <<o, i>> \in StoredIn(u) <=> Persisted(o, i, u)
    /\ \A u, m : m \in StoredIn(u) <=> \E k \in DOMAIN applied[u] : applied[u][k] = m
  BY DEF StoredIn, Range, Persisted

\* The conditions of the contract on what is stored.
StoredGapFree ==
    \A u \in Urls : \A m \in StoredIn(u) : \A j \in 1..(m[2] - 1) :
        Carries(m[1], j, u) => <<m[1], j>> \in StoredIn(u)

StoredCovers ==
    \A o \in Origins : \A u \in Urls : \A i \in UpTo(o, origin_durable[o]) :
        Carries(o, i, u) => <<o, i>> \in StoredIn(u)

\* The invariant, said of the abstract state.
LEMMA StoredMeets == TypeOK /\ SyncInv => StoredGapFree /\ StoredCovers
  <1> SUFFICES ASSUME TypeOK, SyncInv PROVE StoredGapFree /\ StoredCovers
    OBVIOUS
  <1>1. ASSUME NEW u \in Urls, NEW m \in StoredIn(u), NEW j \in 1..(m[2] - 1),
               Carries(m[1], j, u)
        PROVE  <<m[1], j>> \in StoredIn(u)
    <2>1. PICK k \in DOMAIN applied[u] : applied[u][k] = m
      BY StoredInFacts
    <2>2. k \in Nat /\ DOMAIN applied[u] = 1..Len(applied[u]) /\ Len(applied[u]) \in Nat
      BY DEF TypeOK, LakeType
    <2>3. PICK l \in 1..(k - 1) : applied[u][l] = <<m[1], j>>
      BY <1>1, <2>1 DEF SyncInv, NoGaps
    <2>4. l \in DOMAIN applied[u]
      BY <2>2, <2>3
    <2>5. QED
      BY <2>3, <2>4, StoredInFacts
  <1>2. StoredCovers
    BY StoredInFacts DEF SyncInv, DurablePersisted, StoredCovers
  <1>3. QED
    BY <1>1, <1>2 DEF StoredGapFree

\* A started writer maps to an initial state of the contract.
LEMMA InitRefines == Init => Contract!Init
  <1> SUFFICES ASSUME Init PROVE Contract!Init
    OBVIOUS
  <1>1. \A u \in Urls : Range(applied[u]) = {}
    BY DEF Init, Range
  <1>2. QED
    BY <1>1 DEF Init, Contract!Init, Contract!NoSeq, NoSeq

\* Every step maps to a flush or a restart of the contract.
LEMMA StepRefines ==
    ASSUME OwnTables, TypeOK, SyncInv, StoredGapFree', StoredCovers', SeqInv, [Next]_vars
    PROVE  Contract!Next
  <1>1. \A u \in Urls : Range(applied[u]) \subseteq Range(applied'[u])
    <2>1. ASSUME NEW u \in Urls, NEW m \in StoredIn(u)
          PROVE  m \in Range(applied'[u])
      <3>1. PICK k \in DOMAIN applied[u] : applied[u][k] = m
        BY StoredInFacts
      <3>2. applied[u] \in Seq(Origins \X Nat)
        BY DEF TypeOK, LakeType
      <3>3. m \in Origins \X Nat
        BY <3>1, <3>2
      <3>4. m = <<m[1], m[2]>>
        BY <3>3
      <3>5. PICK o, i : m = <<o, i>>
        BY <3>4
      <3>6. Persisted(o, i, u)
        BY <3>1, <3>5 DEF Persisted
      <3>7. Persisted(o, i, u)'
        BY <3>6, StepGrows DEF Grows
      <3>8. QED
        BY <3>5, <3>7 DEF Persisted, Range
    <2>2. QED
      BY <2>1 DEF StoredIn
  <1>2. Contract!Grow
    <2>1. \A u \in Urls : \A m \in Range(applied'[u]) : \A j \in 1..(m[2] - 1) :
            Carries(m[1], j, u) => <<m[1], j>> \in Range(applied'[u])
      BY DEF StoredGapFree, StoredIn
    <2>2. QED
      BY <1>1, <2>1 DEF Contract!Grow, Contract!GapFree, Contract!Carries, Carries
  <1>3. CASE Forward
    <2>1. \A o \in Origins : \A u \in Urls : \A i \in UpTo(o, origin_durable'[o]) :
            Carries(o, i, u) => <<o, i>> \in Range(applied'[u])
      BY DEF StoredCovers, StoredIn
    <2>2. Contract!Flush
      BY <1>2, <1>3, <2>1 DEF Contract!Flush, Contract!Covered, Contract!Carries, Carries,
           Contract!UpTo, UpTo, Contract!NoSeq, NoSeq, Forward
    <2>3. QED
      BY <2>2 DEF Contract!Next
  <1>4. CASE Crash
    <2>1. origin_durable' = [o \in Origins |-> NoSeq]
      BY <1>4 DEF Crash
    <2>2. QED
      BY <1>2, <2>1 DEF Contract!Next, Contract!Restart, Contract!NoSeq, NoSeq
  <1>5. QED
    BY <1>3, <1>4, StepSeqs DEF OwnTables

\* When every table belongs to one origin, clients probe a restarted server and
\* squashing does not fail, the writer implements what sync.proto promises
\* (SyncContract): gap-free tables, and durable sequence numbers that go forward
\* over stored changes until a restart.
THEOREM WriterImplementsContract ==
    ASSUME OwnTables
    PROVE  Spec => ImplementsContract
  <1>1. TypeOK /\ SyncInv /\ TypeOK' /\ SyncInv' => StoredGapFree' /\ StoredCovers'
    BY StoredMeets, PTL
  <1>2. /\ TypeOK /\ SyncInv /\ TypeOK' /\ SyncInv' /\ SeqInv /\ [Next]_vars
        => [Contract!Next]_(Contract!contractVars)
    BY <1>1, StepRefines
  <1>3. ProbeFirst = TRUE
    BY DEF OwnTables
  <1>4. Spec => []SeqInv
    BY <1>3, SeqInvAlways
  <1>5. Spec => []SyncInv
    BY SyncInvAlways
  <1>6. Spec => Contract!Init /\ [][Contract!Next]_(Contract!contractVars)
    BY <1>2, <1>4, <1>5, TypeCorrect, InitRefines, PTL DEF Spec
  <1>7. QED
    BY <1>6 DEF ImplementsContract, Contract!Spec

----------------------------------------------------------------------------
(* Nothing is applied twice, if no answer is lost                          *)

\* No crash, and every message that was enqueued is answered.
NoAnswerLost == ProbeFirst = TRUE /\ Faults \cap {"crash", "flush", "drop"} = {}

\* A client that has not probed is at the start.
Unsent == \A o \in Origins : ~synced[o] => next[o] = 1 /\ known[o] = NoSeq

\* The messages of an origin are in order, in the table and in the buffer, and
\* those in the table come first.
OnceIn(list, items) ==
    /\ \A k, l \in DOMAIN list : k < l /\ list[k][1] = list[l][1] => list[k][2] < list[l][2]
    /\ \A k, l \in DOMAIN items :
          k < l /\ items[k].origin = items[l].origin => items[k].pos < items[l].pos
    /\ \A k \in DOMAIN list : \A l \in DOMAIN items :
          list[k][1] = items[l].origin => list[k][2] < items[l].pos

\* They were all sent, and of the one that is being sent only its own request
\* has put something there.
AllPassed(list, items) ==
    /\ \A k \in DOMAIN list : Passed(list[k][1], list[k][2])
    /\ \A k \in DOMAIN items : Passed(items[k].origin, items[k].pos)

OnceInv ==
    /\ Unsent
    /\ \A u \in Urls : /\ OnceIn(applied[u], syncs[u].items)
                       /\ AllPassed(applied[u], syncs[u].items)

\* What skip_syncs leaves is the end of the list.
LEMMA SkipSyncsRest ==
    ASSUME NEW items \in Seq(Item), NEW last, NEW rest, rest = SkipSyncs(items, last)
    PROVE  \E n \in 0..Len(items) : /\ Len(rest) = Len(items) - n
                                    /\ \A k \in 1..Len(rest) : rest[k] = items[n + k]
  <1>0. Len(items) \in Nat
    OBVIOUS
  <1>1. CASE last = NoInfo \/ FirstMatch(items, last) = {}
    <2>1. rest = items
      BY <1>1 DEF SkipSyncs
    <2>2. 0 \in 0..Len(items) /\ Len(rest) = Len(items) - 0
      BY <1>0, <2>1
    <2>3. \A k \in 1..Len(rest) : rest[k] = items[0 + k]
      BY <1>0, <2>1
    <2>4. QED
      BY <2>2, <2>3
  <1>2. CASE ~(last = NoInfo \/ FirstMatch(items, last) = {})
    <2>1. PICK n \in FirstMatch(items, last) : rest = SubSeq(items, n + 1, Len(items))
      BY <1>2 DEF SkipSyncs
    <2>2. n \in 1..Len(items) /\ n \in 0..Len(items)
      BY <1>0 DEF FirstMatch
    <2>3. Len(rest) = Len(items) - n
      BY <1>0, <2>1, <2>2
    <2>4. \A k \in 1..Len(rest) : rest[k] = items[n + k]
      BY <1>0, <2>1, <2>2, <2>3
    <2>5. QED
      BY <2>2, <2>3, <2>4
  <1>3. QED
    BY <1>1, <1>2

\* Appending the end of the buffer to the table keeps the order.
LEMMA OnceAppended ==
    ASSUME NEW old \in Seq(Origins \X Nat), NEW new, NEW items \in Seq(Item), NEW rest \in Seq(Item),
           NEW n \in 0..Len(items), Len(rest) = Len(items) - n,
           \A k \in 1..Len(rest) : rest[k] = items[n + k],
           Appended(new, old, rest), OnceIn(old, items)
    PROVE  \A k, l \in DOMAIN new : k < l /\ new[k][1] = new[l][1] => new[k][2] < new[l][2]
  <1>1. /\ Len(items) \in Nat /\ Len(rest) \in Nat /\ Len(old) \in Nat /\ n \in Nat
        /\ DOMAIN items = 1..Len(items) /\ DOMAIN old = 1..Len(old)
        /\ DOMAIN new = 1..(Len(old) + Len(rest))
    BY DEF Appended
  <1>2. ASSUME NEW k \in DOMAIN new, ~(k <= Len(old))
        PROVE  \E q \in DOMAIN items : /\ q = n + (k - Len(old))
                                       /\ new[k] = <<items[q].origin, items[q].pos>>
    <2>1. k \in 1..(Len(old) + Len(rest))
      BY <1>1
    <2>2. PICK r : r = k - Len(old)
      OBVIOUS
    <2>3. r \in 1..Len(rest) /\ k = Len(old) + r
      BY <1>1, <1>2, <2>1, <2>2, SecondPart
    <2>4. n + r \in DOMAIN items
      BY <1>1, <2>3
    <2>5. new[k] = <<items[n + r].origin, items[n + r].pos>>
      BY <2>3 DEF Appended
    <2>6. QED
      BY <2>2, <2>4, <2>5
  <1>3. ASSUME NEW k \in DOMAIN new, k <= Len(old)
        PROVE  k \in DOMAIN old /\ new[k] = old[k]
    BY <1>1, <1>3 DEF Appended
  <1>4. ASSUME NEW k \in DOMAIN new, NEW l \in DOMAIN new, k < l, new[k][1] = new[l][1]
        PROVE  new[k][2] < new[l][2]
    <2>0. k \in Nat /\ l \in Nat
      BY <1>1
    <2>1. CASE l <= Len(old)
      <3>1. k <= Len(old)
        BY <1>1, <1>4, <2>0, <2>1
      <3>2. QED
        BY <1>3, <1>4, <2>1, <3>1 DEF OnceIn
    <2>2. CASE ~(l <= Len(old)) /\ k <= Len(old)
      <3>1. PICK q \in DOMAIN items : new[l] = <<items[q].origin, items[q].pos>>
        BY <1>2, <2>2
      <3>2. k \in DOMAIN old /\ new[k] = old[k]
        BY <1>3, <2>2
      <3>3. QED
        BY <1>4, <3>1, <3>2 DEF OnceIn
    <2>3. CASE ~(l <= Len(old)) /\ ~(k <= Len(old))
      <3>1. PICK q \in DOMAIN items : q = n + (l - Len(old)) /\ new[l] = <<items[q].origin, items[q].pos>>
        BY <1>2, <2>3
      <3>2. PICK p \in DOMAIN items : p = n + (k - Len(old)) /\ new[k] = <<items[p].origin, items[p].pos>>
        BY <1>2, <2>3
      <3>3. p < q
        BY <1>1, <1>4, <2>0, <3>1, <3>2
      <3>4. QED
        BY <1>4, <3>1, <3>2, <3>3 DEF OnceIn
    <2>4. QED
      BY <2>1, <2>2, <2>3
  <1>5. QED
    BY <1>4

\* Whatever has been passed stays so.
Onward == \A o \in Origins : \A i \in Nat : Passed(o, i) => Passed(o, i)'

\* Messages in a table or in the buffer have an origin and a position.
LEMMA MessageTypes ==
    ASSUME TypeOK, NEW u \in Urls
    PROVE  /\ \A k \in DOMAIN applied[u] : applied[u][k][1] \in Origins /\ applied[u][k][2] \in Nat
           /\ \A k \in DOMAIN syncs[u].items : /\ syncs[u].items[k].origin \in Origins
                                               /\ syncs[u].items[k].pos \in Nat
           /\ applied[u] \in Seq(Origins \X Nat) /\ syncs[u].items \in Seq(Item)
  <1>1. applied[u] \in Seq(Origins \X Nat) /\ syncs[u].items \in Seq(Item)
    BY DEF TypeOK, BufferType, LakeType
  <1>2. /\ \A k \in DOMAIN applied[u] : applied[u][k] \in Origins \X Nat
        /\ \A k \in DOMAIN syncs[u].items : syncs[u].items[k] \in Item
    BY <1>1
  <1>3. QED
    BY <1>1, <1>2 DEF Item

\* Steps that change neither tables nor buffer.
LEMMA OnceQuiet ==
    ASSUME TypeOK, OnceInv, Onward, Unsent', UNCHANGED <<applied, syncs>>
    PROVE  OnceInv'
  <1>1. ASSUME NEW u \in Urls
        PROVE  (OnceIn(applied[u], syncs[u].items) /\ AllPassed(applied[u], syncs[u].items))'
    <2>1. OnceIn(applied[u], syncs[u].items) /\ AllPassed(applied[u], syncs[u].items)
      BY DEF OnceInv
    <2>2. AllPassed(applied[u], syncs[u].items)'
      BY <2>1, MessageTypes DEF AllPassed, Onward
    <2>3. QED
      BY <2>1, <2>2 DEF OnceIn
  <1>2. QED
    BY <1>1 DEF OnceInv

LEMMA OnwardSame ==
    ASSUME UNCHANGED next, \A o \in Origins : holder = o => holder' = o
    PROVE  Onward
  BY DEF Onward, Passed

\* A response moves its client by its message, if that.
LEMMA RespondOnce ==
    ASSUME TypeOK, Probing, Unsent, NEW o \in Origins, NEW accepted \in BOOLEAN, NEW dur,
           Respond(o, accepted, dur), req[o].phase # "idle"
    PROVE  /\ Unsent'
           /\ \A q \in Origins : next'[q] = next[q] \/ next'[q] = next[q] + 1
           /\ ~req[o].probe /\ accepted => next'[o] = next[o] + 1
  <1>1. /\ synced' = [synced EXCEPT ![o] = TRUE]
        /\ \A q \in Origins : q # o => next'[q] = next[q] /\ known'[q] = known[q]
        /\ synced[o] => next'[o] = IF ~req[o].probe /\ accepted THEN next[o] + 1 ELSE next[o]
        /\ ~synced[o] => req[o].probe /\ next'[o] = Resume(o)
    BY RespondMoves
  <1>2. ~synced[o] => Resume(o) = next[o]
    BY DEF Unsent, Resume
  <1>3. synced'[o] /\ \A q \in Origins : q # o => synced'[q] = synced[q]
    BY <1>1 DEF TypeOK, ClientType
  <1>4. QED
    BY <1>1, <1>2, <1>3 DEF Unsent

LEMMA ClientOnce ==
    ASSUME TypeOK, Probing, OnceInv, NEW o \in Origins, Client(o)
    PROVE  OnceInv'
  <1>1. UNCHANGED <<applied, syncs, holder>>
    BY DEF Client, Send, StoreFirst, Probe, LockTimeout, bufferVars, lockVars, lakeVars
  <1>2. CASE Send(o) \/ StoreFirst(o)
    <2>1. UNCHANGED <<next, known, synced>>
      BY <1>2 DEF Send, StoreFirst, clientVars
    <2>2. Onward /\ Unsent'
      BY <1>1, <2>1, OnwardSame DEF OnceInv, Unsent
    <2>3. QED
      BY <1>1, <2>2, OnceQuiet
  <1>3. CASE Probe(o) \/ LockTimeout(o)
    <2>1. req[o].phase # "idle" /\ \E a \in BOOLEAN : \E d : Respond(o, a, d)
      BY <1>3 DEF Probe, LockTimeout, Waiting
    <2>2. Unsent' /\ \A q \in Origins : next'[q] = next[q] \/ next'[q] = next[q] + 1
      BY <2>1, RespondOnce DEF OnceInv
    <2>3. Onward
      <3>1. \A q \in Origins : next[q] \in Nat
        BY DEF TypeOK, ClientType
      <3>2. ASSUME NEW q \in Origins, NEW i \in Nat, Passed(q, i)
            PROVE  Passed(q, i)'
        <4>1. CASE next'[q] = next[q]
          BY <1>1, <3>2, <4>1 DEF Passed
        <4>2. CASE next'[q] = next[q] + 1
          BY <3>1, <3>2, <4>2 DEF Passed
        <4>3. QED
          BY <2>2, <4>1, <4>2
      <3>3. QED
        BY <3>2 DEF Onward
    <2>4. QED
      BY <1>1, <2>2, <2>3, OnceQuiet
  <1>4. QED
    BY <1>2, <1>3 DEF Client

\* A message that is enqueued comes after all of its origin.
LEMMA EnqueueOnce ==
    ASSUME TypeOK, OnceInv, NEW o \in Origins, Enqueue(o)
    PROVE  OnceInv'
  <1>1. PICK p : p = next[o]
    OBVIOUS
  <1>2. p \in 1..Len(Script[o])
    BY <1>1 DEF Enqueue, Waiting, TypeOK, ClientType
  <1>3. PICK t : Pushed(o, p, t)
    <2>1. PICK m : m = Script[o][p]
      OBVIOUS
    <2>2. PICK t : IF m.size > 0
                   THEN PushItem(m.url, [tx |-> t, origin |-> o, pos |-> p, size |-> m.size])
                   ELSE UNCHANGED bufferVars
      BY <1>1, <2>1 DEF Enqueue
    <2>3. QED
      BY <1>2, <2>1, <2>2, PushItemFacts DEF TypeOK
  <1>4. /\ holder = Nobody /\ holder' = o
        /\ UNCHANGED <<next, known, synced, applied>>
    BY DEF Enqueue, clientVars, lakeVars
  <1>5. Nobody \notin Origins
    BY DistinctAssumption DEF DistinctAssumption
  <1>6. Onward /\ Unsent' /\ p \in Nat
    BY <1>1, <1>2, <1>4, <1>5, OnwardSame DEF OnceInv, Unsent
  <1>7. \A i \in Nat : Passed(o, i) => i < p
    BY <1>1, <1>4, <1>5 DEF Passed
  <1>8. ASSUME NEW u \in Urls
        PROVE  (OnceIn(applied[u], syncs[u].items) /\ AllPassed(applied[u], syncs[u].items))'
    <2>1. PICK list, old, new : list = applied[u] /\ old = syncs[u].items /\ new = syncs'[u].items
      OBVIOUS
    <2>2. OnceIn(list, old) /\ AllPassed(list, old)
      BY <2>1 DEF OnceInv
    <2>3. /\ \A k \in DOMAIN list : list[k][1] \in Origins /\ list[k][2] \in Nat
          /\ \A k \in DOMAIN old : old[k].origin \in Origins /\ old[k].pos \in Nat
          /\ DOMAIN old = 1..Len(old) /\ Len(old) \in Nat
      BY <2>1, MessageTypes
    <2>4. /\ \A k \in DOMAIN old : k \in DOMAIN new /\ new[k] = old[k]
          /\ \A k \in DOMAIN new : \/ k \in DOMAIN old
                                   \/ k = Len(old) + 1 /\ new[k].origin = o /\ new[k].pos = p
      BY <1>3, <2>1 DEF Pushed, PushedTo
    <2>5. /\ \A k \in DOMAIN list : list[k][1] = o => list[k][2] < p
          /\ \A k \in DOMAIN old : old[k].origin = o => old[k].pos < p
      BY <1>7, <2>2, <2>3 DEF AllPassed
    <2>6. ASSUME NEW k \in DOMAIN new, NEW l \in DOMAIN new, k < l, new[k].origin = new[l].origin
          PROVE  new[k].pos < new[l].pos
      <3>1. CASE l \in DOMAIN old
        <4>1. k \in DOMAIN old
          BY <2>3, <2>4, <2>6, <3>1
        <4>2. QED
          BY <2>2, <2>4, <2>6, <3>1, <4>1 DEF OnceIn
      <3>2. CASE l \notin DOMAIN old
        <4>1. l = Len(old) + 1 /\ new[l].origin = o /\ new[l].pos = p
          BY <2>4, <3>2
        <4>2. k \in DOMAIN old
          BY <2>3, <2>4, <2>6, <4>1
        <4>3. QED
          BY <2>4, <2>5, <2>6, <4>1, <4>2
      <3>3. QED
        BY <3>1, <3>2
    <2>7. ASSUME NEW k \in DOMAIN list, NEW l \in DOMAIN new, list[k][1] = new[l].origin
          PROVE  list[k][2] < new[l].pos
      BY <2>2, <2>4, <2>5, <2>7 DEF OnceIn
    <2>8. OnceIn(list, new)
      BY <2>2, <2>6, <2>7 DEF OnceIn
    <2>9. AllPassed(list, new)'
      <3>1. Passed(o, p)'
        BY <1>1, <1>4 DEF Passed
      <3>2. \A k \in DOMAIN list : Passed(list[k][1], list[k][2])'
        BY <1>6, <2>2, <2>3 DEF AllPassed, Onward
      <3>3. \A k \in DOMAIN old : Passed(old[k].origin, old[k].pos)'
        BY <1>6, <2>2, <2>3 DEF AllPassed, Onward
      <3>4. QED
        BY <2>4, <3>1, <3>2, <3>3 DEF AllPassed
    <2>10. QED
      BY <1>4, <2>1, <2>8, <2>9
  <1>9. QED
    BY <1>6, <1>8 DEF OnceInv

LEMMA HandlerOnce ==
    ASSUME TypeOK, OnceInv, NEW o \in Origins, Handler(o)
    PROVE  OnceInv'
  <1>1. CASE Enqueue(o)
    BY <1>1, EnqueueOnce
  <1>2. CASE EnqueueRejected(o) \/ EnqueueSquashFails(o)
    <2>1. UNCHANGED <<next, known, synced, holder, applied, syncs>>
      BY <1>2 DEF EnqueueRejected, EnqueueSquashFails, bufferVars, lockVars, clientVars, lakeVars
    <2>2. Onward /\ Unsent'
      BY <2>1, OnwardSame DEF OnceInv, Unsent
    <2>3. QED
      BY <2>1, <2>2, OnceQuiet
  <1>3. QED
    BY <1>1, <1>2 DEF Handler

\* A table leaves the buffer, with or without a commit.
LEMMA FlushedOnce ==
    ASSUME TypeOK, OnceInv, flushUrl # NoUrl, RemoveSync(flushUrl),
           UNCHANGED <<next, known, synced, holder>>,
           UNCHANGED applied \/ CommitSyncs(flushUrl)
    PROVE  OnceInv'
  <1>1. PICK u \in Urls : u = flushUrl
    BY DEF TypeOK, LockType
  <1>2. /\ syncs'[u].items = <<>> /\ DOMAIN syncs'[u].items = {}
        /\ \A v \in Urls : v # u => syncs'[v] = syncs[v]
    <2>1. syncs' = [syncs EXCEPT ![u] = NoSyncs]
      BY <1>1 DEF RemoveSync
    <2>2. syncs'[u] = NoSyncs /\ \A v \in Urls : v # u => syncs'[v] = syncs[v]
      BY <2>1 DEF TypeOK, BufferType
    <2>3. syncs'[u].items = <<>>
      BY <2>2 DEF NoSyncs
    <2>4. QED
      BY <2>2, <2>3
  <1>3. Onward /\ Unsent'
    BY OnwardSame DEF OnceInv, Unsent
  <1>4. \A v \in Urls : v # u => applied'[v] = applied[v]
    BY <1>1, CommitAppends
  <1>5. ASSUME NEW v \in Urls, v # u
        PROVE  (OnceIn(applied[v], syncs[v].items) /\ AllPassed(applied[v], syncs[v].items))'
    <2>1. OnceIn(applied[v], syncs[v].items) /\ AllPassed(applied[v], syncs[v].items)
      BY DEF OnceInv
    <2>2. applied'[v] = applied[v] /\ syncs'[v] = syncs[v]
      BY <1>2, <1>4, <1>5
    <2>3. AllPassed(applied[v], syncs[v].items)'
      BY <1>3, <2>1, <2>2, MessageTypes DEF AllPassed, Onward
    <2>4. QED
      BY <2>1, <2>2, <2>3 DEF OnceIn
  <1>6. PICK list, items, new : list = applied[u] /\ items = syncs[u].items /\ new = applied'[u]
    OBVIOUS
  <1>7. /\ OnceIn(list, items) /\ AllPassed(list, items)
        /\ list \in Seq(Origins \X Nat) /\ items \in Seq(Item)
        /\ \A k \in DOMAIN list : Passed(list[k][1], list[k][2])'
        /\ \A k \in DOMAIN items : Passed(items[k].origin, items[k].pos)'
    <2>1. OnceIn(list, items) /\ AllPassed(list, items)
      BY <1>6 DEF OnceInv
    <2>2. QED
      BY <1>3, <1>6, <2>1, MessageTypes DEF AllPassed, Onward
  <1>8. /\ \A k, l \in DOMAIN new : k < l /\ new[k][1] = new[l][1] => new[k][2] < new[l][2]
        /\ \A k \in DOMAIN new : Passed(new[k][1], new[k][2])'
    <2>1. CASE UNCHANGED applied
      BY <1>6, <1>7, <2>1 DEF OnceIn
    <2>2. CASE CommitSyncs(flushUrl)
      <3>1. PICK rest : rest = SkipSyncs(items, flushInfo)
        OBVIOUS
      <3>2. new = list \o Positions(rest) /\ rest \in Seq(Item)
        BY <1>1, <1>6, <2>2, <3>1, CommitAppends
      <3>3. Appended(new, list, rest)
        BY <1>7, <3>2, AppendFacts
      <3>4. PICK n \in 0..Len(items) : /\ Len(rest) = Len(items) - n
                                       /\ \A k \in 1..Len(rest) : rest[k] = items[n + k]
        <4>1. items \in Seq(Item)
          BY <1>7
        <4>2. QED
          BY <3>1, <4>1, SkipSyncsRest
      <3>5. \A k, l \in DOMAIN new : k < l /\ new[k][1] = new[l][1] => new[k][2] < new[l][2]
        BY <1>7, <3>2, <3>3, <3>4, OnceAppended
      <3>6. ASSUME NEW k \in DOMAIN new
            PROVE  Passed(new[k][1], new[k][2])'
        <4>1. /\ Len(items) \in Nat /\ Len(rest) \in Nat /\ Len(list) \in Nat /\ n \in Nat
              /\ DOMAIN items = 1..Len(items) /\ DOMAIN list = 1..Len(list)
              /\ k \in 1..(Len(list) + Len(rest))
          BY <1>7, <3>2, <3>3 DEF Appended
        <4>2. CASE k <= Len(list)
          <5>1. k \in DOMAIN list /\ new[k] = list[k]
            BY <3>3, <4>1, <4>2 DEF Appended
          <5>2. QED
            BY <1>7, <5>1
        <4>3. CASE ~(k <= Len(list))
          <5>1. PICK r : r = k - Len(list)
            OBVIOUS
          <5>2. r \in 1..Len(rest) /\ k = Len(list) + r
            BY <4>1, <4>3, <5>1, SecondPart
          <5>3. n + r \in DOMAIN items /\ rest[r] = items[n + r]
            BY <3>4, <4>1, <5>2
          <5>4. new[k] = <<items[n + r].origin, items[n + r].pos>>
            BY <3>3, <5>2, <5>3 DEF Appended
          <5>5. QED
            BY <1>7, <5>3, <5>4
        <4>4. QED
          BY <4>2, <4>3
      <3>7. QED
        BY <3>5, <3>6
    <2>3. QED
      BY <2>1, <2>2
  <1>9. (OnceIn(applied[u], syncs[u].items) /\ AllPassed(applied[u], syncs[u].items))'
    BY <1>2, <1>6, <1>8 DEF OnceIn, AllPassed
  <1>10. QED
    BY <1>3, <1>5, <1>9 DEF OnceInv

LEMMA FlushOnce ==
    ASSUME TypeOK, Probing, OnceInv, Flush
    PROVE  OnceInv'
  <1>1. CASE FlushLoad
    <2>1. UNCHANGED <<next, known, synced, holder, applied, syncs>>
      BY <1>1 DEF FlushLoad, bufferVars, clientVars
    <2>2. Onward /\ Unsent'
      BY <2>1, OnwardSame DEF OnceInv, Unsent
    <2>3. QED
      BY <2>1, <2>2, OnceQuiet
  <1>2. CASE FlushSkipAll
    BY <1>2, FlushedOnce DEF FlushSkipAll, clientVars, lakeVars
  <1>3. CASE FlushCommit
    BY <1>3, FlushedOnce DEF FlushCommit, clientVars
  <1>4. CASE FlushEnd
    <2>1. holder \in Origins \cup {FlushTask} /\ holder' = Nobody /\ UNCHANGED <<applied, syncs>>
      BY <1>4 DEF FlushEnd, TypeOK, LockType, bufferVars, lakeVars
    <2>2. FlushTask \notin Origins
      BY DistinctAssumption DEF DistinctAssumption
    <2>3. \A q \in Origins : next[q] \in Nat
      BY DEF TypeOK, ClientType
    <2>4. CASE holder = FlushTask
      <3>1. UNCHANGED <<next, known, synced>>
        BY <1>4, <2>4 DEF FlushEnd, clientVars
      <3>2. Onward /\ Unsent'
        BY <2>2, <2>4, <3>1, OnwardSame DEF OnceInv, Unsent
      <3>3. QED
        BY <2>1, <3>2, OnceQuiet
    <2>5. CASE holder # FlushTask
      <3>1. PICK o \in Origins : o = holder
        BY <2>1, <2>5
      <3>2. Respond(o, TRUE, origin_durable[o]) /\ req[o].phase = "held" /\ ~req[o].probe
        BY <1>4, <2>5, <3>1 DEF FlushEnd, TypeOK, LockType
      <3>3. /\ Unsent'
            /\ \A q \in Origins : next'[q] = next[q] \/ next'[q] = next[q] + 1
            /\ next'[o] = next[o] + 1
        BY <3>2, RespondOnce DEF OnceInv
      <3>4. ASSUME NEW q \in Origins, NEW i \in Nat, Passed(q, i)
            PROVE  i < next'[q]
        <4>1. CASE q = o
          BY <2>3, <3>3, <3>4, <4>1 DEF Passed
        <4>2. CASE q # o
          BY <2>3, <3>1, <3>3, <3>4, <4>2 DEF Passed
        <4>3. QED
          BY <4>1, <4>2
      <3>5. Onward
        BY <3>4 DEF Onward, Passed
      <3>6. QED
        BY <2>1, <3>3, <3>5, OnceQuiet
    <2>6. QED
      BY <2>4, <2>5
  <1>5. QED
    BY <1>1, <1>2, <1>3, <1>4 DEF Flush

LEMMA StepOnce ==
    ASSUME NoAnswerLost, TypeOK, Probing, OnceInv, [Next]_vars
    PROVE  OnceInv'
  <1>1. CASE \E o \in Origins : Client(o) \/ Handler(o)
    BY <1>1, ClientOnce, HandlerOnce
  <1>2. CASE Flush
    BY <1>2, FlushOnce
  <1>3. CASE FlushBroken \/ Crash
    BY <1>3 DEF FlushBroken, FlushFails, FlushCommitLost, ResponseDropped, Crash, Fault, NoAnswerLost
  <1>4. CASE FlushTaskTick \/ Age \/ UNCHANGED vars \/ \E u \in Urls : ForeignCommit(u)
    <2>1. /\ UNCHANGED <<next, known, synced, applied, syncs>>
          /\ holder' = holder \/ holder = Nobody
      BY <1>4 DEF FlushTaskTick, Age, ForeignCommit, vars, bufferVars, lockVars, clientVars, lakeVars
    <2>2. Nobody \notin Origins
      BY DistinctAssumption DEF DistinctAssumption
    <2>3. Onward /\ Unsent'
      BY <2>1, <2>2, OnwardSame DEF OnceInv, Unsent
    <2>4. QED
      BY <2>1, <2>3, OnceQuiet
  <1>5. QED
    BY <1>1, <1>2, <1>3, <1>4 DEF Next

\* When no answer is lost (there is no crash, no failed or abandoned flush, and
\* clients probe before they send), every table gets the messages of each origin
\* once and in order, although origins share tables and transactions are flushed
\* in parts: lock timeouts, rejected messages, failed squashes and foreign
\* commits, after which clients send again, repeat nothing (enqueue_sync,
\* flush_syncs).
THEOREM NothingTwice ==
    ASSUME NoAnswerLost
    PROVE  Spec => []ExactlyOnce
  <1>1. Init => OnceInv
    <2>1. ASSUME Init
          PROVE  /\ Unsent
                 /\ \A u \in Urls : DOMAIN applied[u] = {} /\ DOMAIN syncs[u].items = {}
      BY <2>1 DEF Init, Unsent, NoSyncs
    <2>2. QED
      BY <2>1 DEF OnceInv, OnceIn, AllPassed
  <1>2. TypeOK /\ SeqInv /\ OnceInv /\ [Next]_vars => OnceInv'
    BY StepOnce DEF SeqInv
  <1>3. OnceInv => ExactlyOnce
    BY DEF OnceInv, OnceIn, ExactlyOnce
  <1>4. ProbeFirst = TRUE
    BY DEF NoAnswerLost
  <1>5. QED
    BY <1>1, <1>2, <1>3, <1>4, TypeCorrect, SeqInvAlways, PTL DEF Spec

=============================================================================
