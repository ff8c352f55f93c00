# Seafowl in TLA+

TLA+ models of Seafowl, the TLC runs that check them on small instances, and
theorems about them checked by TLAPS. Paths below are relative to the
repository root.

## The system

Seafowl is an analytical database: a DataFusion query engine over Delta tables
in an object store, with a SQL catalog, an HTTP frontend and an Arrow Flight
frontend. Its own logic, part by part:

| Part | State | Operations | Hard behaviours |
|---|---|---|---|
| Data sync writer (`src/frontend/flight/sync/writer.rs`) | `txs`, `syncs`, `size`, `origin_memory`, `origin_durable`; all in memory | `enqueue_sync`, `flush`, `flush_ready`, `flush_syncs`, `skip_syncs`, `advance_durable` | origins interleave in one buffer; a commit may land unseen; everything is lost in a crash and replayed |
| Sync handler and flush task (`flight/handler.rs`, `flight/sync/mod.rs`) | `first_sync`, the `RwLock` around the writer, the map of query results | `process_sync_cmd`, `flush_task`, `query_to_stream`, `fetch_stream` | lock timeouts, dropped requests, a flag loaded and stored in two steps |
| Squashing, pruning, applying (`flight/sync/utils.rs`, `schema.rs`, `writer.rs`) | none (pure) | `squash_batches`, `construct_qualifier`, `get_prune_map`, `apply_syncs` | chains of changes to a row, primary keys that move, bounds of partition files |
| Catalog (`src/repository/`, `src/catalog/`) | databases, collections, tables, versions, columns, functions, dropped tables | create, rename, drop, `create_new_version`, `delete_old_versions` | several statements without a transaction; ids that are used again |
| DDL and DML (`src/context/`) | Delta tables, the catalog, the catalog in memory | CREATE, INSERT, UPDATE, DELETE, TRUNCATE, VACUUM, DROP, RENAME, CONVERT, upload, time travel | a commit and a catalog version in separate steps; snapshots that are stale when used; a shared catalog that every statement reloads |
| Partition files (`plan_to_object_store` in `src/context/delta.rs`) | temporary files, upload tasks | re-chunking, upload by move or in parts | empty reads, failing uploads, permits |
| Garbage collection (`src/utils.rs`, `src/main.rs`) | status of dropped tables | `gc_databases` | several collectors, repeated failures, restarts |
| Frontends and authorization (`src/frontend/`, `src/auth.rs`, `src/cli/`) | query results waiting for Flight clients | cached reads with an ETag, writes, upload, `do_get`, Postgres, command line | several statements in a request, a failure in the middle, parts in any order |
| Caching object store (`src/object_store/cache.rs`) | a moka cache of chunks, in memory or as files | `get_range`, `get_chunk_range`, `cache_chunk_data`, `on_evict` | eviction between the write of a file and its entry; ranges past the end |
| HTTP object store (`src/object_store/http.rs`) | cached chunks, shared by two stores | HEAD, GET, ranges | servers without HEAD or ranges, files that change |
| Object store registry (`src/object_store/factory.rs`, `object_store_factory/`) | stores built so far | `get_log_store_for_table`, external tables, options | two requests that build the same store; options that fall back |
| Memory pool (`src/memory_pool.rs`) | reserved bytes, a gauge, counters | `grow`, `try_grow`, `shrink` | steps of concurrent calls |
| WASM functions (`src/wasm_udf/`) | buffers in the module's memory | CREATE FUNCTION, evaluation row by row | sizes, widths and signs of numbers |
| Start-up, configuration, shutdown (`src/main.rs`, `src/config/`) | processes | `load_config`, `validate_config`, `build_context`, the subsystems | processes that start together, kills, shutdown with a timeout |
| Parser, remote tables, system tables, external catalog | none that changes | translation and wiring | - |

How they interact: a Flight `do_put` reaches `process_sync_cmd`, which takes
the write lock of the writer, enqueues the message and flushes whatever is due;
`flush_task` does the same flush from the background. A flush loads a Delta
table through the object store registry (and the cache), squashes, prunes,
joins and commits. SQL statements come from a frontend, are planned over the
catalog in memory, which `reload_schema` refreshes from the database first, go
to the same Delta tables and, unlike data sync, record a version in the
catalog. The HTTP frontend derives the ETag of a cached read from the Delta
versions in the query's plan. DROP TABLE deletes the table's files at once and
its row afterwards; the dropped tables that garbage collection deletes were
left by earlier releases.

What makes each part correct:

* data sync: a sequence number reported as durable covers changes that are in
  the Delta tables, one reported as in memory covers changes that are held
  somewhere; no message is left out of a table between two others; complete
  transactions become durable; the maps of the writer agree with each other;
* rows: however a stream of changes is cut into messages and flushes, the table
  is what the changes make one by one;
* statements: no commit undoes or repeats what another session committed, no
  file a table refers to is deleted, the catalog lists what exists;
* reads: a query sees what was committed before it came, and what a client keeps
  under an ETag is what the ETag stands for;
* frontends: nobody reads or writes without permission, and an answer tells what
  was done;
* storage: a range read through a cache is the range of the object, files do not
  outlive their entries, a store has its own credentials, rows are uploaded once;
* processes: what is served is consistent after restarts, processes start and
  stop in the end, and every dropped table is settled.

`PROJECT.json` lists all parts, and under `hazards` what is hard to test in
them, each at its line.

## Plan

1. **Done.** `SyncWriter`, `SyncContract` and their proofs: types, transactions
   and buffer, the meaning of the sequence numbers, the refinement.
2. **Done.** `SyncRows`: squashing, pruning and applying, against changes made
   one by one.
3. **Done.** `Repository`, `Statements`, `Admin`: the catalog, DDL and DML,
   functions and garbage collection; `PartitionFiles`.
4. **Done.** `ChunkCache`, `HttpStore`, `Stores`, `MemoryPool`: storage.
5. **Done.** `Frontends`, `Server`, `WasmUdf`.
6. **Done.** Proofs about the other components: ETags, rows, files and the
   catalog of the statements (`StatementsProofs`); garbage collection and
   databases, the frontends and the life of processes (`ServicesProofs`); the
   caching object store (`ChunkCacheProofs`); reads over HTTP
   (`HttpStoreProofs`); partition files, the stores of locations and the memory
   pool (`StorageProofs`); WASM functions (`WasmUdfProofs`).
7. **Done.** `ExactlyOnce` and `BufferAccounted` of `SyncWriter` (`NothingTwice`,
   `BufferAlwaysAccounted`).
8. Next: weaker hypotheses for the theorems about `Statements`
   (`VersionsCommitted` beside DROP, `ReadsFresh` beside CREATE); `SyncRows`
   without RECURSIVE operators, so that it can be proved about.

## Modules

| Module | Models |
|---|---|
| `SyncStream` | what clients send: `Script[o]`, the messages of origin `o`; which transaction a message belongs to |
| `SyncContract` | abstract specification: tables grow without gaps, the durable number advances over stored changes until a restart forgets it |
| `SyncWriter` | the system: writer, handler, flush task, clients, tables |
| `MCSyncWriter` | scripts for TLC |
| `SyncWriterProofs` | theorems about `SyncWriter`: types, transactions and buffer; durable and in-memory sequence numbers, gaps; the writer implements `SyncContract`; nothing is applied twice |
| `NatLemmas` | facts the proofs share: least and greatest numbers of a set, induction, sums |
| `StatementsProofs` | theorems about `Statements`: the invariant of stores, catalogs and sessions; ETags; no lost rows, no row twice; files that are there, unique keys, usable tables, committed versions, fresh reads |
| `ChunkCacheProofs` | theorems about `ChunkCache`: exact reads, no orphan files |
| `StorageProofs` | theorems about `PartitionFiles`: rows are neither lost nor repeated nor reordered; about `Stores`: each session has the store of its own location; about `MemoryPool`: the counters balance |
| `HttpStoreProofs` | theorems about `HttpStore`: bytes of the right file, exact reads of one version |
| `ServicesProofs` | theorems about `Admin`: collectors, statuses, default schemas; about `Frontends`: only who may reads and writes, answers tell what was done; about `Server`: clean exits, consistent service |
| `WasmUdfProofs` | theorems about `WasmUdf`: no buffer is left, results are exact or an error |
| `SyncRows` | what a sync does to the rows of a table: `squash_batches`, the qualifiers, the pruned files, the join, beside a reference table changed row by row |
| `Repository` | the SQL statements of the catalog, one operator each, on a record of row sets |
| `Statements` | sessions that execute DDL, DML, uploads, VACUUM, time travel and conditional HTTP reads over `Repository`, the Delta logs and the catalog in memory |
| `Admin` | databases, functions, and the garbage collectors of several instances |
| `PartitionFiles` | `plan_to_object_store`: re-chunking and uploading |
| `Frontends` | HTTP with authorization and uploads, Flight SQL, Postgres, command line and one-off commands |
| `Server` | processes: settings, default database and schema, subsystems, shutdown, kills and restarts |
| `ChunkCache` | the caching object store with its write tasks and its eviction listener |
| `HttpStore` | the HTTP object store and the cache its two schemes share |
| `Stores` | stores built from settings, options and locations, and the map that keeps them |
| `MemoryPool` | the metrics around DataFusion's memory pool |
| `WasmUdf` | evaluation of a WASM function over a batch |
| `MCSyncRows`, `MCStatements` | small instances of `SyncRows` and `Statements` |
| `MCServices`, `MCStorage`, `MCRows` | instances of the modules that share no state, checked side by side |

### SyncWriter and the code

State. `txs` is the `IndexMap` of transactions; ids are numbers handed out in
insertion order, so the order of the map is the order of ids. `queue` is the key
order of the `IndexMap` `syncs`, and `syncs[u]` the `DataSyncCollection` of
`u`, with no items when the map has no such key. An item keeps the position of
its message in the script instead of its rows: all properties are about which
messages a table has. `aged` stands for `now() - insertion_time >=
max_replication_lag_s` of the first collection; it may become true at any time.
`holder` is the owner of the write lock; the lock is held across the awaits of
a flush, which is why a flush has several steps (`FlushLoad`, then
`FlushSkipAll` or `FlushCommit`, then the next table or `FlushEnd`) with other
requests arriving, timing out and loading `first_sync` in between. `info[u]` is
the `SYNC_COMMIT_INFO` of the table's last commit and `applied[u]` the messages
committed so far, in order.

| Action | Code |
|---|---|
| `Send`, `StoreFirst` | `process_sync_cmd`: load of `first_sync`, then its store |
| `Probe` | the short-circuit for an empty message without a sequence number |
| `LockTimeout` | the timeout of `sync_writer.write()`: `accepted: false` |
| `Enqueue` | `enqueue_sync` under the lock: transaction (`UpsertTx`), buffer (`PushItem`), `origin_memory` |
| `EnqueueRejected` | its two `InvalidMessage` returns |
| `EnqueueSquashFails` | `squash_batches(..)?` failing after the transaction was updated |
| `FlushTaskTick` | `flush_task` obtains the lock |
| `FlushLoad` | `flush_syncs` up to `table_sequence`; the table is created if absent |
| `FlushSkipAll` | the early return when `skip_syncs` leaves nothing |
| `FlushCommit` | the commit, `remove_tx_locations`, `remove_sync`, `advance_durable` |
| `FlushEnd` | `flush_ready` returns `None`: the lock is released, a request answered |
| `FlushFails`, `FlushCommitLost` | an error on the way; a commit that landed although the flush failed or its future was dropped |
| `ResponseDropped` | the client disconnects between two flushes of its request |
| `ForeignCommit` | another commit to the table (DML, VACUUM), without sync info |
| `Crash` | the process restarts; a commit under way may have landed |

Clients are outside the repository and follow `clade/proto/sync.proto`: they send
messages in order, send one again unless it was accepted, and after a restart
they resume behind the last sequence number they know to be durable. With
`ProbeFirst` they probe before the first message to a restarted server; that
they do is an assumption, the server does not enforce it. A client that has
sent everything probes until it knows that everything is durable.

### The other modules and the code

`Statements`. A step is what a session does between two awaits that reach the
database or the object store; every SQL statement of the repository is a step
of its own, since the code opens no transaction. `mem` is the
`MemoryCatalogProvider` that all sessions share and `RegisterCatalog` replaces.
A session's record holds what the code holds across awaits: the loaded snapshot
(`base`), the directory looked up for it (`tab`), uploaded files (`adds`), the
row read before an insert (`row`). A row of a table is named by the file its
INSERT wrote, so that an UPDATE, which keeps rows, a DELETE and an INSERT differ
in `rows`. `Commit` stands for delta-rs: it is refused when a file the statement
rewrites was removed in the meantime, and otherwise takes the first free
version. `Fail` ends a statement at any await, as an error or a stop does. The
requests of a behaviour are those of one of the workloads.

`Admin`. A collector reads the dropped tables, lists a directory, deletes its
objects one by one and then writes the outcome it computes from the status it
read; `Restart` drops what it was doing. Sessions create databases in two steps,
and functions are registered in memory before they are stored; every call may
fail (`Fail`), and what was done before it stays. `unfinished` is history: the
databases whose CREATE failed between its two rows.

`Frontends`. `PlanStatement` stands for `plan_query` and `create_physical_plan`,
which for a write executes it; `effects` is the order of writes, and a read's
plan is the number of writes before it. A write, or the append of an upload, may
fail after it was committed, when its version cannot be recorded
(`delta.rs:436`); the schemas and empty tables that a failed upload leaves are
in `Statements`. An EXPLAIN ANALYZE is a read here, as it is for
`is_statement_read_only` (`logical.rs:52`), which is what authorization is about; that it
runs the statement it explains is outside. `PostError` looks at all statements
before any is planned.

`Server`. `phase` is how far `main` has got; `cat` and `objects` are kept per
process where the settings are in-memory ones, and go with it. A CREATE TABLE is
two steps, the directory with its Delta log and the catalog row (`CreateLog`,
`CreateTable`), and `creating` has those in between; other statements are not
there, so nobody drops the default schema. `LookupFails` is a lookup of the
default database or schema that fails otherwise than by finding nothing.
`skipped` and `left` are history: the lookups of a start that failed, and the
directories whose CREATE TABLE ended without a row.

`ChunkCache`. A byte is its position, so a result shows what was read. `lock`
is moka's lock of a key, held from an eviction to the end of its listener. A
write task checks for the file, creates (or truncates) it and writes it in three
steps, between which readers and other tasks see it; a file that is removed
meanwhile is written without a name (`unlinked`). `cut` and `left` are history:
the chunks with a file that a failed write left short, or that a failure left
without an entry; `torn` marks a read that met an incomplete file.

`HttpStore` is over servers that leave out what HTTP allows them to; a byte is a
position in a version of a file. A location has the number of layers of
percent-encoding on it (`escapes`): `try_prepare_http_url` adds one, DataFusion
and `get_uri` take one off each. A listing of a file is a HEAD.

`Stores` keeps the precedence of options,
environment and defaults of the S3 and GCS builders. `PartitionFiles` has the
loop that slices batches, the tasks with their two permits, and the end of a
file after three empty reads. `MemoryPool` has one step per call on the pool,
the gauge or a counter. `WasmUdf` has words of `Word` bits; buffers are
allocated, written, read and freed with the sizes the code computes.

## Runs

The first seven runs are about data sync. All of them use two tables.
`MaxSyncs = 2` (3 in one run) makes the count limit
and `MaxInMemory = 3` (4) the size limit fire next to the age; the scripts have
up to five messages, with transactions of one and two messages, over one and
two tables, and one closed by an empty message. That is enough for an open
transaction to be flushed in part, for two transactions to share a collection,
for one to overtake another, and for a replay to meet its own commit.
`MaxFaults` bounds the number of faults of a behaviour, and `Faults` says of
which kinds.

| Run | Checks | Instance |
|---|---|---|
| `sync_faults` | `TypeOK`, `PendingTxTracked`, `BufferAccounted`, `DurableMonotone` | two origins sharing a table, all six kinds of fault, two of them |
| `sync_own_tables` | `DurablePersisted`, `MemoryHeld`, `NoGaps`, `ImplementsContract` | a table per origin, two crashes or failed or lost flushes |
| `sync_shared_live` | `ExactlyOnce`, `MemoryBecomesDurable` | two origins sharing a table, a lock timeout |
| `sync_stuck` | `LocationsPending` is violated | one origin, one crash |
| `sync_mixed_origins` | `DurablePersisted` is violated | two origins sharing a table, one crash |
| `sync_squash_fails` | `DurablePersisted` is violated | one message that cannot be squashed |
| `sync_empty_close` | `ReadyIsDurable` is violated | one origin, no faults |

What they show. The maps of the writer stay consistent whatever happens, so none
of its `unwrap`s and index expressions on them can panic, and no durable number
goes back. With a table per origin the durable and the memory numbers mean what
the protocol says, across crashes. Four runs show where the code departs from
what it or its protocol says:

* `sync_stuck`: a flush that skips all its messages leaves the table in the
  locations of their transactions (`writer.rs:420`), and nothing removes it
  later unless the same transaction sends more rows for that table. The durable
  number then stays where it is.
* `sync_mixed_origins`: `skip_syncs` (`writer.rs:613`) skips every item in front
  of the match, those of other origins included. After a crash the origins may
  come back in another order, and a message that was never committed is
  skipped, removed and reported durable.
* `sync_squash_fails`: `enqueue_sync` closes the transaction before
  `squash_batches` (`writer.rs:244`) can fail; the transaction becomes durable
  without the rows of that message.
* `sync_empty_close`: `advance_durable` runs after a commit only
  (`writer.rs:545`). A transaction whose rows were flushed while it was open, and
  which an empty message then closes, meets both conditions for being durable
  and is not marked so before something else is flushed. The liveness run
  therefore has no empty messages.

This is why `sync_own_tables` has a table per origin and no squash faults, and
why a replay may repeat messages (`skip_syncs` stops at the first item of a
transaction, so its later items are applied again): `ExactlyOnce` is checked
without crashes, and under crashes `NoGaps` takes its place.

The other five are about the rest of the system:

| Run | Checks | Instance |
|---|---|---|
| `statements` | `FilesPresent`, `RowsOnce`, `VersionsCommitted`, `ReadsFresh`, `CacheMatchesTag`, `ListedIsUsable`, `TypeOK`, `NoLostRows` | two sessions, three statements, three workloads |
| `services` | `RowGoneMeansClean`, `GcSettles`, `FailedIsFinal`, `CreatedIsUsable`, `HttpAuthorized`, `AnswerTells`, `ServesConsistently`, `ShutdownIsGraceful`, `StartsEventually` | `Admin` twice, `Frontends` twice, `Server` |
| `storage` | `ReadsAreExact`, `NoOrphanFiles`, `CacheSettles`, `ExactIfUnchanged`, `FromItsLocation`, `OwnStore`, `AddsHaveAllRows`, `CallEnds`, `CountersBalance` | `ChunkCache` twice, `HttpStore` twice, `Stores`, `PartitionFiles`, `MemoryPool` |
| `rows` | `FlushIsSequential`, `FineIsFiner`, `ExactOrError`, `BuffersFreed` | `SyncRows`, `WasmUdf` |
| `sync_rows_changed` | `FlushIsSequential` is violated | `SyncRows` with two Changed columns |

`MCServices`, `MCStorage` and `MCRows` put parts side by side that share no
state: the variable `part` says which one a behaviour is of. `MCServices` extends
`Admin`, `Frontends` and `Server`, `MCStorage` extends `ChunkCache`, `HttpStore`,
`PartitionFiles`, `Stores` and `MemoryPool` (whose top-level names are disjoint
for this reason: `FrontInit`, `HttpNext`, `FilesSpec` and so on), and `MCRows`
extends `WasmUdf`, so that their invariants are the very definitions the theorems
are about. In the behaviours of other parts these stay in one initial state, and
the variables of the instance of `SyncRows` in `MCRows` are `Off`. The
parts `http` and `mixed` of `MCServices` are `Frontends` with one request under every
policy and with three under an open one; `http` and `shared` of `MCStorage` are
`HttpStore` with one reader of everything and with two that scan one file;
`chunked` and `written` are `ChunkCache` without failures and with one. They
stop when their budgets of requests are spent, so deadlock is not checked there;
`CallEnds`, `CacheSettles` and the other liveness properties ask for the ends that
matter.

* `statements`. Three statements are enough for two to overlap and a third to
  follow or meet them: an INSERT between the snapshot and the commit of an
  UPDATE, a VACUUM between an upload and its commit, a DROP between the lookup
  of a name and its use, a CREATE that gets the row id of a dropped table. The
  workloads: `dml` (INSERT, UPDATE, DELETE with and without a filter, TRUNCATE,
  VACUUM and conditional reads of one table), `ddl` (CREATE, CREATE AS, CONVERT,
  DROP, INSERT, schemas, upload, with a directory to convert) and `faults`
  (renames, DROP, CREATE, INSERT, time travel, and one statement that stops at
  any await). Sessions are symmetric; no property tells them apart.
* `services`. Two collectors, tables in each of the three statuses, two failures;
  two sessions with four statements on one database and one function, which may
  be stored from the start, and two failing calls; every pair
  of read and write settings with every token and every query of up to two
  statements (and two of three), and forms with their parts in different orders;
  two clients with three requests over all frontends; two processes under every
  pairing of catalog and store, with two kills or failing lookups.
* `storage`. Five bytes in chunks of two (the last one short), read as a whole and
  in the middle, with one eviction; one byte and a range over two chunks that
  share the first, with one eviction and one download, write or removal that
  fails; files of up to three bytes in chunks of two that are replaced
  once, at a plain, a signed and an escaped location; three requests for eleven
  locations; batches that are empty, fill a file
  exactly, overflow it or span two; a pool of three units.
* `rows`. Either, both or none of the two key columns have bounds. Four changes in
  two messages reach every chain of two moves of a key
  onto a key another row gave up; words of three bits have all boundary cases of
  signed and unsigned numbers.

What the passing runs show: concurrent DML is serialised by the commit check of
delta-rs although each statement works on a snapshot; rows and files survive
VACUUM and interleaved DDL; an ETag never covers rows of another version; no
combination of settings lets a request write or read that should not; a chunk
that moves between memory, disk and nowhere is read right, unless its file is
read before it is complete (see `cache.rs:53` below); squashing,
pruning and joining compose; processes come up together and go down in the end.

### Where the code departs from what it says

`findings` in `PROJECT.json` has those that a run shows. Others were met while
modelling. They are kept out of the passing runs by the constant or the clause
named here; changing it makes TLC find the behaviour:

* `wrapped.rs:273`: on S3 `rename_if_not_exists` replaces its target, although
  the comment at 271 says it fails: a commit can be lost (`AtomicRename = FALSE`,
  `NoLostRows`).
* `default.rs:488`: SQLite gives the id of a deleted row out again, and the
  repository works with ids read earlier. An INSERT whose table is dropped before it records
  its version records it for a table created since (the clause on CREATE TABLE AS
  in `VersionsCommitted`); a DROP that comes second deletes the row of the new
  table.
* `wrapped.rs:128`: `delete_in_prefix` passes over errors in the listing, so the
  row of a dropped table goes while objects are left (`ListFaults = TRUE`,
  `RowGoneMeansClean`).
* `cache.rs:53-60`: `write_file` takes a file that exists for one that is complete,
  and one that did not exist at its check is truncated even if another task has
  finished it since. While a file is being written, and after a write of it that
  failed half way, a reader can get a short range (`torn` in `ReadsAreExact`).
  The file that a failed write (`cache.rs:571`) or a failed removal
  (`cache.rs:339`) leaves has no entry and is not deleted either (`left` in
  `NoOrphanFiles`).
* `http.rs:148`: DataFusion has decoded the path already when `get_uri` decodes it
  again, so an escape in a LOCATION or its signature is lost: `a%2Bb` asks for
  `a+b` (`escapes = 0` in `FromItsLocation`).
* `physical.rs:837`: the store of an external table is registered for its bucket.
  A later table in the bucket decides by which credentials the earlier ones are
  read: one without options has them read with those of the server (`opened` in
  `OwnCredentials`).
* `physical.rs:151`: CREATE DATABASE that fails after the first of its two rows
  leaves a database without a default schema, which IF NOT EXISTS then accepts
  (`unfinished` in `DatabaseHasSchema`).
* `physical.rs:540`: DROP SCHEMA goes through the tables in memory, those that time
  travel has registered among them. Their files are those of the table itself; they
  are deleted, the name `t:<version>` is no row, and the statement fails with the
  table still listed (`DropsVersions` in `ListedIsUsable`).
* `delta.rs:322`: a CREATE TABLE that fails or is killed after its Delta log leaves
  a directory that nothing knows or deletes (`left` in `RestartConsistent`).
* `config/context.rs:169`: a lookup of the default database or schema that fails
  for another reason than absence is ignored, and the process serves without
  (`skipped` in `DefaultSchemaServed`).
* `writer.rs:825`: with a key column of a type without bounds `get_prune_map` keeps
  all files (`utils.rs:309`), while the coarse pruning before it may have dropped
  some by other columns: the difference wraps around or panics (`unordered` in
  `FineIsFiner`).
* `utils.rs:180`: a message with a Changed column whose rows are all temporary
  panics (`SquashPanics`; the message is not kept).
* `logical.rs:52`: EXPLAIN ANALYZE of a write counts as a read.
* `physical.rs:955`: an upload to a table that exists takes the schema of the table
  and not the one in the form.
* `http.rs:515`: the `http` and `https` stores share chunks under keys without a
  scheme (`SchemesAgree = FALSE`, `FromItsLocation`).
* `wasm.rs:524`: the lower half of a decimal is sign-extended when the halves are
  added (`Types` with `"DECIMAL"`, `ExactOrError`).
* `logical.rs:358`: a time travel query registers its versions in the catalog
  that all sessions share, although the comment at 354 says otherwise; a reload in between makes
  it fail (modelled: the session ends with an error).
* `physical.rs:479`: with IF EXISTS any error of loading a table counts as
  absence, so a table whose files are gone cannot be dropped that way (the
  exclusion of faults in `DroppedIsUnlisted`).
* `physical.rs:732`: TRUNCATE records no catalog version, and VACUUM keeps the
  version before it, whose files it deletes.
* `physical.rs:921`: an upload looks for its table in the default schema only.
* `default.rs:287`: a version copied from one whose columns are not copied yet
  has no columns.
* `frontend/http.rs:371`: an error while streaming is the body of an answer with
  status 200 and the ETag of the result (`ErrorBody` in `CacheMatchesTag`).
* `context/mod.rs:99`, `:104`: a dropped function stays callable, and a replaced
  one may come back for a while.
* `default.rs:469`: DROP FUNCTION with several names deletes the first.
* `cache.rs:569`: an entry may point to a file that is gone; it is then
  downloaded on every read until it is evicted.
* `writer.rs:785`: a flush of messages in which every row came and went panics
  (`FlushSyncs` is not enabled for them).
* `writer.rs:779`: an INSERT that is applied again adds its row again.
* `aws.rs:211`: a region that was passed is replaced by the detected one when
  neither bucket nor endpoint is.
* `config/schema.rs:375`: a SQLite DSN with `mode=memory` is not recognised as an
  in-memory catalog; `:430`: a configuration file that is missing is no error.
* `object_store/http.rs:308`, `:228`: the range of an answer is not compared with
  the one asked for; a `Content-Range` without a total panics.
* `memory_pool.rs:93`: the gauge may stay at an older value between calls, which
  is why `CountersBalance` is about the counters.
* `wasm.rs:193`, `:547`, `:786`: the length is written with eight bytes where four
  are reserved (`BuffersFreed` is about the sizes of buffers and does not see it);
  a scalar beside an empty array gives one row; a type that is not
  supported panics.

### Fairness

`MemoryBecomesDurable` assumes weak fairness of the steps that only need time
(`Send`, `StoreFirst`, `Flush`, `Age`): clients keep sending, tasks are
scheduled and clocks advance. It assumes strong fairness of the steps that need
the lock (`Probe`, `Enqueue`, `EnqueueRejected`, `FlushTaskTick`): tokio's
`RwLock` queues its waiters first-in first-out, so a task that waits again and
again is not overtaken for ever, and `flush_task` waits again after every
interval. Nothing is assumed of faults.

`GcSettles` assumes that each collector goes on (`Collect`): its interval keeps
ticking and every call returns. `StartsEventually` assumes that a process that is
off is started again (`Startup`; a supervisor's doing), `ShutdownIsGraceful`
that a shutdown ends or times out (`Finish`, `ShutdownTimeout`: `main.rs` passes a
timeout to `handle_shutdown_requests`). `CacheSettles` and `CallEnds` assume that
spawned tasks and polled futures go on. Nothing is assumed of requests, answers,
evictions, failures or kills.

## Proofs

`SyncWriterProofs` proves, for every script that follows the protocol, every
limit and every set and number of faults (assumptions `ScriptAssumption`,
`ConstantsAssumption`, `DistinctAssumption`):

* `TypeCorrect`: `Spec => []TypeOK`. `TypeOK` is inductive as it stands: it holds
  the facts the steps need, that a request with a message stays within the
  script, that the client holding the lock sent a message, and that every
  sequence number in the state occurs in its origin's script (so a client that
  resumes finds its place). One lemma per operator of the model, one per group of
  actions.
* `BufferAlwaysAccounted`: `Spec => []BufferAccounted`, if there are finitely many
  tables. The order of the collections lists each one that has messages once,
  `size` is the sum of their sizes, and one without messages has no size
  (`BufferInv`). `SumFunction` is a fold over a set, and what a fold computes
  follows from its definition by induction over the set only; that a sum changes
  by what one summand changes (`SumsUpdate` in `NatLemmas`) is proved with the
  least element of a set (`WFMin`), since the provers cannot apply an induction
  theorem with an operator as parameter.
* `PendingTxAlwaysTracked`: `Spec => []PendingTxTracked`, by induction relative to
  `TypeOK`. A buffered message's transaction is in the map and lists the
  message's table. `Enqueue` adds the location with the item
  (`UpsertTxLocations`); a commit removes the location from exactly the
  transactions whose items leave the buffer, and `advance_durable` only removes
  transactions without locations (`AdvanceDurableTracked`).

The following assume in addition `OwnTables`: no table has rows of two
origins, clients probe a restarted server (`ProbeFirst`), and squashing does not
fail. The first and the third cannot be dropped: `sync_mixed_origins` and
`sync_squash_fails` show what happens then. Without the second a client may go
on in the middle of its stream after a restart, which nothing in the server
refuses. All other faults, in any number, are covered.

* `DurableAlwaysPersisted`: `Spec => []DurablePersisted`;
* `MemoryAlwaysHeld`: `Spec => []MemoryHeld`;
* `NeverGaps`: `Spec => []NoGaps`.

None of the three is inductive. `advance_durable` looks at transactions, not at
tables, so the invariant `SyncInv` has to say what a transaction without
locations guarantees (`TxsHeld`: all rows up to its sequence number are in the
tables or in items of transactions not after it; with `PendingTxTracked` the
latter are excluded for a prefix of the map without locations). That needs the
order of transactions and items (`TxsOrdered`, `ItemsOrdered`, `ItemsLinked`).
`skip_syncs` drops items on the word of a commit info, so the invariant says
what that info guarantees (`InfosPersisted`), and that what is in front of the
match is of the same transaction or an earlier one. A crash empties the memory,
and then only the clients carry the argument: what they know is persisted
(`KnownPersisted`), what they have passed is held (`SentHeld`), and a client
that has not probed since has nothing in memory (`Probing`); `ItemsGapFree`
carries `NoGaps` through the buffer. The proof has one lemma per action, and for
the two actions with several effects (`Enqueue`, `FlushCommit`) one per effect.

The remaining three have weaker or other hypotheses:

* `DurableNeverBack`: `Spec => DurableMonotone`, assuming `ProbeFirst` only: shared
  tables and squash failures included. The invariant `SeqInv` orders the
  numbers: those of a transaction in the map are not below what its origin was
  told (`TxsAhead`), and all are numbers of messages the client has sent.
* `WriterImplementsContract`: `Spec => ImplementsContract`, assuming `OwnTables`.
  Tables only grow (`StepGrows`) and stay gap-free (`NoGaps`), which is the
  contract's `Grow`; with `SeqInv` every step but a crash is its `Flush`, and a
  crash its `Restart`.
* `NothingTwice`: `Spec => []ExactlyOnce`, assuming `NoAnswerLost`: no crash, no
  failed or abandoned flush, and clients that probe first. A message that was
  enqueued and whose answer was lost is sent again, so `ExactlyOnce` is false
  without it. Shared tables, lock timeouts, rejected messages, failed squashes
  and foreign commits are included. The invariant `OnceInv` looks at a table and
  its buffer together: the messages of an origin are in order in both, those of
  the table come first (so a flush that appends what `skip_syncs` leaves keeps
  the order), and each was sent before, or is the one whose request is in
  progress (so the next one enqueued is later than all of them).

The invariants were first checked with TLC on the scripts of the runs.

### Admin

These theorems of `ServicesProofs` are for any number of collectors, tables, objects, sessions,
failures and restarts that `ParametersOK` admits:

* `CleanWhenGone`: `Spec => []RowGoneMeansClean`, if listings are complete
  (`~ListFaults`; with it the property is false, see above). A collector acts on
  a listing that others may have made stale, so `LeftCovers` says that whatever
  is in the directory is among the objects the collector still has to delete.
* `FailedStaysFailed`: `Spec => FailedIsFinal`. A collector writes a status
  computed from one it read long ago; `StatusKnown` says which statuses it can
  have read, and that none of them is `FAILED`.
* `CreatedAreUsable`: `Spec => []CreatedIsUsable`, for any stored functions
  and failing calls. `SesShape` ties the step of a session to its request, which is
  what `DatabaseHasSchema` needs. `StoredIsCallable` is about the moment after a
  session has registered the functions it read, and others store new ones in
  between; `FunctionsKnown` says that whatever the database holds is registered,
  or in the list of a session that is about to register it: CREATE FUNCTION registers before
  it stores, and nothing is ever taken out of the registry.

### Statements

The theorems are for every set of workloads (`StatementsAssumption`), any number
of sessions, statements and faults, under `AtomicRename`: without it a commit can
replace another one and nothing of what follows holds.

`Invariance` (`Spec => []Inv`) is what the others rest on. A session goes on with
what it read many steps ago, a table, a version, a row id, while others commit,
drop and rename; the catalog in memory likewise. So `Inv` says what each such
reference is worth: `StoreOK`, a log nobody dropped has no gaps, starts with
version 0, and no file is added twice; `DbOK`, `MapOK` and `SesOK`, the rows of
the catalog, the entries of the catalog in memory and the records of the sessions
(per step, `CtlOK`, `Loaded`, `Filled`) refer to directories that exist and, as
long as these are not dropped, to versions in their logs. The proof first shows
that every step lets the stores grow or is a DROP (`Grow`), which keeps every
reference of the others good, and then looks at what the acting session changes.

* `TagsAreExact`: `Spec => []CacheMatchesTag`; a version of a log never changes,
  so what a client got with an ETag stays what the ETag stands for.
* `RowsAreKept`: `Spec => NoLostRows`. `StageOK`: a file between upload and commit
  is in no log and staged by no other session. One lemma per kind of log step
  (`Committed`, `Vacuumed`, `Created`, `Converted`).
* `RowsAreSingle`: `Spec => [](~TakesOver => RowsOnce)`. `RowsOK` compares all
  files of a version, and what is staged with what it will replace: an UPDATE
  stages a second copy of its rows, and only the conflict check of the commit
  keeps the two apart.
* `FilesAreThere`: `Spec => [](~Retargets => FilesPresent)`. `FilesOK` adds that
  staged files are in the directory of the table they will be committed to
  (`Home`). That needs `LinksOK`: two lookups of one name at different times give
  the same directory.
* `KeysAreUnique`: `Spec => [](~TakesOver => TypeOK)`; ids, names and directories
  of the catalog are unique and versions have their table. `DirsOK`: the
  directory that a CREATE is about to register is known to nobody else, neither
  to the catalog, in the database or in memory, nor to another session.
* `ListedAreUsable`: `Spec => [](~TakesOver => ListedIsUsable)`, whose first half
  leaves out DROP SCHEMA beside time travel (`physical.rs:540` above). `CallsOK`: as long
  as nothing is renamed, a session knows its directory by the name the catalog
  has for it, so the DROP that deletes the files also finds the row; `DropsOK`
  names that DROP for every row whose files are gone, and `VersionedOK` the
  CREATE for every row without a version.
* `VersionsAreCommitted`: `Spec => [](~Drops /\ ~Retargets => VersionsCommitted)`.
  `RecordsOK`: between the commit and the insertion a session has a version of
  the table it committed to, and the row id it copies from is one of that table.
* `ReadsAreFresh`: `Spec => [](~Creates => ReadsFresh)`. `SeenOK`: until a query is
  planned, no entry of the map in memory is loaded at a version older than the one
  the query may not miss. Snapshots have no table loaded (`Unloaded`), so that
  even one that is registered late makes the next lookup read the log.

The hypotheses are about the requests of the workload. `TakesOver`: there are
both CONVERT and DROP requests. CONVERT checks only that a directory has no
table; it can take over one that a DROP has deleted in part, whose remaining files
may hold an old and a new copy of a row. `Retargets`: there are UPDATE or DELETE
requests beside DROP or RENAME. The statement looks its table up by name again
for the directory to write to (`TableDir`), after it loaded the snapshot: if the
name means another table by then, its file lands in the wrong directory and the
commit refers to a file that is not there; the version is recorded for the wrong
table as well. `Drops`: there are DROP requests. SQLite gives the ids of deleted
rows out again, and an INSERT records its version with an id it read earlier.
`Creates`: there are requests that make tables. A CREATE ends by putting its table
into the map in memory, at version 0, unless the table is in the map; if the map
was rebuilt meanwhile from a snapshot without the table, and others have
written to the table, a query that is just past its own reload is planned at
version 0. Each of these needs more statements than the workloads of
`statements` have, or is excluded there by a clause of the property; the proofs
found them. The other properties are proved for all workloads.

### ChunkCache

`ChunkCacheProofs` is for objects and chunks of any size (`ParametersOK`), any set
of ranges, and any number of readers, evictions and failing downloads, writes and
removals:

* `CacheInvariance`: `Spec => []Inv`, with `Inv == CacheOK /\ FilesOK /\
  FilesTracked /\ ReadersOK`;
* `ReadsExact`: `Spec => []ReadsAreExact`;
* `NoFileOrphaned`: `Spec => []NoOrphanFiles`.

`ReadsAreExact` is about the last step of a read and says nothing before it, so
`ReaderOK` says for each step what the read has: `result` is the object from the
start of its first chunk to where it has got, unless it met an incomplete file,
and `batch` the run of chunks that were not cached and will be downloaded
together. `CacheOK`: what is in an entry or a task is the chunk; `FilesOK`: a file
holds its chunk or is `Incomplete`, being written or cut short. The arithmetic of
chunks and ranges, the short last chunk and the final cut are lemmas about
`Upstream`, `ChunkOf` and `Trim`. `NoOrphanFiles` holds only when nothing is under
way; `FilesTracked` says who takes care of a file at any other time: its entry, the
listener that holds the key's lock, or the task that has still to insert the entry,
if no failure has left it.

### PartitionFiles

These theorems of `StorageProofs` are for every number and size of batches, files,
parts and reads, and any interleaving of uploads that fail or not; `FilesParametersOK` says
that a part is larger than a read and that a file is not read empty more than
twice in a row before its end.

* `AllRowsWritten`: `FilesSpec => []RowsKept`;
* `AllRowsAdded`: `FilesSpec => []AddsHaveAllRows`.

`RowsKept` is about all files together. Its proof needs what `FlattenSeq` makes of a
sequence when its last element grows or one is appended; `FlattenSeq` is a recursive
function, so these are lemmas by induction on the length, with the property as a
set of natural numbers (`Induction`). For an upload, `TaskOK` says that the parts,
the buffer and what is still to read are the file, and that a task that takes
empty reads for the end has nothing left.

### HttpStore

`HttpStoreProofs` is for every set of locations, server, number of readers, size
of files and chunks and number of replacements (`HttpParametersOK`), if locations
that differ only in their scheme are one file (`OneFilePerKey`: the key of a cached
chunk has no scheme, see above):

* `BytesOfTheLocation`: `HttpSpec => []FromItsLocation`, with `FilesInv`: what is
  cached under a key, and what a reader has got, is of one file, in whatever
  versions: the one at the URL that is left after encoding and decoding (`Home`).
  For a location without escapes that is the location itself.
* `ReadsOfOneVersionAreExact`: `HttpSpec => []ExactIfUnchanged`, for servers that do
  not answer with another range than they were asked for (`NoMovedRanges`:
  `get_range` does not look at the range of the answer). A reader collects chunks
  of several ages, so `ReadSoFar` says that it has the start of the version its
  HEAD was about, or a byte of another version, which it keeps; `CacheExact` and
  `ChunksKnown` that a cached chunk of a version is the whole chunk of it, also
  of a version that is served no more.

### Frontends

These theorems of `ServicesProofs` are for every set of policies, passwords and requests
(`FrontParametersOK`) and any number of clients:

* `OnlyWhoMay`: `FrontSpec => []HttpAuthorized`;
* `AnswersTell`: `FrontSpec => []AnswerTells`.

The writes of all clients are in one sequence. `FrontInv` says of each of them who
sent it and that it was allowed to (`EffectsOK`); of a request under way what was
checked before it got there, which of its statements are in the sequence (of a
failed one, those up to the failure, itself or not: `Begun`), and
that each of its plans sees exactly the writes in front of it (`SessionOK`); and
the same of an answer (`ReplyOK`). That another client's write changes none of
this needs request numbers that are given out once (`OwnRequests`).

### Server

These theorems of `ServicesProofs` are for any number of processes, tables, kills and restarts, and any
deployment of settings (`ServerParametersOK`):

* `CleanExits`: `ServerSpec => []CleanExitAnswersAll`, the invariant in
  `ShutdownIsGraceful`. `RequestsKnown`: a frontend that has returned while it
  still had a request was the Postgres one, or something panicked.
* `ConsistentService`: `ServerSpec => []ServesConsistently`, if no catalog is in
  memory without saying `:memory:` (`NoModeMemory`; otherwise it is false, see
  `config/schema.rs:375` above). `PlacesAgree`: in each place, the shared one and
  the memory of each process, the catalog has only tables with a directory, and a
  directory without a row is one being created or left behind, all the time; a
  process uses catalog and store of one place because `validate_config` has seen
  its settings. `StartsKnown` says for each step of a start what others cannot undo,
  or which lookup of it failed; `SchemasHeld` that a schema has its database.

### Stores

`StoresAreOwn` (in `StorageProofs`): `StoresSpec => []OwnStore`, for any sessions,
locations, options and environment. `StoresParametersOK` says that the server has
started with each configuration, `KeysAreSecret` that no option of a location is a
key of the server: whoever knows it may of course use it. Two sessions may both
miss a location, build its store and put it into the map; `StoresInv` says that
whatever the map has for a URL and options was built from them, so it does not
matter who was last. `RegistryOK` is about what external tables are read through:
the store registered for a bucket and the table that registered it last;
`ExternalSigner` follows that table's options through `S3Config` and `GCSConfig`
to what requests are signed with. The identity of the machine, which a GCS store
without credentials signs with, counts as the server's.

### MemoryPool

`CountersAlwaysBalance` (in `StorageProofs`): `PoolSpec => []CountersBalance`, for
any finite set of consumers, any sizes and limit, bounded pool or not.
`CountersBalance` is about moments without calls and says nothing in between;
`PoolInv` does: what calls under way have changed in the pool and not yet counted
(`Ins`, `Outs`) makes up the difference, summed over all consumers. One lemma
(`OneCall`) covers every step of one consumer.

### WasmUdf

`WasmUdfProofs` is for every function, module of the kinds `Guests` lists, batch,
number of arguments and width of a word (`ParametersOK`):

* `BuffersAlwaysFreed`: `Spec => []BuffersFreed`, without any assumption.
  `BuffersInv` says which buffers are live at each step, with which sizes.
* `ResultsAlwaysExact`: `Spec => []ExactOrError`, if no type is a decimal (with one
  it is false, see `wasm.rs:524` above). `ResultsInv` has one returned value per row,
  the columns aligned by `columnar_values_to_array` (the longest argument,
  `GreatestUpTo`), and values that decode to what they stand for or not at all.

### Only model-checked

* Liveness is out of TLAPS's reach: `MemoryBecomesDurable`, `GcSettles`,
  `ShutdownIsGraceful`, `StartsEventually`, `CacheSettles`, `CallEnds`.
* `FlushIsSequential` and `FineIsFiner` are about `SyncRows`, whose operators are
  recursive: tlapm cannot reason about modules with RECURSIVE operators.
* What the hypotheses of the theorems about `Statements` exclude is checked by the
  run `statements` within its three statements: `VersionsCommitted` beside DROP,
  and the others beside CONVERT. `ReadsFresh` is exercised by the workload `dml`
  only, which creates no tables: beside CREATE it is neither proved nor checked.

## Not modelled

* The text of SQL: the parser, type conversion and DataFusion's plans; what
  planning decides and reads is part of the statements.
* Remote tables (`datafusion_remote_tables`): filters turned into SQL text for
  another database, with no state of their own.
* System tables and the external catalog (`clade`): read-only views and a call
  that lists the catalog.
* The health endpoint, CORS, metrics other than those of the memory pool,
  logging, and the time a lock wait takes; in data sync, a wall clock that goes
  back (the age of the buffer is a flag).
* Delta's own conflict resolution beyond what `Commit` states, moka beyond a lock
  per key, the HTTP servers, WASM modules and Postgres: external.
* The options that are reported for a storage location (`to_hashmap`,
  `build_storage_location_info`): text for another program.
* In `Server` a process started for the command line is treated like a one-off
  one.
