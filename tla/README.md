# chunkstore in TLA+

chunkstore is a deduplicating store for files: it cuts a file into chunks, keeps
each distinct chunk once under its SHA-256 digest, and keeps for every file the
list of its digests and for every digest a reference count. The core is a Rust
crate (`core/`); Python (`python/`) and Go (`go/`) wrap it. This directory holds
TLA+ models of the parts in which something can go wrong between two steps, the
TLC configurations that check them, and TLAPS proofs of what they should do for every
number of threads, files, chunks and calls.

    tlc -config sequential.cfg MCChunkStore            # one run
    tlapm BackupProofs.tla                             # the proofs of one module

`PROJECT.json` lists the runs, the source lines behind every definition, one
seeded bug per checked property, the hazards of the code and the theorems.

## 1. Inventory

| Part | State | Operations | Interacts with | What makes it hard |
|---|---|---|---|---|
| `ChunkStore`, blob-backed metadata (`core/src/store/mod.rs`, `persistence.rs`, `refcount.rs`, `manifest.rs`, `stats.rs`, `fsck.rs`) | in memory: manifest, counts, statistics, each under its own mutex, and a mutex for blobs; on the backend: blobs, one record per file and per count, and an index of each | `ingest*`, `delete`, `read*`, `fsck`, `stats`, `open` | calls `ChunkBackend` for every blob and record, sometimes with a mutex held | threads interleave between backend calls; a backend call may fail; the process may die between two of them; indexes are read, changed and written back |
| `ChunkStore`, Postgres metadata (`postgres_meta.rs`) | two tables, and blobs on the backend | the same; a commit is one SQL transaction | several processes share both | what a call read before its transaction may be stale in it; a reply may be lost; blobs are outside the transaction |
| `FsBackend` (`fs_backend.rs`) | files in a directory, a counter for temporary names | `get`, `put`, `exists`, `delete`, `list_keys` | called by the store, by several threads and, on Postgres, by several processes | crash and power loss between create, write, sync and rename; test-then-act |
| Streaming from Python (`async_store.py`, `python/src/lib.rs`) | a bounded queue, a reader's buffer, worker threads | `open`, `ingest_aiter` and one-job methods, `aclose` | event loop, thread pool, interpreter lock, the store's mutexes | waiting for each other; a producer or a consumer that dies; block, read and chunk boundaries |
| Chunkers (`core/src/chunker/`) | a buffer | `feed`, `finish` | called by `ingest*` | boundaries; CDC keeps the whole stream |
| Python bridge and backends (`async_bridge.py`, `backend.py`, `async_s3_backend.py`) | files; an event loop on a thread | `get`, `put`, `exists`, `delete`, `close` | called from Rust through `PyBackend` | closing with calls in progress; one temporary name per key |
| C API (`core/src/ffi/`) | handles, buffers handed to the caller | one function per store method | callbacks are a backend, a reader or a writer | lifetime of handles and buffers; empty values |
| Go binding (`store.go`, `callbacks.go`, `read_callback.go`, `write_callback.go`) | registries of backends, readers and writers | one method per C function, `Open`, `Close` | C API, callbacks | goroutines share the registries; `Close`; who frees a buffer; what an `io.Reader` may return |
| Go backends (`backend.go`, `backend_s3.go`) | files, objects | `Get`, `Put`, `Exists`, `Delete` | called through the callbacks | one temporary name per key, no sync |
| Backup service (`examples/fastapi-backup`) | a catalog in SQLite (one connection), a store | upload, scan, list, download, delete | changes both, one after the other | a crash in between; a failing commit leaves its statement in the open transaction |

What makes each part correct:

- **ChunkStore**: a chunk's count covers its references, so nothing in use is
  collected; counts are exact and nothing is left behind when nothing fails; what
  a crash leaves can be opened, read and collected safely; concurrent calls act as
  if one at a time.
- **Postgres**: counts in the database equal the references at every instant; a
  file in the database is readable from every node; fsck reclaims the rest.
- **Filesystem backends**: a linearizable map from keys to values in which no partial
  value is ever seen, whatever dies.
- **Go binding and C API**: a callback finds the reader, writer or backend of its own
  call; what is read and stored is whole; a stream is not kept in memory; a handle is
  not used once it is destroyed; every buffer is freed once.
- **Streaming**: the chunks stored are those of the stream; memory is bounded; a
  call returns, whatever other calls and other stores do; the interpreter never stops.
- **Backup service**: what a client was promised is kept, what was deleted stays
  deleted, and the catalog and the store name the same backups.

The behaviours that are hard to test are listed one by one, with their source
lines, under `hazards` in `PROJECT.json`.

## 2. Modules

    StoreState <- ChunkStore <- StoreProperties <- StoreRefinement <- MCChunkStore
                                     |                   +-- INSTANCE FileStore (twice)
                                     +- ChunkStoreProofs <- DurableProofs <- CreateProofs
                                     +- BackupState <- BackupService <- BackupProperties <- MCBackupService
                                                                             +- BackupProofs
    PgState    <- PgStore     <- PgProperties    <- MCPgStore
                                     +- PgProofs
    FsState    <- FsBackend   <- FsProperties    <- MCFsBackend
                                     +-- INSTANCE KeyValue
                                     +- FsProofs
    AsyncState <- AsyncIngest <- AsyncProperties <- MCAsyncIngest
                                     +- AsyncProofs
    GoState    <- GoStore     <- GoProperties    <- MCGoStore
                                     +- GoProofs

Each component has a module for its constants, assumptions, variables and
vocabulary (`*State`), one with an action per step of the code, one with the
properties, one that instantiates it for TLC, and, where there are theorems, one or more
with those; `DurableProofs` also extends `StoreRefinement`, and `BackupProofs` also
`DurableProofs`, whose facts about the store it rests on. The second begins with wrong
versions of some of its definitions, which nothing uses: each shows that one
property notices one plausible bug. `FileStore` and `KeyValue` are abstract specifications: what a
caller of the store, and the store as a caller of its backend, may rely on.

### ChunkStore

A thread's call is a record in `call`: `pc` names the next backend call or
critical section, and the other fields are the local variables of the Rust
functions (`new` the digests to store, `done` how many have been, `old` the
digests to release, `released` how many have been, `cur` and `count` what
`save_refcount` was given, `seen` the last reading of an index or of the keys,
`existed` what `exists` said). One action is what a thread does between two points at which others can
come in:

| Code | Actions |
|---|---|
| `store_chunk` | `StoreExists`, `StorePut` (blob mutex), `Increment`, `SaveRefcount`, `RefIndexGet`, `RefIndexPut` (refcount mutex) |
| `IngestSession::commit` | `Peek`, `Insert`, `SaveManifest`, `ManIndexGet`, `ManIndexPut`, then `release_digests` |
| `delete` | `Remove`, `RemoveManifest`, `RmIndexGet`, `RmIndexPut`, then `release_digests` |
| `release_digests` | per digest `Size`, `Decrement` (refcount mutex), then `GcBlob`, `GcRefcount`, `GcIndexGet`, `GcIndexPut`, or `SaveRefcount`, `RefIndexGet`, `RefIndexPut` without the mutex |
| `read` | `Lookup`, `Fetch` per chunk |
| `fsck(true)` | `FsckLive`, `FsckList`, `FsckUnlink` per key; on a backend that cannot list its keys (S3, Python) it ends at `FsckList` with nothing reclaimed |
| `open` | `Open`, possible only if `load_manifests` would not fail |
| any backend call | `Fail`: an error, no effect, mutexes dropped, counts in memory left as they are |
| the process | `Crash`: memory and calls are gone |

Backend values are abstracted to what the code distinguishes: `blobs`, the records
`mrec` and `rrec`, the indexes `midx` and `ridx`. `LoadedFile`, `LoadedCount` and
`Openable` say what the next `open` would make of them.

Steps that are merged: the update of the statistics with the action that ends
`store_chunk` or a release (nothing reads them in between but `stats`); the `exists` calls of
fsck's report, which change nothing, with the listing; the read of a blob whose
size is unknown with `Size`, which may find it gone or fail: then the release ends early, and this counts as
a call cut short (`faults`). That a size is unknown happens to an empty chunk, whose 0 in the
refcount entry means "unknown": `ingest_chunks` (`mod.rs:297-307`) stores whatever chunks it is given. A failing call that did take effect is the same, for
everything checked here, as the effect followed by a failure of the next call.

### Postgres

`PgStore` has one set of tables (`manifests`, `counts`) and of `blobs`, and per node a
blob mutex. `CommitIngest` and `CommitDelete` are whole transactions: their statements
lock every row they change until the commit and read no others, so running ones are
serializable; a deadlock between two is an error to one (`PgFail`). `PgPeek` and
`PgDigests` are statements of their own, as in the code. `LostReply` commits and
returns an error. `Debitable` is the table's `CHECK (count > 0)`: it is what keeps a
transaction from counting a row down to 0, so the list of blobs to unlink that a
transaction returns is always empty and the unlinking after it is never reached.
Nothing keeps two calls, on one node or on two, from writing one file at once; `clashed`
remembers that they did, because the counts are wrong from then on (section 5). `PgFsckList`
ends the call on a backend that cannot list its keys.

### Filesystem backends

Three backends keep keys in a directory: `FsBackend` (Rust), and `FilesystemBackend` in
Go and in Python. `kind` says which one an instance uses; an operator for each way in
which they differ (`Numbered`, `Syncs`, `Tests`, `Missing`) decides in the actions. Rust
numbers its temporary files and syncs them; the others have one temporary name per key
and do not sync; Rust and Python test for a file before they read or remove it, and Go acts
at once and takes a missing file for an answer. `mishaps` records what the Go and Python
ones are not made for: two puts of one key at once (`clash`) and a loss of power (`power`);
`KeysWhole` and `FsIsMap` are stated until one happens, and for Rust none is ever
recorded. `ChunkStore.open` of Python takes only the root of its `FilesystemBackend` and
uses the Rust one, so the Python methods matter only to callers of the class itself.

The module has numbered files, the names that stand for them (`link`, `tmp`) and,
per key, the files its name may stand for again after a power loss (`past`), since
the directory is not synced. An action is a system call. `PowerLoss` tears any
file that is not synced and takes back any renames and removals.

### Streaming ingest from Python

`AsyncIngest` follows bytes, each its position in the stream, from the iterator
through blocks, the queue, `_QueueReader`, the 64 KiB read of `for_each_chunk` and
the fixed chunker into `store_chunk`. A source is given by the offsets at which its blocks
end, so that what a block holds is defined without recursion. `pending` and `running` are the queue and the
threads of asyncio's default executor. `gil` is the worker that runs Rust code with
the interpreter lock; a backend call gives it up only if the backend is a Python
object. `exists` and `put` of a chunk are one backend call here, and so is all of
`save_refcount`; `commit` waits for no mutex that is held across a backend call.

A store with an asynchronous backend has an `AsyncBackendSyncAdapter`, whose loop is in
`bridge`. A backend call (`Ask`) posts a coroutine and waits for its `future` without the
interpreter lock; `BridgeStep` answers. `Aclose` holds the event loop (`closing`) while
`LoopStops` and `CloseReturns` follow: `close` stops the loop without looking at the
futures, and gives up waiting after five seconds.

### Go binding and C API

`GoStore` follows a goroutine's call from the Go method into the C function, its
callbacks and back. `streams` and `bridges` are the registries, whose ids go through
C as `userdata`; `store` is the Go `Store`, `alive` the Rust stores not yet dropped;
`heap` has the buffers that Rust allocated and that somebody must free: messages,
digests, the bytes of a read, values from a Go backend.

| Code | Actions |
|---|---|
| `OpenFilesystem`, `Open`, `Close` | `OpenFilesystem`, `Open`, `OpenFails`, `Close` |
| a method up to its C function | `BeginCall`, `Register` (`IngestReader`, `ReadTo`), `Enter` (null handle, ids that are not UTF-8) |
| `chunkstore_go_backend_*`, `CallbackBackend` | `BackendGet`, `BackendGot`; the other three change nothing here |
| `chunkstore_go_read_cb`, `FfiReadSource` | `ReadCallback` |
| `chunkstore_go_write_cb`, `FfiWriteTarget` | `WriteCallback` |
| `FixedChunker`, `CdcChunker` under `ingest*` | `Fed`, `Finished`: what stays in the chunker and what has been stored |
| the Rust store | `Ingested`, `IngestedPath`, `IngestedReader`, `ReadAll`, `ReadToStarts`, `Deleted`, `StatsRead`, `CoreFails`: `files` is all that is left of it |
| `withErr`, `parseDigestsJSON`, `Read` after its C function, deferred `unregister*` | `TakeError`, `TakeDigests`, `TakeBytes`, `Unregister` |

A reader is what it will hand out: blocks, a `Pause` where `Read` returns 0 bytes and no
error, and an end (`io.EOF` after or together with the last bytes, or another error).
A block counts as a byte and 2^31 is scaled down to `HalfInt`, so that a length may be negative
or cut as a `C.int`. `held` is what the chunker keeps of a stream: less than a chunk if it is
the fixed one, everything if it is the content-defined one, which cuts only in `finish`.
Where FastCDC cuts does not show: the chunks together are what was fed.

### Backup service

`BackupService` composes the whole `ChunkStore` with the catalog: `BackupState` extends
the store's modules, and each action is a handler's step in which either the store
moves (`StoreStep`) or the catalog does. `rows` is what the SQLite file has, `view` what
the service's one connection sees: a statement changes `view`, a commit copies it to
`rows`, and a failing statement or commit may leave the transaction open or roll it back
(`TransactionAfterError`). `story` is what the clients were told.

| Code | Actions |
|---|---|
| `upload_backup`, `scan_backup`, `_persist_backup` | `Upload` and `Scan`, both of them `Persist`; then `Ingested`, `InsertRow`, `CommitRow`; on an error of the catalog `InsertFails`, `RolledBack` |
| `delete_backup` | `Delete`, `ArchiveDeleted`, `DropRow`, `CommitDrop`; `DropFails` |
| `download_archive`, `download_backup` | `Download`, `Downloaded` |
| the process | `ServiceCrash`, `Restart` |

An upload whose name ends in `.gz` or `.tgz` is stored as it is, an empty one too, so the
contents include the empty archive; `scan_backup` refuses a directory without files.
The handlers are coroutines that never await between the store and the catalog, so one
request at a time is all there is.

## 3. Runs

| Run | Instance | What it shows |
|---|---|---|
| `sequential` | 1 thread, 3 ids (one empty), 2 chunks, files of up to 2, 4 calls of all kinds, 1 failing call, 1 crash | what a reopened store would list is readable, and what it would count covers it, at every instant; no garbage and exact statistics after undisturbed calls; the backend agrees with memory; seen from the backend the store implements `FileStore` (`CrashAtomic`), as long as no call has failed |
| `concurrent_writers` | 2 threads that ingest and delete, never one id together, 2 chunks of which one is empty, 3 calls, 1 failing call | counts cover, and while no call is cut short equal, the references; every call returns |
| `concurrent_create` | 2 threads that ingest new ids and read | files are readable, no count or byte is lost in memory or on the backend, the store implements `FileStore` as seen in memory (`Linearizable`) |
| `race_gc` (violation) | 2 threads that ingest and delete | `release_digests` unlinks a chunk that another thread is adding a reference to |
| `crash_delete_reopen` (violation) | 1 thread, 1 crash | a crash in `remove_manifest` leaves a store that does not open |
| `pg_cluster` | 2 nodes with a thread each, 2 ids (one empty), two writers of one id included, 4 calls, 1 failure or lost reply, 1 crash | counts exact until two calls have been writing one id at once; files readable even after that; fsck, where keys can be listed, reclaims everything that is not counted |
| `pg_delete_last` (violation) | the same nodes, no failures | a delete of a last reference cannot commit |
| `fs_backend` | 3 backends, 1 process, 2 threads, 1 key, 2 values, 4 calls, 1 error, 1 crash or power loss | no partial value is ever visible, nothing is left over, the backends implement `KeyValue`; for Go and Python until two puts of the key overlap or the power fails |
| `go_binding` | 2 goroutines, 2 ids (one not UTF-8), 2 contents, 3 readers, 2 chunkers, 2 opens, 2 calls | callbacks reach their own call, whole streams, less than a chunk of them in memory, no buffer left, no use of a destroyed handle |
| `python_ingest` | 2 calls on 2 stores (one Python-backed, its backend synchronous or asynchronous), 4 workers, queue of 1, 1 failure, `aclose` at any time | chunks in order and complete, bounded memory, undisturbed calls return |
| `python_deadlock` (violation) | 2 calls on one Python-backed store | a worker waits for a mutex with the interpreter lock |
| `backup_service` | 2 backups, 2 chunks, an empty archive among the contents, 5 requests, 1 failing backend call, 2 failing statements or commits, 1 crash | what was answered 200 is kept, what was deleted stays deleted, no archive without a row, and a row for every promised archive |

Why the bounds are enough to mean something: two files and two chunks, with
contents that repeat a chunk, share one and are empty, give every way in which a
reference can be added, moved, kept or dropped. Four calls are enough to ingest,
share, replace and delete with a fault in between; three with two threads to have two
overlap with the result of a third. One fault and one crash may come at any step,
and `Open` returns to normal operation after a crash. In `fs_backend` calls on
different keys touch different names, so one key is enough, and values stand for the indexes, which are
overwritten. In `backup_service` five requests upload two backups, delete one and bring a
commit after the failing one; two catalog failures make a rollback meet a second
one. In `python_ingest` block lengths, `ReadSize = 3` and `ChunkSize = 2` do
not line up, a block is empty, a stream is empty, and the longest stream is longer
than everything that may be buffered, so that `BufferBounded` can fail: its bound is
`QueueSize + 2` of the stream's longest blocks (the queue's, the producer's, the one being
cut up), a read less a byte and a chunk less a byte. Two workers per call
are what `EveryIngestReturns` needs: a call on a store that somebody closes keeps two for
ever (its ingest waits for the stopped loop and its producer's put for the full queue),
and with three workers TLC finds the other call starved.

In `go_binding` two calls suffice for every property: ids and buffers are shared by two at
most, and a call after a `Close` and a reopening is the second of the two opens. `HalfInt = 2` with
contents of 1, 3 and 4 blocks gives a length that fits, one that is negative and one
that is cut to 0; with `ChunkSize = 2` they are less than a chunk, a chunk and a half, and two. Goroutines are a symmetry set; no property there is temporal.

The concurrent situations in which the code does not keep its promise are
excluded from the passing runs by what they run, and say so: two writers on one id with
blob-backed metadata (`ExclusiveFiles`; `pg_cluster` has them in the run), deletes beside ingests
where blobs and records are compared (`Ops`), fsck beside ingests (`RepairAlone` and `sequential`). Two processes on
one `FsBackend` are outside `fs_backend` too: with `Procs = {p1, p2}` and `ProcOf <-
TwoProcesses` TLC finds `KeysWhole` violated, because both count temporary names from
0 and one empties the file that the other is about to rename. And `Close` happens in
`GoStore` only when no call is in progress: nothing in the binding sees to that.

An id that `Manifest::insert` refuses counts in `sequential` as a call cut short (`faults`), since
its chunks stay counted like those of an ingest that fails.

Deadlock is checked in all runs but the two of `AsyncIngest`, where a call whose
ingest failed or whose iterator raised may really wait for ever (see hazards).
`Rest` is the state in which no call is in progress.

### Fairness

`FairSpec` asks for weak fairness of each thread's steps: the operating system
schedules every thread, backend calls return, and a mutex is free again and again
only finitely often before the bounded number of calls is used up, so weak fairness
is enough. `Fail`, `Crash` and the beginning of calls are not fair. `AsyncFairness` is the same for
the event loop's side and the worker's side of each call, and for the executor,
which starts the oldest job when a worker is free. The adapter's loop is a thread of its own: it answers
while it runs (`BridgeStep`) and stops once it is told to (`LoopStops`), and `join` has a timeout
(`CloseReturns`). Starting a call, closing a store and every failure are not fair.

## 4. Proofs

Each theorem holds for every value of the constants that its module's `*Assumption` allows:
any sets of threads, files, digests, keys and contents, any sizes and any bounds on calls,
failures and crashes. What a theorem assumes beyond that is in its `ASSUME`, and is named here. The
inductive invariants were checked by TLC before they were proved.

| Theorem | States | Assumes | Inductive invariant |
|---|---|---|---|
| `ChunkStoreProofs!TypeCorrect` | `TypeOK` | | `TypeInv` |
| `ChunkStoreProofs!CountsCover` | `RefcountCovers` | writers apart, no crash | `CoverInv` |
| `ChunkStoreProofs!CountsExact` | `RefcountExact` | writers apart, no crash | `CoverInv`, `Balanced` steps |
| `DurableProofs!FilesSurvive`, `CountsSurvive`, `OneCallerReads` | `DurableFilesIntact`, `DurableRefcountCovers`, `FilesReadable` | one caller | `DurableInv` |
| `DurableProofs!ManifestSurvives`, `CountsStaySame` | `DurableManifestMatches`, `DurableCountsMatch` | one caller | `MatchInv` |
| `DurableProofs!CollectsAll` | `NoGarbage` | one caller | `CollectInv` |
| `DurableProofs!OneCallerStats` | `StatsExact` | one caller | `StatsInv` |
| `DurableProofs!OneCallerLinearizable` | `Linearizable` (refinement) | one caller, no failure, no crash | `ReadInv` |
| `DurableProofs!WritersLinearizable` | `LinearizableUncut` (refinement) | writers apart, no reads, no crash | `CoverInv` |
| `DurableProofs!OneCallerCrashAtomic` | `CrashAtomic` (refinement) | one caller | `PendingInv` |
| `CreateProofs!CreatesReadable`, `CreatesSurvive` | `FilesReadable`, `DurableFilesIntact` | callers only create and read | `CreateInv` |
| `CreateProofs!CreatesCovered`, `CreatesMatch` | `DurableRefcountCovers`, `DurableCountsMatch` | callers only create and read | `CountInv` |
| `CreateProofs!CreatesStats` | `StatsExact` | callers only create and read | `CreateStatsInv` |
| `CreateProofs!CreatesLinearizable` | `Linearizable` (refinement) | callers only create and read, no failure, no crash | `CreateReadInv` |
| `PgProofs!PgTypeCorrect` | `PgTypeOK` | | `PgInv` |
| `PgProofs!PgCountsExact` | `CountsExact` | | `ExactInv` |
| `PgProofs!PgReclaims` | `RepairReclaims` | `RepairAlone` | `RepairInv` |
| `PgProofs!PgReadable` | `PgFilesReadable` | `RepairAlone` | `ReadableInv` |
| `FsProofs!FsTypeCorrect`, `LeavesNothing` | `FsTypeOK`, `NoLeftovers` | | `FsInv`, `Attended` |
| `FsProofs!KeysStayWhole` | `KeysWhole` | one process if the backend is the Rust one | `WholeInv` |
| `FsProofs!BackendIsMap` | `FsIsMap` (refinement) | the same | `WholeInv` |
| `GoProofs!GoTypeCorrect`, `LiveStore`, `OwnStreams`, `LeavesNoBuffer` | `GoTypeOK`, `UsesLiveStore`, `StreamsApart`, `NothingLeaks` | | `GoInv` |
| `GoProofs!StoresWhatWasRead`, `HoldsLessThanAChunk`, `ReadsWhatIsThere` | `IngestedWhole`, `ReaderHeldBounded`, `ReadsWhole` | | `ProgressInv` |
| `AsyncProofs!AsyncTypeCorrect`, `StoresInOrder`, `BoundedMemory` | `AsyncTypeOK`, `StoredInOrder`, `BufferBounded` | | `AsyncInv` |
| `AsyncProofs!InterpreterRunsAlone` | `InterpreterRuns` | one call per Python-backed store | `OwnLocks`, `LocksOK` |
| `BackupProofs!BackupTypes`, `BackupsStay`, `DeletesLast`, `NothingOrphaned`, `AlwaysDiscoverable` | `BackupTypeOK`, `BackupsKept`, `DeletedForGood`, `NoOrphans`, `Discoverable` | | `BackupInv` |

### ChunkStore: types and counts in memory

`TypeOK` is not inductive: that `rc` stays in `Nat` needs that a decrement finds a count, and
that the next chunk of a call exists needs to know where the call is. `TypeInv` adds
`WellFormed` of every call's record: which fields are meaningful at which `pc`. One lemma
per group of actions.

`RefcountCovers` counts three kinds of references: positions in files, chunks
that an ingest has counted and not yet committed, and chunks of a replaced or
deleted file that a call has yet to release. `CoverInv` adds
`Exclusive` (one writer per file) and `PeekedIsCurrent` (what a call has peeked is still the
file's content when it inserts), without which `Insert` would create references to
be released that nothing counted: this is where two writers of one file break the
code. `WritersApart` names three reasons why they do not meet: the callers see to it
(`ExclusiveFiles`), there is one caller, or every id is new. Every step is
shown to be `NoLoss`: what it adds to the references it adds to the count. Steps leave the
references as they are or fewer, add one and a count (`Increment`), remove one and a count
(`Decrement`), or hand references from one holder to another (`Insert`, `Remove`), where an
injection between the old and the new references bounds the cardinality.

For `CountsExact` the same steps are shown to be `Balanced`, with bijections for the hand-overs,
as long as no call is cut short. This needs two more facts: a decrement finds a count of its own
(`OwedCounted`), and a call that ends has entered or released everything it counted (`Settled`).
Nothing is asked of the sizes of chunks: `release_digests` skips the decrement of a chunk whose
size it cannot learn (`mod.rs:499-508`), which happens to empty chunks, but then it returns an error
and the call counts as cut short.

### ChunkStore: what is on the backend, with one caller

`DurableFilesIntact` and `DurableRefcountCovers` say what the next `open` would find at any
instant. They are not inductive, because memory decides what is deleted. `DurableInv` therefore
counts, besides the references of the running store, those that only the
backend still has: a failed call may leave on the backend a file that memory has replaced
(`DiskRefs`; not those a call is just about to overwrite, which it will release itself). The two together are the `Claims` on a chunk, and the
invariant says that `rc` covers the claims and that every claimed chunk has its blob. An injection
shows that a reopened store refers to no more than is claimed. `Local` adds
what the call in progress has written so far: the record before the index, the count that is
being saved, all counts before the manifest record (`ChunksSaved`), and that fsck's list is of
uncounted chunks. A crash then leaves a state from which `Open` establishes all of it again;
crashes inside `open` are those before it.

`MatchInv` adds that memory and the backend differ on a file or a count only while a call is
at the steps that make them agree; `CollectInv` that a blob nobody counts is in the hands of a call
that is about to count or delete it, and that counts are exact. At most one call
is what makes both true: `save_refcount` after a release runs without the mutex, and
`release_digests` unlinks a blob after dropping it.

### ChunkStore: what is on the backend, with many callers

Where callers only create files and read (the backup example's uploads), nothing is released, so
there is no limit on threads. `CreateInv`: no blob goes, the chunks an
ingest has stored are there, a record on the backend is that of the file in memory or of
a file that does not get there, and the index lists only files whose record is written. It does not say
that the index lists every file: two threads overwrite each other's index, which loses an entry (a
hazard), and that is why `DurableManifestMatches` is missing here.
`CountInv` rests on the refcount mutex, which is held from `increment` to the last write of
`save_refcount`: whoever is in there writes what memory counts (`Saves`), so that the backend lags
by at most one reference, the one whose count is on the way (`NearlySaved`).
That reference is still held by its call and in no listed file, so the counts a crash leaves
cover the files it leaves.

### ChunkStore: statistics

`StatsExact` speaks of sums over files, blobs and positions (`MapThenSumSet`). What a sum
changes by when one term changes, or one element comes or goes, is shown without induction: a finite set for which
a law of sums fails has a smallest subset for which it does (`LeastSet`, from `WFMin` on the
naturals), and taking one element from that gives one for which it fails too. `Total`
is the sum, and `TotalWithout` the law the rest follows from.

The two numbers are right only between calls, so `StatsInv` says what is in hand within one.
`TotalExact`: `total` is the length of the files and what each call carries: chunks it has stored and not
entered, chunks of the old file it has not released. `Insert` and `Remove` hand a
whole file over from one to the other; every other step moves one chunk. `StoredExact`:
`stored` and what a call has put and not yet added are the length of the blobs and what it has
unlinked and not yet taken off. For this a blob must be new when it is put (`PutsNew`: nobody else has put it
since `exists` looked, which the blob mutex guarantees) and there when it is unlinked (`DropsStored`), and
`TakesCounted` says that the saturating subtraction of the released chunk cuts nothing off. That there are no blobs but
those of files is `NoGarbage` with one caller, and with many creators `BlobsNamed`: a blob belongs to a
file or to a call on its way to enter one. As `StatsExact` is, both are stated as long as nothing has
failed and no process has died: a failed call leaves bytes added that no file has.

### ChunkStore: the abstract store

`FileStore` knows files and requests, and nothing of chunks: a request takes effect in one step
and then is answered. `InMemory` (`Linearizable`) sees the manifest in memory and `OnBackend`
(`CrashAtomic`) what a reopened store would load. Each action of `ChunkStore` is shown to map to a step
of `FileStore` or to none: in memory, an ingest takes effect in `Insert`, a delete in
`Remove`, a read in `Lookup`; on the backend, an ingest in `ManIndexPut` for a new file or in
`SaveManifest` for one that is replaced, and a delete in `RemoveManifest`. The rest of the
call leaves the abstract state alone, and the answer must fit what the file was at that
instant. That needs of the code what the earlier invariants have:

- A read is of the file as `Lookup` found it (`ReadCurrent`) and finds its chunks
  (`FilesReadable`), and a release finds the count and the size of each chunk; otherwise the call answers with
  an error that the abstract store has no reason for. `race_gc` is this failing, so `WritersLinearizable` leaves reads out, and
  the other two take it from one caller or from callers that delete nothing.
- An ingest that replaces a file knows, when it writes, that memory and backend agree on
  it (`MatchInv`), and a call about to remove a record that there is one (`Pending`).

`Linearizable` is stated for a store in which nothing fails, as in the runs: an ingest that
fails after `Insert` is answered with an error and stays in the manifest, which `FileStore` does
not allow. `LinearizableUncut` is the same of every step that does not cut a call short, which is what
can be said of concurrent writers whatever their chunks are; on `concurrent_writers` TLC finds it to hold. `CrashAtomic` allows for any crash and is stated as long as no call has been cut short by an
error, so its theorem needs no bound on either.

### Backup service

The service is one caller of the store (`ServerAlone`), so that `CollectInv` holds of the store within it:
every step of the service is a step of the store or leaves it as it is. Lemmas then say what the
catalog relies on: a call leaves every other file alone (`StoreTouches`); an ingest that is
answered with a result has its file in memory and on the backend, and one that is not has
it there or not, but never another (`IngestingStays`); a delete's file goes from memory and
backend and does not come back (`DeletingStays`). On these `ServiceInv` rests: the handler and the
store are at the same call (`Engaged`), the request's file and row are as far as its handler has got (`Handling`),
and each client's story is kept by rows, connection and store together (`AllTold`). The last is the heart of
it: `kept` needs the row in `rows` and in `view`, because the transaction that a
failing commit leaves open is committed or rolled back by a later request, which must not take the row
with it. `Rowed` and `Filed` are what remains true of the other stories while the store's calls succeed, and
SQLite's: they are not needed for promises, but for `NoOrphans`.

### Postgres

`ExactInv` adds to exact counts that what `CommitIngest` and `CommitDelete` will release,
peeked in an earlier statement, is still what the manifest holds; one writer per file is
what makes it so, and all of it is stated until two have met (`clashed`), as `CountsExact` is.
Cardinality lemmas say what changing one manifest does to the number of
references. `RepairInv`: no ingest runs beside fsck, and no transaction brings a count back to 0
(`Debitable`), so what fsck listed is still what it may remove. `ReadableInv` does not need exact
counts: it is `RepairInv` with `StoredSoFar`, the chunks an ingest has put, and
`ReferencedIsCounted`, which survives two writers of one file because a chunk once counted stays so.

### Filesystem backends

`WholeInv` says that a put in progress has the temporary file it created for itself
(`OwnTemp`), that a file has one name (`OneName`: what a put writes to is not what a key shows),
that it is written and, for Rust, synced before it is renamed, and that every file a key may show
again after a power loss is whole. It is conditional on `mishaps = {}`, as the property is. Two
Rust processes in one directory would count from the same number, hence `OneCounter`.
For `BackendIsMap` every action is mapped to a step of `KeyValue` or to none: `PutRename`
is the put, `DeleteRemove` the delete, a get or an exists takes effect when it looks.

### Go binding

`GoInv` has a part for each thing that goroutines share: the handle a call works on is the
open store's (`HandlesOK`); the registries have exactly the entries of the calls between
registration and return (`StreamsOK`); a buffer exists exactly while its call is at the
step that frees it (`HeapOK`). `LiveStore` holds because the model closes a store only when no
call is in progress; the binding leaves that to its users. `ProgressInv` adds that what was handed on and what
the chunker holds are together the first `pos` bytes of the stream. Readers that
`Pause` are excepted, as in the properties: Rust takes a read of 0 bytes for the end of the stream.

### Streaming from Python

`AsyncInv`: a job is waiting or running and its call is at the step that waits for it
(`JobsOK`); who holds the interpreter lock and each mutex follows from where the workers are
(`LocksOK`); and `StreamOK` places every byte: the queue has the blocks after those taken, and
chunks stored, chunks cut, the chunker's rest and the reader's buffer follow each other
up to the end of the last block taken. `SpreadOK` and `LoadOK` bound what is between. `InterpreterRuns` is what
`python_deadlock` refutes: the theorem says that two calls on one Python-backed store are
necessary for it.

### Only model-checked

- Liveness (`EveryCallReturns`, `EveryIngestReturns`): the prover does not do liveness under
  fairness, nor `ENABLED`.
- Under hypotheses that a theorem does not cover: `Linearizable` with reads beside deletes (there
  `race_gc` refutes it), and `StatsExact` and what is on the backend with several
  threads that replace or delete files (there the races listed as hazards are).
- `DurableManifestMatches` is not claimed for several threads: there it is false.

Every invariant and action property that a passing run checks has its theorem.

## 5. Disagreements between the code and its documentation

Four runs end in a counterexample; `findings` in `PROJECT.json` quotes the
documentation each contradicts.

1. `race_gc`: "Concurrent `ingest` / `delete` on that instance is safe" does not
   hold between `release_digests` and `store_chunk`. Three more races under the same sentence
   are among the hazards: the manifest index, counts saved after the mutex is dropped, two ingests of one id.
2. `crash_delete_reopen`: after a crash in a delete "fsck can drop orphan blobs",
   but the store does not open.
3. `pg_delete_last`: "Delete commits metadata (refcount--) first, then unlinks blobs
   that reached zero": no count can reach zero under the schema's `CHECK`.
4. `python_deadlock`: two concurrent ingests on one Python-backed store can stop the
   process.

More, which the passing runs state as exceptions or leave outside:

- `docs/CONSISTENCY.md:41` "Two nodes can ingest/delete the same `file_id` or shared chunks without
  lost updates": they cannot. `peek_digests` (`mod.rs:380-384`, `425-430`) is a statement of its own
  before the transaction, so two replacements that overlap both release the old chunks, or the one
  that peeked before the other committed releases nothing of it. Without its condition (`~clashed`)
  TLC finds `CountsExact` violated in `pg_cluster` by two ingests: one peeks a new id, the other commits
  `<<a>>` to it, the first commits an empty file, and `a` stays counted for ever. No file becomes
  unreadable (`PgFilesReadable`), because the schema's `CHECK` refuses the last decrement.
- `docs/CONSISTENCY.md:66` says what `fsck.rs:23-25` does: a backend that cannot list its keys skips the
  orphans. Line 58 "fsck removes them" is therefore true of backends that can, which is
  how `RepairReclaims` is stated.
- `main.py:76` "On catalog failure we delete the chunkstore entry to avoid orphaned blobs with no catalog
  row": the opposite may be left. A failing commit can leave its INSERT in the open
  transaction, and a later commit brings the row of the undone upload back: its archive is gone and
  every delete of it answers 404. `NoOrphans` excepts this (`catalogFaults = 0`); the chunks on the
  backend belong to archives all the same.

- `backend.go:62` "Put writes bytes atomically": two overlapping puts of one key, or a loss of
  power, show a torn value. `KeysWhole` without its condition is violated for `go`.
- `docs/CONSISTENCY.md:53` "Stream-chunk the input (fixed or CDC). [...] payloads are not held as a
  full-file `Vec`": `CdcChunker::feed` keeps the whole stream. `ReaderHeldBounded` is stated for
  fixed chunks only.
- `async_bridge.py:41`: after `aclose` a call in progress, or a later one, waits for ever and keeps
  its workers; `EveryIngestReturns` excepts it.

## 6. What is not modelled

- `gc_chunks`, the codec, sizes missing from old records and their backfill (which with a
  codec would take the encoded length for the size), fsck's list of missing blobs,
  `compute_stats`: reports or pure data.
- SHA-256 (taken to be injective), and so blobs that differ from their digest.
- Names: directories in the filesystem backends (ids that are prefixes of each other's
  paths), a key named like another's temporary file (Go and Python), and the id
  `__index__`, whose record would be the index.
- Where FastCDC cuts, and the checks of its parameters.
- In the Go binding: zero bytes in ids, the refusal of chunk sizes below 1, what `Stats`
  reports, panics in callbacks.
- In the backup service: packing and unpacking of archives, listing and statistics.
- S3 backends (one request per method) and everything else that `PROJECT.json` lists as
  `not_modelled`, with the reason.

## 7. Plan

Modelled: all components whose steps can interfere or be cut short. Proved: what section 4
says. What is left:

1. `ChunkStore` over a backend with power loss (`KeyValue!Lost`): which of the durable
   properties survive.
2. Keys instead of ids and two indexes in `ChunkStore`, for the id `__index__`.
