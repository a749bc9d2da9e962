------------------------------- MODULE AsyncIngest -------------------------------
(* ingest_aiter (python_src/chunkstore/async_store.py), from the async iterator *)
(* to the mutexes of the store: producer() pulls blocks and puts them on a      *)
(* bounded queue, each in a job of the thread pool; another job runs            *)
(* ingest_reader, which pulls them off through _QueueReader and PyReader, cuts  *)
(* them into chunks and stores those. The methods of ChunkStoreHandle           *)
(* (python/src/lib.rs) keep the interpreter lock while they run Rust code, and  *)
(* wait for a mutex with it. The calls of an async backend run on the adapter's *)
(* loop thread, until aclose() stops it.                                        *)
EXTENDS AsyncState

-------------------------------------------------------------------------------
(* Plausible bugs: wrong forms of the definitions below that their comments     *)
(* name; PROJECT.json says which property of which run notices each. No         *)
(* definition uses them.                                                        *)

\* Unlocked: an error leaves the mutex locked.
LeftLocked(lock, c) == lock

\* Kept: what read(n) does not return is dropped.
KeptNothing(buf) == <<>>

\* Room: a queue without maxsize.
RoomAlways(c) == TRUE

\* Wanting: read waits for a full buffer even after the end.
WantingAfterEnd(c) == Len(reader[c].buf) < ReadSize

-------------------------------------------------------------------------------
(* The call, on the event loop                                                  *)

\* A coroutine can go on: the interpreter lock is free, and so is the event loop.
LoopFree == gil = None /\ closing = None

\* The job of the reader is submitted before the producer first runs.
Start(c) ==
  /\ prod[c].pc = "idle" /\ LoopFree
  /\ prod' = [prod EXCEPT ![c].pc = "pull"]
  /\ pending' = Append(pending, IngestJob(c))
  /\ UNCHANGED <<source, queue, reader, work, stored, running, mutex, result,
                 faults, loops, future>>

\* The next block of the iterator, or None after the last one.
NextItem(c) == IF prod[c].pulled < Len(source[c]) THEN Block(c, prod[c].pulled + 1) ELSE None

Pull(c) ==
  /\ prod[c].pc = "pull" /\ LoopFree
  /\ prod' = [prod EXCEPT ![c] = [pc |-> "put", pulled |-> @.pulled + 1, item |-> NextItem(c)]]
  /\ pending' = Append(pending, PutJob(c))
  /\ UNCHANGED <<source, queue, reader, work, stored, running, mutex, result,
                 faults, loops, future>>

\* The iterator raises: producer() ends there, and nobody puts None.
SourceRaises(c) ==
  /\ prod[c].pc = "pull" /\ LoopFree /\ faults < MaxFaults
  /\ prod' = [prod EXCEPT ![c].pc = "raised"]
  /\ faults' = faults + 1
  /\ UNCHANGED <<source, queue, reader, work, stored, jobs, mutex, result,
                 loops, future>>

\* ingest_reader has returned or raised, and "await task" has the producer's end.
Return(c) ==
  /\ result[c] = "none" /\ LoopFree
  /\ prod[c].pc \in {"done", "raised"} /\ work[c].pc \in {"ok", "failed"}
  /\ result' = [result EXCEPT ![c] =
       IF prod[c].pc = "done" /\ work[c].pc = "ok" THEN "ok" ELSE "err"]
  /\ UNCHANGED <<source, prod, queue, reader, work, stored, jobs, mutex,
                 faults, loops, future>>

-------------------------------------------------------------------------------
(* The thread pool: a free worker takes the oldest job                          *)

RunJob ==
  /\ pending # <<>> /\ Cardinality(running) < Workers
  /\ running' = running \cup {Head(pending)}
  /\ pending' = Tail(pending)
  /\ work' = [c \in Calls |-> IF Head(pending) = IngestJob(c)
                                THEN [work[c] EXCEPT !.pc = "read"] ELSE work[c]]
  /\ UNCHANGED <<source, prod, queue, reader, stored, mutex, result, faults,
                 loops, future>>

\* queue.put waits without the interpreter lock until there is room.
Room(c) == Len(queue[c]) < QueueSize

Put(c) ==
  /\ PutJob(c) \in running /\ Room(c) /\ gil = None
  /\ queue' = [queue EXCEPT ![c] = Append(@, prod[c].item)]
  /\ prod' = [prod EXCEPT ![c].pc = IF prod[c].item = None THEN "done" ELSE "pull"]
  /\ running' = running \ {PutJob(c)}
  /\ UNCHANGED <<source, reader, work, stored, pending, mutex, result, faults,
                 loops, future>>

-------------------------------------------------------------------------------
(* _QueueReader.read, PyReader::read and FixedChunker                           *)

Wanting(c) == ~reader[c].eof /\ Len(reader[c].buf) < ReadSize

\* queue.get waits without the interpreter lock until there is an item.
Get(c) ==
  /\ work[c].pc = "read" /\ Wanting(c) /\ queue[c] # <<>> /\ gil = None
  /\ reader' = IF Head(queue[c]) = None THEN [reader EXCEPT ![c].eof = TRUE]
                                        ELSE [reader EXCEPT ![c].buf = @ \o Head(queue[c])]
  /\ queue' = [queue EXCEPT ![c] = Tail(@)]
  /\ UNCHANGED <<source, prod, work, stored, jobs, mutex, result, faults,
                 loops, future>>

\* feed: as many full chunks as there are; the rest waits for more.
Full(b) == Len(b) \div ChunkSize
Fed(b)  == [pc |-> IF Full(b) = 0 THEN "read" ELSE "store",
            rest |-> SubSeq(b, Full(b) * ChunkSize + 1, Len(b)), last |-> FALSE,
            todo |-> [i \in 1 .. Full(b) |-> SubSeq(b, (i - 1) * ChunkSize + 1, i * ChunkSize)]]

\* finish: the rest is the last chunk, if there is one.
Finished(b) == [pc |-> IF b = <<>> THEN "commit" ELSE "store", rest |-> <<>>, last |-> TRUE,
                todo |-> IF b = <<>> THEN <<>> ELSE <<b>>]

\* What read(n) returns, n the length of the buffer that PyReader::read fills.
Taken(buf) == SubSeq(buf, 1, IF Len(buf) < ReadSize THEN Len(buf) ELSE ReadSize)

\* What read(n) leaves for the next call.
Kept(buf) == SubSeq(buf, ReadSize + 1, Len(buf))

\* read returns what it has, up to ReadSize; nothing is the end of the input. From
\* here to the next read the worker keeps the interpreter lock.
ReadReturns(c) ==
  LET buf == reader[c].buf
      got == Taken(buf)
      next == IF got = <<>> THEN Finished(work[c].rest) ELSE Fed(work[c].rest \o got)
  IN
  /\ work[c].pc = "read" /\ ~Wanting(c) /\ gil = None
  /\ reader' = [reader EXCEPT ![c].buf = Kept(buf)]
  /\ work' = [work EXCEPT ![c] = next]
  /\ gil' = CASE next.pc = "read" -> None
              [] next.pc = "store" -> c
              [] next.pc = "commit" -> DuringIO(c)
  /\ IF next.pc = "commit" THEN Ask(c) ELSE UNCHANGED future
  /\ UNCHANGED <<source, prod, queue, stored, jobs, blobLock, refLock, result,
                 faults, loops>>

-------------------------------------------------------------------------------
(* store_chunk and commit                                                       *)

\* Mutex::lock waits with the interpreter lock; then backend.exists() and put().
LockBlob(c) ==
  LET s == StoreOf[c] IN
  /\ work[c].pc = "store" /\ gil = c /\ blobLock[s] = None
  /\ blobLock' = [blobLock EXCEPT ![s] = c]
  /\ work' = [work EXCEPT ![c].pc = "put"]
  /\ gil' = DuringIO(c)
  /\ Ask(c)
  /\ UNCHANGED <<source, prod, queue, reader, stored, jobs, refLock, result,
                 faults, loops>>

BlobPut(c) ==
  /\ work[c].pc = "put" /\ gil = DuringIO(c) /\ Answered(c)
  /\ blobLock' = [blobLock EXCEPT ![StoreOf[c]] = None]
  /\ work' = [work EXCEPT ![c].pc = "count"]
  /\ gil' = c
  /\ Forget(c)
  /\ UNCHANGED <<source, prod, queue, reader, stored, jobs, refLock, result,
                 faults, loops>>

LockRefcount(c) ==
  LET s == StoreOf[c] IN
  /\ work[c].pc = "count" /\ gil = c /\ refLock[s] = None
  /\ refLock' = [refLock EXCEPT ![s] = c]
  /\ work' = [work EXCEPT ![c].pc = "save"]
  /\ gil' = DuringIO(c)
  /\ Ask(c)
  /\ UNCHANGED <<source, prod, queue, reader, stored, jobs, blobLock, result,
                 faults, loops>>

\* save_refcount, and on to the next chunk, the next read, or commit.
RefcountSave(c) ==
  LET next == CASE Len(work[c].todo) > 1 -> "store"
                [] Len(work[c].todo) = 1 /\ work[c].last -> "commit"
                [] OTHER -> "read"
  IN
  /\ work[c].pc = "save" /\ gil = DuringIO(c) /\ Answered(c)
  /\ refLock' = [refLock EXCEPT ![StoreOf[c]] = None]
  /\ stored' = [stored EXCEPT ![c] = Append(@, Head(work[c].todo))]
  /\ work' = [work EXCEPT ![c].todo = Tail(@), ![c].pc = next]
  /\ gil' = CASE next = "store" -> c
              [] next = "commit" -> DuringIO(c)
              [] next = "read" -> None
  /\ IF next = "commit" THEN Ask(c) ELSE Forget(c)
  /\ UNCHANGED <<source, prod, queue, reader, jobs, blobLock, result, faults,
                 loops>>

\* IngestSession::commit waits for nobody: its mutexes guard no backend call of
\* another ingest of a new file (see ChunkStore for the rest).
Commit(c) ==
  /\ work[c].pc = "commit" /\ gil = DuringIO(c) /\ Answered(c)
  /\ work' = [work EXCEPT ![c].pc = "ok"]
  /\ running' = running \ {IngestJob(c)}
  /\ gil' = None
  /\ Forget(c)
  /\ UNCHANGED <<source, prod, queue, reader, stored, pending, blobLock,
                 refLock, result, faults, loops>>

\* A backend call fails: the mutex is dropped, ingest_reader raises, and nobody
\* takes blocks off the queue any more.
Unlocked(lock, c) == [s \in Stores |-> IF lock[s] = c THEN None ELSE lock[s]]

IngestFails(c) ==
  /\ work[c].pc \in {"put", "save", "commit"} /\ gil = DuringIO(c) /\ Answered(c)
  /\ faults < MaxFaults
  /\ work' = [work EXCEPT ![c].pc = "failed"]
  /\ running' = running \ {IngestJob(c)}
  /\ gil' = None
  /\ Forget(c)
  /\ blobLock' = Unlocked(blobLock, c) /\ refLock' = Unlocked(refLock, c)
  /\ faults' = faults + 1
  /\ UNCHANGED <<source, prod, queue, reader, stored, pending, result, loops>>

-------------------------------------------------------------------------------
(* AsyncBackendSyncAdapter: its loop thread, and close                          *)

\* The loop thread has run the coroutine; the worker can take the result.
BridgeStep(c) ==
  /\ future[c] = "asked" /\ bridge[StoreOf[c]] \in {"running", "stopping"} /\ gil = None
  /\ future' = [future EXCEPT ![c] = "done"]
  /\ UNCHANGED <<source, prod, queue, reader, work, stored, jobs, mutex, loops,
                 result, faults>>

\* aclose() calls close() without awaiting: it posts loop.stop and joins the
\* thread, so that the event loop stands still. The calls in progress do not count.
Aclose(s) ==
  /\ bridge[s] = "running" /\ LoopFree
  /\ bridge' = [bridge EXCEPT ![s] = "stopping"]
  /\ closing' = s
  /\ UNCHANGED <<source, prod, queue, reader, work, stored, jobs, mutex,
                 future, result, faults>>

\* The coroutines that have not ended by now never will.
LoopStops(s) ==
  /\ bridge[s] = "stopping" /\ gil = None
  /\ bridge' = [bridge EXCEPT ![s] = "stopped"]
  /\ UNCHANGED <<source, prod, queue, reader, work, stored, jobs, mutex, closing, future,
                 result, faults>>

\* The thread has ended, or the five seconds of join are over.
CloseReturns ==
  /\ closing # None /\ gil = None
  /\ closing' = None
  /\ UNCHANGED <<source, prod, queue, reader, work, stored, jobs, mutex, bridge, future,
                 result, faults>>

-------------------------------------------------------------------------------

AsyncInit ==
  /\ source \in [Calls -> Sources]
  /\ prod = [c \in Calls |-> [pc |-> "idle", pulled |-> 0, item |-> None]]
  /\ queue = [c \in Calls |-> <<>>]
  /\ reader = [c \in Calls |-> [buf |-> <<>>, eof |-> FALSE]]
  /\ work = [c \in Calls |-> [pc |-> "idle", rest |-> <<>>, todo |-> <<>>, last |-> FALSE]]
  /\ stored = [c \in Calls |-> <<>>]
  /\ pending = <<>> /\ running = {}
  /\ gil = None
  /\ blobLock = [s \in Stores |-> None] /\ refLock = [s \in Stores |-> None]
  /\ bridge \in [Stores -> {"none", "running"}]
  /\ \A s \in Stores \ PyStores : bridge[s] = "none"
  /\ future = [c \in Calls |-> "none"]
  /\ closing = None
  /\ result = [c \in Calls |-> "none"]
  /\ faults = 0

ProducerStep(c) == Pull(c) \/ Put(c) \/ Return(c)
WorkerStep(c)   == \/ Get(c) \/ ReadReturns(c) \/ LockBlob(c) \/ BlobPut(c)
                   \/ LockRefcount(c) \/ RefcountSave(c) \/ Commit(c)

AsyncNext ==
  \/ RunJob
  \/ \E s \in Stores : Aclose(s) \/ LoopStops(s)
  \/ CloseReturns
  \/ \E c \in Calls : \/ Start(c) \/ ProducerStep(c) \/ WorkerStep(c)
                      \/ SourceRaises(c) \/ IngestFails(c) \/ BridgeStep(c)

\* The event loop, the loop threads and the workers go on as long as they can.
AsyncFairness == /\ WF_vars(RunJob) /\ WF_vars(CloseReturns)
                 /\ \A s \in Stores : WF_vars(LoopStops(s))
                 /\ \A c \in Calls : /\ WF_vars(ProducerStep(c)) /\ WF_vars(WorkerStep(c))
                                     /\ WF_vars(BridgeStep(c))

AsyncSpec == AsyncInit /\ [][AsyncNext]_vars /\ AsyncFairness
===============================================================================
