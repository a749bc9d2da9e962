------------------------------- MODULE AsyncState -------------------------------
(* The state of a Python process in which coroutines call ingest_aiter          *)
(* (python_src/chunkstore/async_store.py:131): the producers on the event loop, *)
(* the bounded queues, the worker threads of asyncio.to_thread, and what those  *)
(* wait for: the interpreter lock, the mutexes of the Rust stores, and the loop *)
(* threads on which the coroutines of async backends run (async_bridge.py).     *)
EXTENDS Integers, FiniteSets, Sequences, SequencesExt

CONSTANTS
  Calls,      \* calls of ingest_aiter; a call stands for its producer and its worker too
  Stores, StoreOf,   \* [Calls -> Stores]
  PyStores,   \* the stores whose backend is a Python object (PyBackend)
  Sources,    \* what callers stream: the offsets at which the blocks end
  ChunkSize,  \* chunk_size
  ReadSize,   \* the buffer of for_each_chunk, 64 KiB
  QueueSize,  \* maxsize of the queue, 8
  Workers,    \* threads of the default executor
  None,
  MaxFaults   \* bound

ASSUME AsyncAssumption ==
  /\ IsFiniteSet(Calls) /\ None \notin Calls \cup Stores \cup Seq(Nat)
  /\ StoreOf \in [Calls -> Stores] /\ PyStores \subseteq Stores
  /\ Sources \subseteq Seq(Nat)
  /\ \A s \in Sources : \A i, j \in DOMAIN s : i <= j => s[i] <= s[j]
  /\ {ChunkSize, ReadSize, QueueSize, Workers} \subseteq Nat \ {0}
  /\ MaxFaults \in Nat

VARIABLES
  source,    \* [Calls -> Sources]
  prod,      \* [Calls -> [pc, pulled, item]]: producer()
  queue,     \* [Calls -> sequence of blocks; None is the end]: buf
  reader,    \* [Calls -> [buf, eof]]: _QueueReader
  work,      \* [Calls -> [pc, rest, todo, last]]: ingest_reader, with the chunker's buffer
  stored,    \* [Calls -> sequence of chunks]: what store_chunk has stored and counted
  pending,   \* sequence of jobs the executor has not started, in order
  running,   \* jobs that occupy a worker
  gil,       \* the call whose worker runs Rust code with the interpreter lock, or None
  blobLock, refLock,   \* [Stores -> the call whose worker holds the mutex, or None]
  bridge,    \* [Stores -> the loop of the AsyncBackendSyncAdapter: "none" without one,
             \* "running", "stopping", "stopped"]
  future,    \* [Calls -> the future the worker waits for: "none", "asked", "done"]
  closing,   \* the store whose aclose() has the event loop, or None
  result,    \* [Calls -> {"none", "ok", "err"}]
  faults

jobs  == <<pending, running>>
mutex == <<gil, blobLock, refLock>>
loops == <<bridge, closing>>
vars  == <<source, prod, queue, reader, work, stored, jobs, mutex, loops, future,
           result, faults>>

-------------------------------------------------------------------------------
(* A byte is its position in the source, a block or a chunk a sequence of bytes. *)

End(c, i)       == IF i = 0 THEN 0 ELSE source[c][i]
Bytes(first, n) == [i \in 1 .. n |-> first + i]
Block(c, i)     == Bytes(End(c, i - 1), End(c, i) - End(c, i - 1))
Size(c)         == End(c, Len(source[c]))
Stream(c)       == Bytes(0, Size(c))

\* Jobs: what a worker runs.
PutJob(c)    == <<"put", c>>
IngestJob(c) == <<"ingest", c>>

\* A backend in Rust: the store in memory, and every backend that has a root.
Native(s) == s \notin PyStores

\* Who has the interpreter lock while the worker of c is in a backend call: a
\* Python backend waits for its I/O without it, a native one keeps it.
DuringIO(c) == IF Native(StoreOf[c]) THEN c ELSE None

\* A backend call of c begins: with an async backend, a coroutine is handed to the
\* loop thread and the worker waits for its future. It waits no longer.
Ask(c) == future' = [future EXCEPT ![c] = IF bridge[StoreOf[c]] = "none" THEN "none"
                                                                        ELSE "asked"]
Answered(c) == future[c] # "asked"
Forget(c)   == future' = [future EXCEPT ![c] = "none"]
===============================================================================
