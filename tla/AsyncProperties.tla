----------------------------- MODULE AsyncProperties -----------------------------
(* What must hold of ingest_aiter.                                              *)
EXTENDS AsyncIngest

Byte == Nat \ {0}
WorkPcs == {"idle", "read", "store", "put", "count", "save", "commit", "ok", "failed"}
\* Where a worker is in Rust code, waiting for a mutex or between two.
RustPcs == {"store", "count"}
\* Where it waits for the backend.
IoPcs == {"put", "save", "commit"}

\* The state keeps its types. The interpreter lock and the mutexes are held by
\* exactly the workers that are where the code holds them, so none is leaked by a
\* call that ends, however it ends; a job runs as long as its worker is busy, and no
\* future outlives the backend call that waits for it.
AsyncTypeOK ==
  /\ prod \in [Calls -> [pc : {"idle", "pull", "put", "done", "raised"}, pulled : Nat,
                         item : Seq(Byte) \cup {None}]]
  /\ queue \in [Calls -> Seq(Seq(Byte) \cup {None})]
  /\ reader \in [Calls -> [buf : Seq(Byte), eof : BOOLEAN]]
  /\ work \in [Calls -> [pc : WorkPcs, rest : Seq(Byte), todo : Seq(Seq(Byte)), last : BOOLEAN]]
  /\ stored \in [Calls -> Seq(Seq(Byte))]
  /\ pending \in Seq({"put", "ingest"} \X Calls)
  /\ running \subseteq {"put", "ingest"} \X Calls
  /\ bridge \in [Stores -> {"none", "running", "stopping", "stopped"}]
  /\ gil \in Calls \cup {None}
  /\ blobLock \in [Stores -> Calls \cup {None}] /\ refLock \in [Stores -> Calls \cup {None}]
  /\ closing \in Stores \cup {None}
  /\ result \in [Calls -> {"none", "ok", "err"}]
  /\ faults \in Nat
  /\ \A c \in Calls :
       /\ blobLock[StoreOf[c]] = c <=> work[c].pc = "put"
       /\ refLock[StoreOf[c]] = c <=> work[c].pc = "save"
       /\ gil = c <=> work[c].pc \in RustPcs \/ (work[c].pc \in IoPcs /\ Native(StoreOf[c]))
       /\ future[c] \in {"none"} \cup
            (IF bridge[StoreOf[c]] # "none" /\ work[c].pc \in IoPcs
               THEN {"asked", "done"} ELSE {})
       /\ IngestJob(c) \in running <=> work[c].pc \notin {"idle", "ok", "failed"}

\* The chunks of a sequence of bytes: all of ChunkSize, but the last.
Pieces(s) ==
  [i \in 1 .. (Len(s) + ChunkSize - 1) \div ChunkSize |->
     SubSeq(s, (i - 1) * ChunkSize + 1, IF i * ChunkSize < Len(s) THEN i * ChunkSize ELSE Len(s))]

\* However the iterator cuts the stream into blocks and whatever the scheduling,
\* what is stored is the stream's chunks, in order, and all of them when the call
\* returns: the digests are those of ingest() on the same bytes.
StoredInOrder ==
  \A c \in Calls : /\ IsPrefix(stored[c], Pieces(Stream(c)))
                   /\ result[c] = "ok" => stored[c] = Pieces(Stream(c))

\* "Without buffering the whole file" (async_store.py:137): what is in memory at
\* once, from the block the producer holds to the chunks not yet stored, is bounded
\* by the queue, two more blocks, one read and one chunk, not by the length of the
\* stream.
InMemory(c) ==
  LET item == IF prod[c].pc = "put" THEN {prod[c].item} ELSE {}
      held == (item \cup Range(queue[c])) \ {None}
  IN  UNION {Range(b) : b \in held \cup Range(work[c].todo) \cup {reader[c].buf, work[c].rest}}
NoBlockLonger(c, n) == \A i \in DOMAIN source[c] : End(c, i) - End(c, i - 1) <= n
BufferBounded ==
  \A c \in Calls :
    LET bytes == Cardinality(InMemory(c)) IN
    \A longest \in 0 .. Size(c) :
      NoBlockLonger(c, longest) =>
        bytes <= (QueueSize + 2) * longest + (ReadSize - 1) + (ChunkSize - 1)

\* A call whose iterator ends, whose backend works and whose store nobody closes
\* returns, whatever becomes of the other calls: those may wait for ever, on a
\* queue or on the loop that close() has stopped, each with two workers.
Disturbed(c) == \/ prod[c].pc = "raised" \/ work[c].pc = "failed"
                \/ bridge[StoreOf[c]] \in {"stopping", "stopped"}
EveryIngestReturns ==
  \A c \in Calls : prod[c].pc # "idle" ~> result[c] # "none" \/ Disturbed(c)

\* The worker that has the interpreter lock never waits for a mutex whose holder
\* waits for the interpreter lock; if it did, no Python code would run again.
WaitsForMutex(c) == \/ work[c].pc = "store" /\ blobLock[StoreOf[c]] # None
                    \/ work[c].pc = "count" /\ refLock[StoreOf[c]] # None
InterpreterRuns == \A c \in Calls : gil = c => ~WaitsForMutex(c)
===============================================================================
