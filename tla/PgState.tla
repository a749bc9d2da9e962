-------------------------------- MODULE PgState --------------------------------
(* The state of a cluster of processes that share one backend for blobs and one *)
(* Postgres database for metadata.                                              *)
EXTENDS Integers, FiniteSets, Sequences, FiniteSetsExt

CONSTANTS
  Nodes,           \* processes that have the store open
  Threads,         \* threads that call it
  NodeOf,          \* [Threads -> Nodes]
  Files, EmptyIds, Digests, Contents, MaxChunks, None,   \* as in StoreState
  Ops,             \* what callers call: "ingest", "delete", "read", "repair"
  RepairAlone,  \* TRUE: nobody ingests while fsck repairs
  MaxCalls, MaxFaults, MaxCrashes                        \* bounds

ASSUME PgAssumption ==
  /\ IsFiniteSet(Nodes) /\ IsFiniteSet(Threads) /\ NodeOf \in [Threads -> Nodes]
  /\ IsFiniteSet(Files) /\ IsFiniteSet(Digests) /\ EmptyIds \subseteq Files
  /\ MaxChunks \in Nat
  /\ Contents \subseteq Seq(Digests)
  /\ \A c \in Contents : Len(c) <= MaxChunks
  /\ None \notin Contents /\ None \notin Threads /\ None \notin Files
  /\ RepairAlone \in BOOLEAN
  /\ MaxCalls \in Nat /\ MaxFaults \in Nat /\ MaxCrashes \in Nat

VARIABLES
  blobs,      \* digests stored as blobs on the shared backend
  manifests,  \* [Files -> Contents \cup {None}]: table chunkstore_manifests
  counts,     \* [Digests -> Nat]: table chunkstore_refcounts, 0 where there is no row
  blobLock,   \* [Nodes -> the thread that holds the process's blob mutex, or None]
  call,       \* [Threads -> record]: the call each thread is in, see Idle
  up,         \* [Nodes -> BOOLEAN]: FALSE between a crash and the next open
  clashed,    \* BOOLEAN: two calls have been writing one file at once, see CountsExact
  calls, faults, crashes

shared == <<blobs, manifests, counts>>
past   == <<clashed, calls, faults, crashes>>
vars   == <<shared, blobLock, call, up, past>>

-------------------------------------------------------------------------------

Idle == [pc |-> "idle", op |-> "none", file |-> None,
         new |-> <<>>,   \* ingest: the chunks to store; read: the chunks to stream
         done |-> 0,     \* how many of new are stored or streamed
         old |-> <<>>,   \* the chunks the transaction releases
         seen |-> {},    \* fsck's key set
         result |-> "none"]

Pcs == {"idle", "exists", "put", "peek", "commit_ingest", "digests", "commit_delete",
        "lookup", "fetch", "fsck_live", "fsck_list", "fsck_unlink"}

Busy(t)     == call[t].pc # "idle"
Running(op) == \E t \in Threads : Busy(t) /\ call[t].op = op
NoWriterOn(f) ==
  \A t \in Threads : Busy(t) /\ call[t].op \in {"ingest", "delete"} => call[t].file # f

Chunk(t)       == call[t].new[call[t].done + 1]
ContentOf(f)   == IF manifests[f] = None THEN <<>> ELSE manifests[f]
Become(t, r)   == call' = [call EXCEPT ![t] = r]
Goto(t, label) == Become(t, [call[t] EXCEPT !.pc = label])
Return(t, res) == Become(t, [Idle EXCEPT !.op = call[t].op, !.file = call[t].file,
                                         !.result = res])

Occurrences(c, d) == Cardinality({i \in DOMAIN c : c[i] = d})

\* The digests that have a row in chunkstore_refcounts.
Counted == {d \in Digests : counts[d] > 0}
===============================================================================
