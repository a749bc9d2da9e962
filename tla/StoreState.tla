------------------------------ MODULE StoreState ------------------------------
(* The state of one ChunkStore (core/src/store/mod.rs) whose metadata lives on  *)
(* its blob backend: what the backend holds, what the process holds in memory,  *)
(* and how far each thread is inside the call it makes.                         *)
(*                                                                              *)
(* A digest stands for the chunk that hashes to it, so a blob is the digest it  *)
(* is stored under; a file's content is the sequence of its chunks' digests.    *)
EXTENDS Integers, FiniteSets, Sequences, FiniteSetsExt

CONSTANTS
  Threads,         \* threads that call the store
  Files,           \* file ids
  EmptyIds,        \* the file ids Manifest::insert rejects ("")
  Digests,         \* chunk digests
  SizeOf,          \* [Digests -> Nat]: the length of each chunk
  Contents,        \* the contents callers ingest, as sequences of digests
  MaxChunks,       \* bound: chunks of the longest content
  None,            \* no file record, no lock holder
  Ops,             \* what callers call: "ingest", "create", "delete", "read", "repair"
  ExclusiveFiles,  \* TRUE: callers never run two writing calls on one file at once
  MaxCalls,        \* bound: calls made in a behaviour
  MaxFaults,       \* bound: backend calls that fail
  MaxCrashes       \* bound: crashes of the process

ASSUME StoreAssumption ==
  /\ IsFiniteSet(Threads) /\ IsFiniteSet(Files) /\ IsFiniteSet(Digests)
  /\ EmptyIds \subseteq Files
  /\ SizeOf \in [Digests -> Nat]
  /\ MaxChunks \in Nat
  /\ Contents \subseteq Seq(Digests)
  /\ \A c \in Contents : Len(c) <= MaxChunks
  /\ None \notin Contents /\ None \notin Threads
  /\ None \notin Files /\ None \notin Digests
  /\ ExclusiveFiles \in BOOLEAN
  /\ MaxCalls \in Nat /\ MaxFaults \in Nat /\ MaxCrashes \in Nat

VARIABLES
  \* on the backend
  blobs,     \* digests stored as blobs
  mrec,      \* [Files -> Contents \cup {None}]: the _manifest/<id> records
  midx,      \* the ids _manifest/__index__ lists
  rrec,      \* [Digests -> Nat]: the _refcount/<digest> records, 0 when there is none
  ridx,      \* the digests _refcount/__index__ lists
  \* in memory
  manifest,  \* [Files -> Contents \cup {None}], under its own mutex
  rc,        \* [Digests -> Nat]: the reference counts, 0 when there is no entry
  stats,     \* [total, stored]: bytes referenced and bytes of distinct chunks
  blobLock,  \* the thread that holds the blob mutex, or None
  refLock,   \* the thread that holds the refcount mutex across backend calls
  call,      \* [Threads -> record]: the call each thread is in, see Idle
  up,        \* FALSE between a crash and the next successful open
  \* counted, for the bounds
  calls,     \* calls made
  faults,    \* calls cut short: a backend call failed, the file id was refused, or
             \* the size of a chunk to release could not be had
  crashes

backend == <<blobs, mrec, midx, rrec, ridx>>
memory  == <<manifest, rc, stats>>
locks   == <<blobLock, refLock>>
bounds  == <<calls, faults, crashes>>
vars    == <<backend, memory, locks, call, up, bounds>>

-------------------------------------------------------------------------------
(* The calls. pc names the step a thread takes next.                            *)

\* A thread outside any call; it remembers the last call's op, file and result.
Idle == [pc |-> "idle", op |-> "none", file |-> None,
         new |-> <<>>,      \* ingest: the chunks to store; read: the chunks to stream
         done |-> 0,        \* how many of new are counted (ingest) or streamed (read)
         old |-> <<>>,      \* the chunks the call has to release
         released |-> 0,    \* how many of old it has released
         cur |-> None, count |-> 0,   \* the digest and count save_refcount writes
         seen |-> {},       \* the index, or fsck's key set, last read from the backend
         existed |-> FALSE, \* what exists() said of the chunk being stored
         result |-> "none"]

StorePcs   == {"exists", "put", "increment", "save_refcount", "index_get", "index_put"}
CommitPcs  == {"peek", "insert", "save_manifest", "man_index_get", "man_index_put"}
DeletePcs  == {"remove", "remove_manifest", "rm_index_get", "rm_index_put"}
ReleasePcs == {"size", "decrement", "gc_blob", "gc_refcount", "gc_index_get", "gc_index_put"}
ReadPcs    == {"lookup", "fetch"}
RepairPcs  == {"fsck_live", "fsck_list", "fsck_unlink"}
Pcs == {"idle"} \cup StorePcs \cup CommitPcs \cup DeletePcs \cup ReleasePcs
                \cup ReadPcs \cup RepairPcs

\* The steps that are calls of the backend, each of which may return an error.
BackendPcs == (StorePcs \ {"increment"}) \cup (CommitPcs \ {"peek", "insert"})
                \cup (DeletePcs \ {"remove"}) \cup (ReleasePcs \ {"size", "decrement"})
                \cup {"fetch", "fsck_list", "fsck_unlink"}

Busy(t)    == call[t].pc # "idle"
Writing(t) == Busy(t) /\ call[t].op \in {"ingest", "delete"}

\* save_refcount serves store_chunk and release_digests: release_digests has
\* counted a released chunk down before it comes here.
Releasing(t) == call[t].released > 0

\* The chunk an ingest stores or a read streams next; the one released next.
Chunk(t)    == call[t].new[call[t].done + 1]
OldChunk(t) == call[t].old[call[t].released + 1]

\* The one way a call changes.
Become(t, r)   == call' = [call EXCEPT ![t] = r]
Goto(t, label) == Become(t, [call[t] EXCEPT !.pc = label])

\* A call ends: the locals are dropped, a read's chunks have reached the caller.
Returned(t, res) ==
  [Idle EXCEPT !.op = call[t].op, !.file = call[t].file, !.result = res,
               !.new = IF call[t].op = "read" /\ res = "ok" THEN call[t].new ELSE <<>>]

Return(t, res) == Become(t, Returned(t, res))

-------------------------------------------------------------------------------
(* What opening the store makes of the backend: load_manifests, load_refcounts  *)
(* and rebuild_stats.                                                           *)

LoadedFile(f)  == IF f \in midx THEN mrec[f] ELSE None
LoadedCount(d) == IF d \in ridx THEN rrec[d] ELSE 0

\* Loading fails on an index entry whose record is not there.
Openable == /\ \A f \in midx : mrec[f] # None
            /\ \A d \in ridx : rrec[d] > 0

StatsOf(count) ==
  [total  |-> MapThenSumSet(LAMBDA d : SizeOf[d] * count[d], Digests),
   stored |-> MapThenSumSet(LAMBDA d : SizeOf[d], {d \in Digests : count[d] > 0})]

SaturatingSub(a, b) == IF a > b THEN a - b ELSE 0
===============================================================================
