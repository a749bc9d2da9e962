---------------------------- MODULE StoreProperties ----------------------------
(* What must hold of ChunkStore: that references are counted, that files stay   *)
(* readable, that the backend can be reopened, and that nothing is left behind. *)
EXTENDS ChunkStore

-------------------------------------------------------------------------------
(* Type correctness                                                             *)

Records == [pc : Pcs, op : {"none", "ingest", "delete", "read", "repair"},
            file : Files \cup {None},
            new : Contents \cup {<<>>}, done : 0 .. MaxChunks,
            old : Contents \cup {<<>>}, released : 0 .. MaxChunks,
            cur : Digests \cup {None}, count : Nat,
            seen : SUBSET (Files \cup Digests), existed : BOOLEAN,
            result : {"none", "ok", "err"}]

\* Every variable except the byte counters of stats keeps its type.
TypeOK ==
  /\ blobs \subseteq Digests
  /\ mrec \in [Files -> Contents \cup {None}]
  /\ midx \subseteq Files
  /\ rrec \in [Digests -> Nat]
  /\ ridx \subseteq Digests
  /\ manifest \in [Files -> Contents \cup {None}]
  /\ rc \in [Digests -> Nat]
  /\ blobLock \in Threads \cup {None} /\ refLock \in Threads \cup {None}
  /\ call \in [Threads -> Records]
  /\ up \in BOOLEAN
  /\ calls \in Nat /\ faults \in Nat /\ crashes \in Nat

-------------------------------------------------------------------------------
(* References: who may still need a chunk. A reference is <<holder, position>>: *)
(* a position in a sequence of digests that a file, or a call in progress, holds. *)

Positions == 1 .. MaxChunks

\* The chunks of files.
FileRefs(d) ==
  {r \in ({"file"} \X Files) \X Positions :
     LET c == manifest[r[1][2]] IN c # None /\ r[2] <= Len(c) /\ c[r[2]] = d}

\* The chunks an ingest has counted and not yet entered in the manifest.
Uncommitted(t) == /\ call[t].op = "ingest" /\ call[t].released = 0
                  /\ call[t].pc \in StorePcs \cup {"peek", "insert"}
HeldRefs(d) ==
  {r \in ({"held"} \X Threads) \X Positions :
     LET c == call[r[1][2]] IN
     Uncommitted(r[1][2]) /\ r[2] <= c.done /\ c.new[r[2]] = d}

\* The chunks of a replaced or deleted file that the call has yet to release.
OwedRefs(d) ==
  {r \in ({"owed"} \X Threads) \X Positions :
     LET c == call[r[1][2]] IN
     c.pc # "insert" /\ c.released < r[2] /\ r[2] <= Len(c.old) /\ c.old[r[2]] = d}

Refs(d) == FileRefs(d) \cup HeldRefs(d) \cup OwedRefs(d)

\* A chunk's count never falls below the references to it, so a chunk in use is
\* never taken for garbage by release_digests, whatever backend calls fail.
RefcountCovers == \A d \in Digests : Cardinality(Refs(d)) <= rc[d]

\* As long as no backend call fails, the count is exactly the references: no
\* interleaving of ingests and deletes leaks a count that nobody will release.
RefcountExact == faults = 0 => \A d \in Digests : Cardinality(Refs(d)) = rc[d]

-------------------------------------------------------------------------------
(* Files                                                                        *)

ChunksOf(c) == {c[i] : i \in DOMAIN c}
Needed(c)   == IF c = None THEN {} ELSE ChunksOf(c)
Referenced  == UNION {Needed(manifest[f]) : f \in Files}

\* No call is in progress; no call has been cut short so far either.
Quiet       == up /\ \A t \in Threads : ~Busy(t)
Undisturbed == Quiet /\ faults = 0 /\ crashes = 0

\* Every chunk of a file in the manifest has its blob, so that read succeeds.
FilesReadable == Referenced \subseteq blobs

\* What a reopened store would list can be read: at every instant, whatever has
\* failed and wherever the process dies.
DurableFilesIntact == \A f \in Files : Needed(LoadedFile(f)) \subseteq blobs

\* What a reopened store would count covers what it would list; otherwise a later
\* delete of one file collects a chunk of another.
DurableRefs(d) ==
  {r \in Files \X Positions :
     /\ LoadedFile(r[1]) # None
     /\ r[2] <= Len(LoadedFile(r[1])) /\ LoadedFile(r[1])[r[2]] = d}
DurableRefcountCovers == \A d \in Digests : Cardinality(DurableRefs(d)) <= LoadedCount(d)

\* Between calls the backend says what memory says, crashes or not, as long as no
\* backend call has failed: reopening changes nothing.
DurableManifestMatches ==
  Quiet /\ faults = 0 => \A f \in Files : LoadedFile(f) = manifest[f]
DurableCountsMatch ==
  Quiet /\ faults = 0 => \A d \in Digests : LoadedCount(d) = rc[d]

\* After a crash the store opens again, so that fsck can be run on it
\* (docs/CONSISTENCY.md:14 and 68).
ReopensAfterCrash == ~up => Openable

\* Between calls that ran to their end, every blob belongs to a file: garbage
\* collection is complete.
NoGarbage == Undisturbed => blobs \subseteq Referenced

\* stats() between calls that ran to their end: total_bytes is the length of all
\* files, stored_bytes the length of their distinct chunks.
FileBytes(c) == IF c = None THEN 0
                ELSE MapThenSumSet(LAMBDA i : SizeOf[c[i]], DOMAIN c)
StatsExact ==
  Undisturbed =>
    /\ stats.total = MapThenSumSet(LAMBDA f : FileBytes(manifest[f]), Files)
    /\ stats.stored = MapThenSumSet(LAMBDA d : SizeOf[d], Referenced)

-------------------------------------------------------------------------------
(* Progress                                                                     *)

\* Every call returns: no lock is left behind by a call that fails, and no two
\* calls wait on each other.
EveryCallReturns == \A t \in Threads : Busy(t) ~> ~Busy(t)
===============================================================================
