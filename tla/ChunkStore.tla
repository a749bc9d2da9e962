------------------------------ MODULE ChunkStore ------------------------------
(* ChunkStore's operations (core/src/store/mod.rs) over a backend that keeps    *)
(* the metadata too. Each action is what a thread does between two points at    *)
(* which another thread, a backend error or a crash can come in: one backend    *)
(* call, or one critical section of a mutex.                                    *)
EXTENDS StoreState

-------------------------------------------------------------------------------
(* Plausible bugs: wrong forms of the definitions below that their comments     *)
(* name; PROJECT.json says which property of which run notices each. No         *)
(* definition uses them.                                                        *)

\* Incremented: the count from before the increment goes to the backend.
IncrementedStale(d) == IF rc[d] = 0 THEN 1 ELSE rc[d]

\* Remaining: the count from before the decrement goes to the backend.
RemainingStale(d) == rc[d]

\* Remaining: a reference is counted down twice.
RemainingTwice(d) == rc[d] - 2

\* LastReference: off by one.
LastReferenceEarly(d) == rc[d] <= 2

\* MoreChunks: the last chunk is not stored.
MoreChunksShort(t) == call[t].done + 1 < Len(call[t].new)

\* IndexWith: the list is replaced, not extended.
IndexWithOnly(index, key) == {key}

\* StatsCollected: remove_unique_chunk is forgotten.
StatsCollectedTotal(size) == [stats EXCEPT !.total = SaturatingSub(@, size)]

\* StoreExists: exists() outside the blob mutex.
StoreExistsUnlocked(t) ==
  /\ call[t].pc = "exists"
  /\ Become(t, [call[t] EXCEPT !.pc = IF Chunk(t) \in blobs THEN "increment" ELSE "put",
                              !.existed = Chunk(t) \in blobs])
  /\ UNCHANGED <<backend, memory, locks, up, bounds>>

\* StoreExists: a held blob mutex is taken to mean that the chunk is being put.
StoreExistsTryLock(t) ==
  LET known == blobLock # None \/ Chunk(t) \in blobs IN
  /\ call[t].pc = "exists"
  /\ Become(t, [call[t] EXCEPT !.pc = IF known THEN "increment" ELSE "put",
                              !.existed = known])
  /\ blobLock' = IF known THEN blobLock ELSE t
  /\ UNCHANGED <<backend, memory, refLock, up, bounds>>

\* Increment: the refcount mutex is dropped before save_refcount.
IncrementUnlocked(t) ==
  /\ call[t].pc = "increment" /\ refLock = None
  /\ rc' = [rc EXCEPT ![Chunk(t)] = @ + 1]
  /\ Become(t, [call[t] EXCEPT !.pc = "save_refcount", !.done = @ + 1,
                              !.cur = Chunk(t), !.count = rc[Chunk(t)] + 1])
  /\ UNCHANGED <<backend, manifest, stats, locks, up, bounds>>

\* Peek: the replaced file is never looked at, so its chunks stay counted.
PeekNothing(t) ==
  /\ call[t].pc = "peek"
  /\ Become(t, [call[t] EXCEPT !.pc = "insert"])
  /\ UNCHANGED <<backend, memory, locks, up, bounds>>

\* Peek: after the insert, so that the new chunks are released.
PeekTooLate(t) ==
  /\ call[t].pc = "peek"
  /\ Become(t, [call[t] EXCEPT !.pc = "insert", !.old = call[t].new])
  /\ UNCHANGED <<backend, memory, locks, up, bounds>>

\* SaveManifest: a record that is there is not overwritten.
SaveManifestOnce(t) ==
  /\ call[t].pc = "save_manifest"
  /\ mrec' = [mrec EXCEPT ![call[t].file] = IF @ = None THEN call[t].new ELSE @]
  /\ Goto(t, "man_index_get")
  /\ UNCHANGED <<blobs, midx, rrec, ridx, memory, locks, up, bounds>>

\* Fail: an error in store_chunk leaves the refcount mutex locked.
FailKeepingLock(t) ==
  /\ call[t].pc \in BackendPcs /\ faults < MaxFaults
  /\ call[t].pc = "exists" => blobLock = None
  /\ call[t].pc = "fsck_unlink" => call[t].seen # {}
  /\ blobLock' = IF blobLock = t THEN None ELSE blobLock
  /\ Return(t, "err")
  /\ faults' = faults + 1
  /\ UNCHANGED <<backend, memory, refLock, up, calls, crashes>>

-------------------------------------------------------------------------------
(* The code                                                                     *)

\* release_digests goes on with the next digest, or is done and so is its call.
ReleaseRest(t) ==
  IF call[t].released < Len(call[t].old) THEN Goto(t, "size") ELSE Return(t, "ok")

-------------------------------------------------------------------------------
(* store_chunk, for the chunks of an ingest one after the other                 *)

\* The ingest has more chunks to store after the one just counted.
MoreChunks(t) == call[t].done < Len(call[t].new)

\* The count that increment returns, which goes to the backend.
Incremented(d) == rc[d] + 1

\* The blob mutex is held from exists() to the end of put().
StoreExists(t) ==
  /\ call[t].pc = "exists" /\ blobLock = None
  /\ IF Chunk(t) \in blobs
       THEN /\ Become(t, [call[t] EXCEPT !.pc = "increment", !.existed = TRUE])
            /\ UNCHANGED blobLock
       ELSE /\ Become(t, [call[t] EXCEPT !.pc = "put", !.existed = FALSE])
            /\ blobLock' = t
  /\ UNCHANGED <<backend, memory, refLock, up, bounds>>

StorePut(t) ==
  /\ call[t].pc = "put"
  /\ blobs' = blobs \cup {Chunk(t)}
  /\ blobLock' = None
  /\ Goto(t, "increment")
  /\ UNCHANGED <<mrec, midx, rrec, ridx, memory, refLock, up, bounds>>

\* RefCount::increment; the refcount mutex stays held over save_refcount. Equal
\* digests have equal sizes, so its size-mismatch error is out of reach.
Increment(t) ==
  /\ call[t].pc = "increment" /\ refLock = None
  /\ rc' = [rc EXCEPT ![Chunk(t)] = @ + 1]
  /\ refLock' = t
  /\ Become(t, [call[t] EXCEPT !.pc = "save_refcount", !.done = @ + 1,
                              !.cur = Chunk(t), !.count = Incremented(Chunk(t))])
  /\ UNCHANGED <<backend, manifest, stats, blobLock, up, bounds>>

\* save_refcount has returned. store_chunk drops the refcount mutex and updates
\* the statistics; release_digests holds no mutex here.
RefcountSaved(t) ==
  LET size == SizeOf[call[t].cur] IN
  IF Releasing(t)
    THEN /\ stats' = [stats EXCEPT !.total = SaturatingSub(@, size)]
         /\ ReleaseRest(t)
         /\ UNCHANGED refLock
    ELSE /\ stats' = [total  |-> stats.total + size,
                      stored |-> stats.stored + IF call[t].existed THEN 0 ELSE size]
         /\ Goto(t, IF MoreChunks(t) THEN "exists" ELSE "peek")
         /\ refLock' = None

-------------------------------------------------------------------------------
(* save_refcount: put the record, read the index, write it back if it changed   *)

\* The index list that write_string_list puts back with one more key.
IndexWith(index, key) == index \cup {key}

SaveRefcount(t) ==
  /\ call[t].pc = "save_refcount"
  /\ rrec' = [rrec EXCEPT ![call[t].cur] = call[t].count]
  /\ Goto(t, "index_get")
  /\ UNCHANGED <<blobs, mrec, midx, ridx, memory, locks, up, bounds>>

RefIndexGet(t) ==
  /\ call[t].pc = "index_get"
  /\ IF call[t].cur \in ridx
       THEN RefcountSaved(t)
       ELSE /\ Become(t, [call[t] EXCEPT !.pc = "index_put", !.seen = ridx])
            /\ UNCHANGED <<stats, refLock>>
  /\ UNCHANGED <<backend, manifest, rc, blobLock, up, bounds>>

RefIndexPut(t) ==
  /\ call[t].pc = "index_put"
  /\ ridx' = IndexWith(call[t].seen, call[t].cur)
  /\ RefcountSaved(t)
  /\ UNCHANGED <<blobs, mrec, midx, rrec, manifest, rc, blobLock, up, bounds>>

-------------------------------------------------------------------------------
(* IngestSession::commit and save_manifest                                      *)

Peek(t) ==
  /\ call[t].pc = "peek"
  /\ Become(t, [call[t] EXCEPT !.pc = "insert",
                              !.old = IF manifest[call[t].file] = None
                                        THEN <<>> ELSE manifest[call[t].file]])
  /\ UNCHANGED <<backend, memory, locks, up, bounds>>

Insert(t) ==
  /\ call[t].pc = "insert"
  /\ IF call[t].file \in EmptyIds
       THEN /\ Return(t, "err")
            /\ faults' = faults + 1
            /\ UNCHANGED manifest
       ELSE /\ manifest' = [manifest EXCEPT ![call[t].file] = call[t].new]
            /\ Goto(t, "save_manifest")
            /\ UNCHANGED faults
  /\ UNCHANGED <<backend, rc, stats, locks, up, calls, crashes>>

SaveManifest(t) ==
  /\ call[t].pc = "save_manifest"
  /\ mrec' = [mrec EXCEPT ![call[t].file] = call[t].new]
  /\ Goto(t, "man_index_get")
  /\ UNCHANGED <<blobs, midx, rrec, ridx, memory, locks, up, bounds>>

ManIndexGet(t) ==
  /\ call[t].pc = "man_index_get"
  /\ IF call[t].file \in midx
       THEN ReleaseRest(t)
       ELSE Become(t, [call[t] EXCEPT !.pc = "man_index_put", !.seen = midx])
  /\ UNCHANGED <<backend, memory, locks, up, bounds>>

ManIndexPut(t) ==
  /\ call[t].pc = "man_index_put"
  /\ midx' = IndexWith(call[t].seen, call[t].file)
  /\ ReleaseRest(t)
  /\ UNCHANGED <<blobs, mrec, rrec, ridx, memory, locks, up, bounds>>

-------------------------------------------------------------------------------
(* delete and remove_manifest                                                   *)

Remove(t) ==
  /\ call[t].pc = "remove"
  /\ IF manifest[call[t].file] = None
       THEN /\ Return(t, "err")
            /\ UNCHANGED manifest
       ELSE /\ manifest' = [manifest EXCEPT ![call[t].file] = None]
            /\ Become(t, [call[t] EXCEPT !.pc = "remove_manifest",
                                    !.old = manifest[call[t].file]])
  /\ UNCHANGED <<backend, rc, stats, locks, up, bounds>>

RemoveManifest(t) ==
  /\ call[t].pc = "remove_manifest"
  /\ mrec' = [mrec EXCEPT ![call[t].file] = None]
  /\ Goto(t, "rm_index_get")
  /\ UNCHANGED <<blobs, midx, rrec, ridx, memory, locks, up, bounds>>

RmIndexGet(t) ==
  /\ call[t].pc = "rm_index_get"
  /\ Become(t, [call[t] EXCEPT !.pc = "rm_index_put", !.seen = midx])
  /\ UNCHANGED <<backend, memory, locks, up, bounds>>

RmIndexPut(t) ==
  /\ call[t].pc = "rm_index_put"
  /\ midx' = call[t].seen \ {call[t].file}
  /\ ReleaseRest(t)
  /\ UNCHANGED <<blobs, mrec, rrec, ridx, memory, locks, up, bounds>>

-------------------------------------------------------------------------------
(* release_digests, for the chunks of old one after the other                   *)

\* The count that decrement returns, and whether it is the last reference's.
Remaining(d)     == rc[d] - 1
LastReference(d) == rc[d] = 1

\* chunk_size: from the refcount entry if it knows a size, otherwise from the blob,
\* which may be gone or not come. An empty chunk's size is never known: the entry
\* says 0 (ingest_chunks stores whatever it is given, empty chunks included).
Size(t) ==
  LET d     == OldChunk(t)
      known == rc[d] > 0 /\ SizeOf[d] > 0 IN
  /\ call[t].pc = "size" /\ refLock = None
  /\ \/ /\ known \/ d \in blobs
        /\ Goto(t, "decrement")
        /\ UNCHANGED faults
     \/ /\ ~known
        /\ d \in blobs => faults < MaxFaults
        /\ Return(t, "err")
        /\ faults' = faults + 1
  /\ UNCHANGED <<backend, memory, locks, up, calls, crashes>>

\* What is left of the count decides between collecting the chunk and saving.
Decrement(t) ==
  LET d == OldChunk(t) IN
  /\ call[t].pc = "decrement" /\ refLock = None
  /\ IF rc[d] = 0
       THEN /\ Return(t, "err")
            /\ UNCHANGED rc
       ELSE /\ rc' = [rc EXCEPT ![d] = @ - 1]
            /\ Become(t, [call[t] EXCEPT
                             !.pc = IF LastReference(d) THEN "gc_blob" ELSE "save_refcount",
                             !.released = @ + 1, !.cur = d, !.count = Remaining(d)])
  /\ UNCHANGED <<backend, manifest, stats, locks, up, bounds>>

GcBlob(t) ==
  /\ call[t].pc = "gc_blob"
  /\ blobs' = blobs \ {call[t].cur}
  /\ Goto(t, "gc_refcount")
  /\ UNCHANGED <<mrec, midx, rrec, ridx, memory, locks, up, bounds>>

\* remove_refcount: delete the record, then rewrite the index without it.
GcRefcount(t) ==
  /\ call[t].pc = "gc_refcount"
  /\ rrec' = [rrec EXCEPT ![call[t].cur] = 0]
  /\ Goto(t, "gc_index_get")
  /\ UNCHANGED <<blobs, mrec, midx, ridx, memory, locks, up, bounds>>

GcIndexGet(t) ==
  /\ call[t].pc = "gc_index_get"
  /\ Become(t, [call[t] EXCEPT !.pc = "gc_index_put", !.seen = ridx])
  /\ UNCHANGED <<backend, memory, locks, up, bounds>>

\* remove_unique_chunk, then remove_reference.
StatsCollected(size) == [total  |-> SaturatingSub(stats.total, size),
                         stored |-> SaturatingSub(stats.stored, size)]

GcIndexPut(t) ==
  /\ call[t].pc = "gc_index_put"
  /\ ridx' = call[t].seen \ {call[t].cur}
  /\ stats' = StatsCollected(SizeOf[call[t].cur])
  /\ ReleaseRest(t)
  /\ UNCHANGED <<blobs, mrec, midx, rrec, manifest, rc, locks, up, bounds>>

-------------------------------------------------------------------------------
(* read_to_writer: take the digests from the manifest, then stream each chunk   *)

Lookup(t) ==
  LET c == manifest[call[t].file] IN
  /\ call[t].pc = "lookup"
  /\ IF c = None THEN Return(t, "err")
     ELSE IF c = <<>> THEN Return(t, "ok")
     ELSE Become(t, [call[t] EXCEPT !.pc = "fetch", !.new = c])
  /\ UNCHANGED <<backend, memory, locks, up, bounds>>

\* A blob holds the chunk it is named after, so verify_digest passes.
Fetch(t) ==
  /\ call[t].pc = "fetch"
  /\ IF Chunk(t) \notin blobs THEN Return(t, "err")
     ELSE IF call[t].done + 1 = Len(call[t].new) THEN Return(t, "ok")
     ELSE Become(t, [call[t] EXCEPT !.done = @ + 1])
  /\ UNCHANGED <<backend, memory, locks, up, bounds>>

-------------------------------------------------------------------------------
(* fsck(repair = TRUE): counted digests, then stored keys, then unlink the rest *)

FsckLive(t) ==
  /\ call[t].pc = "fsck_live" /\ refLock = None
  /\ Become(t, [call[t] EXCEPT !.pc = "fsck_list", !.seen = {d \in Digests : rc[d] > 0}])
  /\ UNCHANGED <<backend, memory, locks, up, bounds>>

\* collect_orphans: the keys that are not counted; none at all on a backend that
\* cannot list its keys, where fsck ends well and leaves everything where it is.
FsckList(t) ==
  /\ call[t].pc = "fsck_list"
  /\ \/ Become(t, [call[t] EXCEPT !.pc = "fsck_unlink", !.seen = blobs \ @])
     \/ Return(t, "ok")
  /\ UNCHANGED <<backend, memory, locks, up, bounds>>

FsckUnlink(t) ==
  /\ call[t].pc = "fsck_unlink"
  /\ IF call[t].seen = {}
       THEN /\ Return(t, "ok")
            /\ UNCHANGED blobs
       ELSE \E d \in call[t].seen :
              /\ blobs' = blobs \ {d}
              /\ Become(t, [call[t] EXCEPT !.seen = @ \ {d}])
  /\ UNCHANGED <<mrec, midx, rrec, ridx, memory, locks, up, bounds>>

-------------------------------------------------------------------------------
(* Calls begin                                                                  *)

NoWriterOn(f) == \A t \in Threads : Writing(t) => call[t].file # f

Begin(t, op, f, c, label) ==
  /\ up /\ ~Busy(t) /\ calls < MaxCalls
  /\ Become(t, [Idle EXCEPT !.pc = label, !.op = op, !.file = f, !.new = c])
  /\ calls' = calls + 1
  /\ UNCHANGED <<backend, memory, locks, up, faults, crashes>>

\* "create" is an ingest of an id nobody has used: examples/fastapi-backup names
\* every backup with a fresh UUID.
BeginIngest(t, f, c) ==
  /\ \/ "ingest" \in Ops /\ (ExclusiveFiles => NoWriterOn(f))
     \/ "create" \in Ops /\ manifest[f] = None /\ NoWriterOn(f)
  /\ Begin(t, "ingest", f, c, IF c = <<>> THEN "peek" ELSE "exists")

BeginDelete(t, f) ==
  /\ "delete" \in Ops /\ (ExclusiveFiles => NoWriterOn(f))
  /\ Begin(t, "delete", f, <<>>, "remove")

BeginRead(t, f) ==
  /\ "read" \in Ops
  /\ Begin(t, "read", f, <<>>, "lookup")

BeginRepair(t) ==
  /\ "repair" \in Ops
  /\ Begin(t, "repair", None, <<>>, "fsck_live")

-------------------------------------------------------------------------------
(* Failures                                                                     *)

\* A backend call returns an error: `?` leaves the call, which drops its mutexes
\* and undoes nothing.
Fail(t) ==
  /\ call[t].pc \in BackendPcs /\ faults < MaxFaults
  /\ call[t].pc = "exists" => blobLock = None
  /\ call[t].pc = "fsck_unlink" => call[t].seen # {}
  /\ blobLock' = IF blobLock = t THEN None ELSE blobLock
  /\ refLock' = IF refLock = t THEN None ELSE refLock
  /\ Return(t, "err")
  /\ faults' = faults + 1
  /\ UNCHANGED <<backend, memory, up, calls, crashes>>

\* The process dies: what is in memory, calls included, is gone.
Crash ==
  /\ up /\ crashes < MaxCrashes
  /\ up' = FALSE
  /\ manifest' = [f \in Files |-> None]
  /\ rc' = [d \in Digests |-> 0]
  /\ stats' = [total |-> 0, stored |-> 0]
  /\ blobLock' = None /\ refLock' = None
  /\ call' = [t \in Threads |-> Idle]
  /\ crashes' = crashes + 1
  /\ UNCHANGED <<backend, calls, faults>>

\* ChunkStore::open; it returns an error, time and again, when loading fails.
Open ==
  /\ ~up /\ Openable
  /\ up' = TRUE
  /\ manifest' = [f \in Files |-> LoadedFile(f)]
  /\ rc' = [d \in Digests |-> LoadedCount(d)]
  /\ stats' = StatsOf(rc')
  /\ UNCHANGED <<backend, locks, call, bounds>>

-------------------------------------------------------------------------------

Init ==
  /\ blobs = {} /\ midx = {} /\ ridx = {}
  /\ mrec = [f \in Files |-> None]
  /\ rrec = [d \in Digests |-> 0]
  /\ manifest = [f \in Files |-> None]
  /\ rc = [d \in Digests |-> 0]
  /\ stats = [total |-> 0, stored |-> 0]
  /\ blobLock = None /\ refLock = None
  /\ call = [t \in Threads |-> Idle]
  /\ up = TRUE
  /\ calls = 0 /\ faults = 0 /\ crashes = 0

Step(t) ==
  \/ StoreExists(t) \/ StorePut(t) \/ Increment(t)
  \/ SaveRefcount(t) \/ RefIndexGet(t) \/ RefIndexPut(t)
  \/ Peek(t) \/ Insert(t) \/ SaveManifest(t) \/ ManIndexGet(t) \/ ManIndexPut(t)
  \/ Remove(t) \/ RemoveManifest(t) \/ RmIndexGet(t) \/ RmIndexPut(t)
  \/ Size(t) \/ Decrement(t)
  \/ GcBlob(t) \/ GcRefcount(t) \/ GcIndexGet(t) \/ GcIndexPut(t)
  \/ Lookup(t) \/ Fetch(t)
  \/ FsckLive(t) \/ FsckList(t) \/ FsckUnlink(t)

BeginCall(t) ==
  \/ \E f \in Files : \/ \E c \in Contents : BeginIngest(t, f, c)
                      \/ BeginDelete(t, f)
                      \/ BeginRead(t, f)
  \/ BeginRepair(t)

\* Callers may stop calling; a store that cannot be opened stays closed.
Rest == /\ \A t \in Threads : ~Busy(t)
        /\ UNCHANGED vars

Next ==
  \/ \E t \in Threads : BeginCall(t) \/ Step(t) \/ Fail(t)
  \/ Crash
  \/ Open
  \/ Rest

Spec == Init /\ [][Next]_vars

\* Every thread that is in a call gets to run, and its backend calls return.
FairSpec == Spec /\ \A t \in Threads : WF_vars(Step(t))
===============================================================================
