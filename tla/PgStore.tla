-------------------------------- MODULE PgStore --------------------------------
(* ChunkStore opened with open_postgres (core/src/store/mod.rs and              *)
(* postgres_meta.rs): several processes share the blobs on one backend and the  *)
(* manifests and reference counts in two Postgres tables. Each action is one    *)
(* backend call or one SQL statement or transaction. A transaction is one step: *)
(* it locks every row it changes until it commits, and Postgres aborts it when  *)
(* two of them wait for each other, which PgFail stands for.                    *)
EXTENDS PgState

-------------------------------------------------------------------------------
(* Plausible bugs: wrong forms of the definitions below that their comments     *)
(* name; PROJECT.json says which property of which run notices each. No         *)
(* definition uses them.                                                        *)

\* Credited: a chunk that the file repeats is counted once.
CreditedOnce(n, c) == [d \in Digests |-> n[d] + IF Occurrences(c, d) > 0 THEN 1 ELSE 0]

\* ChunkStored: the last chunk is not stored.
ChunkStoredShort(t) ==
  Become(t, [call[t] EXCEPT !.done = @ + 1,
                           !.pc = IF call[t].done + 2 < Len(call[t].new)
                                    THEN "exists" ELSE "peek"])

\* ChunkStored: off by one the other way.
ChunkStoredLong(t) ==
  Become(t, [call[t] EXCEPT !.done = @ + 1,
                           !.pc = IF call[t].done + 1 <= Len(call[t].new)
                                    THEN "exists" ELSE "peek"])

\* PgFsckList: the keys that are counted are taken for the orphans.
PgFsckListOnlyCounted(t) ==
  /\ call[t].pc = "fsck_list"
  /\ \/ Become(t, [call[t] EXCEPT !.pc = "fsck_unlink", !.seen = blobs \cap @])
     \/ Return(t, "ok")
  /\ UNCHANGED <<shared, blobLock, up, past>>

-------------------------------------------------------------------------------
(* Ingest: store_chunk without the reference counts, then IngestSession::commit *)

\* In this mode store_chunk returns once the blob is there.
ChunkStored(t) ==
  Become(t, [call[t] EXCEPT !.done = @ + 1,
                           !.pc = IF call[t].done + 1 < Len(call[t].new)
                                    THEN "exists" ELSE "peek"])

\* The blob mutex of the process is held from exists() to the end of put().
PgStoreExists(t) ==
  LET n == NodeOf[t] IN
  /\ call[t].pc = "exists" /\ blobLock[n] = None
  /\ IF Chunk(t) \in blobs
       THEN /\ ChunkStored(t)
            /\ UNCHANGED blobLock
       ELSE /\ Goto(t, "put")
            /\ blobLock' = [blobLock EXCEPT ![n] = t]
  /\ UNCHANGED <<shared, up, past>>

PgStorePut(t) ==
  /\ call[t].pc = "put"
  /\ blobs' = blobs \cup {Chunk(t)}
  /\ blobLock' = [blobLock EXCEPT ![NodeOf[t]] = None]
  /\ ChunkStored(t)
  /\ UNCHANGED <<manifests, counts, up, past>>

\* increment_refcount for every chunk of c; decrement_refcount for every chunk.
Credited(n, c) == [d \in Digests |-> n[d] + Occurrences(c, d)]
Debited(n, c)  == [d \in Digests |-> n[d] - Occurrences(c, d)]

\* decrement_refcount fails when there is no row, and the table's CHECK (count > 0)
\* fails the UPDATE that would bring a row to 0, before the code that deletes such
\* a row is reached. Either way the transaction is rolled back.
Debitable(n, c) == \A d \in Digests : Occurrences(c, d) > 0 => n[d] > Occurrences(c, d)

\* peek_digests: a statement of its own, before the transaction.
PgPeek(t) ==
  /\ call[t].pc = "peek"
  /\ Become(t, [call[t] EXCEPT !.pc = "commit_ingest", !.old = ContentOf(call[t].file)])
  /\ UNCHANGED <<shared, blobLock, up, past>>

\* commit_ingest, then Manifest::insert into the copy in memory, which refuses an
\* empty id after the fact. Nothing reads that copy in this mode. The list of
\* blobs to unlink is empty: see Debitable.
IngestTransaction(t) ==
  LET added == Credited(counts, call[t].new) IN
  /\ Debitable(added, call[t].old)
  /\ counts' = Debited(added, call[t].old)
  /\ manifests' = [manifests EXCEPT ![call[t].file] = call[t].new]

CommitIngest(t) ==
  /\ call[t].pc = "commit_ingest"
  /\ \/ /\ IngestTransaction(t)
        /\ Return(t, IF call[t].file \in EmptyIds THEN "err" ELSE "ok")
     \/ /\ ~Debitable(Credited(counts, call[t].new), call[t].old)
        /\ Return(t, "err")
        /\ UNCHANGED <<counts, manifests>>
  /\ UNCHANGED <<blobs, blobLock, up, past>>

-------------------------------------------------------------------------------
(* Delete: the digests are read before the transaction, as for ingest           *)

PgDigests(t) ==
  /\ call[t].pc = "digests"
  /\ IF manifests[call[t].file] = None
       THEN Return(t, "err")
       ELSE Become(t, [call[t] EXCEPT !.pc = "commit_delete", !.old = manifests[call[t].file]])
  /\ UNCHANGED <<shared, blobLock, up, past>>

DeleteTransaction(t) ==
  /\ Debitable(counts, call[t].old)
  /\ counts' = Debited(counts, call[t].old)
  /\ manifests' = [manifests EXCEPT ![call[t].file] = None]

CommitDelete(t) ==
  /\ call[t].pc = "commit_delete"
  /\ \/ /\ DeleteTransaction(t)
        /\ Return(t, "ok")
     \/ /\ ~Debitable(counts, call[t].old)
        /\ Return(t, "err")
        /\ UNCHANGED <<counts, manifests>>
  /\ UNCHANGED <<blobs, blobLock, up, past>>

-------------------------------------------------------------------------------
(* Read                                                                         *)

PgLookup(t) ==
  LET c == manifests[call[t].file] IN
  /\ call[t].pc = "lookup"
  /\ IF c = None THEN Return(t, "err")
     ELSE IF c = <<>> THEN Return(t, "ok")
     ELSE Become(t, [call[t] EXCEPT !.pc = "fetch", !.new = c])
  /\ UNCHANGED <<shared, blobLock, up, past>>

PgFetch(t) ==
  /\ call[t].pc = "fetch"
  /\ IF Chunk(t) \notin blobs THEN Return(t, "err")
     ELSE IF call[t].done + 1 = Len(call[t].new) THEN Return(t, "ok")
     ELSE Become(t, [call[t] EXCEPT !.done = @ + 1])
  /\ UNCHANGED <<shared, blobLock, up, past>>

-------------------------------------------------------------------------------
(* fsck(repair = TRUE): the rows of chunkstore_refcounts, the keys on the       *)
(* backend, then unlink those without a row                                     *)

PgFsckLive(t) ==
  /\ call[t].pc = "fsck_live"
  /\ Become(t, [call[t] EXCEPT !.pc = "fsck_list", !.seen = Counted])
  /\ UNCHANGED <<shared, blobLock, up, past>>

\* collect_orphans: the keys that are not counted; none at all on a backend that
\* cannot list its keys, where fsck ends well and leaves everything where it is.
PgFsckList(t) ==
  /\ call[t].pc = "fsck_list"
  /\ \/ Become(t, [call[t] EXCEPT !.pc = "fsck_unlink", !.seen = blobs \ @])
     \/ Return(t, "ok")
  /\ UNCHANGED <<shared, blobLock, up, past>>

PgFsckUnlink(t) ==
  /\ call[t].pc = "fsck_unlink"
  /\ \/ \E d \in call[t].seen :
          /\ blobs' = blobs \ {d}
          /\ Become(t, [call[t] EXCEPT !.seen = @ \ {d}])
     \/ /\ call[t].seen = {}
        /\ Return(t, "ok")
        /\ UNCHANGED blobs
  /\ UNCHANGED <<manifests, counts, blobLock, up, past>>

-------------------------------------------------------------------------------
(* Calls begin                                                                  *)

Begin(t, op, f, c, label) ==
  /\ up[NodeOf[t]] /\ ~Busy(t) /\ calls < MaxCalls
  /\ Become(t, [Idle EXCEPT !.pc = label, !.op = op, !.file = f, !.new = c])
  /\ calls' = calls + 1
  /\ clashed' = (clashed \/ (op \in {"ingest", "delete"} /\ ~NoWriterOn(f)))
  /\ UNCHANGED <<shared, blobLock, up, faults, crashes>>

BeginCall(t) ==
  \/ \E f \in Files, c \in Contents :
       /\ "ingest" \in Ops /\ ~(RepairAlone /\ Running("repair"))
       /\ Begin(t, "ingest", f, c, IF c = <<>> THEN "peek" ELSE "exists")
  \/ \E f \in Files : "delete" \in Ops /\ Begin(t, "delete", f, <<>>, "digests")
  \/ \E f \in Files : "read" \in Ops /\ Begin(t, "read", f, <<>>, "lookup")
  \/ /\ "repair" \in Ops /\ ~(RepairAlone /\ Running("ingest"))
     /\ Begin(t, "repair", None, <<>>, "fsck_live")

-------------------------------------------------------------------------------
(* Failures                                                                     *)

\* A backend call, a statement or a transaction fails and has had no effect.
PgFail(t) ==
  /\ Busy(t) /\ faults < MaxFaults
  /\ call[t].pc = "exists" => blobLock[NodeOf[t]] = None
  /\ call[t].pc = "fsck_unlink" => call[t].seen # {}
  /\ blobLock' = [n \in Nodes |-> IF blobLock[n] = t THEN None ELSE blobLock[n]]
  /\ Return(t, "err")
  /\ faults' = faults + 1
  /\ UNCHANGED <<shared, up, clashed, calls, crashes>>

\* The connection breaks after the server has committed: the call returns an
\* error and the transaction stands.
LostReply(t) ==
  /\ faults < MaxFaults
  /\ \/ call[t].pc = "commit_ingest" /\ IngestTransaction(t)
     \/ call[t].pc = "commit_delete" /\ DeleteTransaction(t)
  /\ Return(t, "err")
  /\ faults' = faults + 1
  /\ UNCHANGED <<blobs, blobLock, up, clashed, calls, crashes>>

\* One process dies with its calls; an open transaction of its is rolled back.
NodeCrash(n) ==
  /\ up[n] /\ crashes < MaxCrashes
  /\ up' = [up EXCEPT ![n] = FALSE]
  /\ blobLock' = [blobLock EXCEPT ![n] = None]
  /\ call' = [t \in Threads |-> IF NodeOf[t] = n THEN Idle ELSE call[t]]
  /\ crashes' = crashes + 1
  /\ UNCHANGED <<shared, clashed, calls, faults>>

\* open_postgres: load_manifests fails on an id that Manifest::insert refuses.
OpenPostgres(n) ==
  /\ ~up[n] /\ \A f \in EmptyIds : manifests[f] = None
  /\ up' = [up EXCEPT ![n] = TRUE]
  /\ UNCHANGED <<shared, blobLock, call, past>>

-------------------------------------------------------------------------------

PgInit ==
  /\ blobs = {}
  /\ manifests = [f \in Files |-> None]
  /\ counts = [d \in Digests |-> 0]
  /\ blobLock = [n \in Nodes |-> None]
  /\ call = [t \in Threads |-> Idle]
  /\ up = [n \in Nodes |-> TRUE]
  /\ clashed = FALSE /\ calls = 0 /\ faults = 0 /\ crashes = 0

PgStep(t) ==
  \/ PgStoreExists(t) \/ PgStorePut(t) \/ PgPeek(t) \/ CommitIngest(t)
  \/ PgDigests(t) \/ CommitDelete(t)
  \/ PgLookup(t) \/ PgFetch(t)
  \/ PgFsckLive(t) \/ PgFsckList(t) \/ PgFsckUnlink(t)

Rest == /\ \A t \in Threads : ~Busy(t)
        /\ UNCHANGED vars

PgNext ==
  \/ \E t \in Threads : BeginCall(t) \/ PgStep(t) \/ PgFail(t) \/ LostReply(t)
  \/ \E n \in Nodes : NodeCrash(n) \/ OpenPostgres(n)
  \/ Rest

PgSpec == PgInit /\ [][PgNext]_vars
===============================================================================
