----------------------------- MODULE BackupProofs -----------------------------
(* Theorems about the backup service, for every number of backups, requests,    *)
(* failures of the store and of SQLite, and crashes: the archives in the store  *)
(* and the rows in the catalog stay together as the clients were told.          *)
EXTENDS BackupProperties, DurableProofs

USE DEF StorePcs, CommitPcs, DeletePcs, ReleasePcs, ReadPcs, RepairPcs, BackendPcs

-------------------------------------------------------------------------------
(* What the store's calls do to the file they are about.                        *)

\* A call leaves every other file alone.
LEMMA StoreTouches ==
  ASSUME TypeInv, NEW t \in Threads, FileSaved(t), Step(t) \/ Fail(t),
         NEW g \in Files, g # call[t].file
  PROVE  manifest'[g] = manifest[g] /\ mrec'[g] = mrec[g] /\ LoadedFile(g)' = LoadedFile(g)
<1> DEFINE f == call[t].file
<1> USE DEF backend, memory
<1>1. /\ manifest \in [Files -> Contents \cup {None}]
      /\ mrec \in [Files -> Contents \cup {None}]
  BY DEF TypeInv, TypeOK
<1>2. ASSUME UNCHANGED <<manifest, mrec, midx>>
      PROVE  manifest'[g] = manifest[g] /\ mrec'[g] = mrec[g] /\ LoadedFile(g)' = LoadedFile(g)
  BY <1>2 DEF LoadedFile
<1>3. CASE Fail(t)
  BY <1>2, <1>3 DEF Fail
<1>4. CASE Step(t) /\ ~FileStep(t) /\ ~Fail(t)
  BY <1>2, <1>4, OtherStepsMatched
<1>5. CASE Insert(t)
  BY <1>1, <1>5 DEF Insert, LoadedFile
<1>6. CASE SaveManifest(t)
  BY <1>1, <1>6 DEF SaveManifest, LoadedFile
<1>7. CASE ManIndexGet(t)
  BY <1>2, <1>7 DEF ManIndexGet
<1>8. CASE ManIndexPut(t)
  <2>1. midx' = midx \cup {f} /\ mrec' = mrec /\ manifest' = manifest
    BY <1>8 DEF ManIndexPut, IndexWith, FileSaved
  <2> QED BY <2>1 DEF LoadedFile
<1>9. CASE Remove(t)
  BY <1>1, <1>9 DEF Remove, LoadedFile
<1>10. CASE RemoveManifest(t)
  BY <1>1, <1>10 DEF RemoveManifest, LoadedFile
<1>11. CASE RmIndexPut(t)
  <2>1. midx' = midx \ {f} /\ mrec' = mrec /\ manifest' = manifest
    BY <1>11 DEF RmIndexPut, FileSaved
  <2> QED BY <2>1 DEF LoadedFile
<1> QED BY <1>3, <1>4, <1>5, <1>6, <1>7, <1>8, <1>9, <1>10, <1>11 DEF FileStep

LEMMA ReadLeaves ==
  ASSUME TypeInv, NEW t \in Threads, call[t].op = "read", Step(t) \/ Fail(t)
  PROVE  FilesAlone
<1>1. call[t] \in Records /\ WellFormed(call[t])
  BY DEF TypeInv, TypeOK
<1>2. CASE Fail(t)
  BY <1>2 DEF Fail, backend, memory, FilesAlone
<1>3. ~FileStep(t)
  <2>1. call[t].pc \notin CommitPcs \cup DeletePcs
    BY <1>1 DEF WellFormed
  <2> QED BY <2>1 DEF FileStep, Insert, SaveManifest, ManIndexGet, ManIndexPut, Remove,
         RemoveManifest, RmIndexPut
<1> QED BY <1>2, <1>3, OtherStepsMatched DEF FilesAlone

StorePhase == StorePcs \cup {"peek", "insert"}

\* An ingest of a new file, under way or just returned.
Ingesting(f) ==
  LET c == call[Server] IN
  /\ Busy(Server) => /\ c.pc \in StorePcs \cup CommitPcs
                     /\ c.new = content[f] /\ c.old = <<>> /\ c.released = 0
                     /\ c.pc \in StorePhase => manifest[f] = None
                     /\ c.pc \in WrittenPcs => manifest[f] = content[f]
  /\ ~Busy(Server) => \/ c.result = "ok" /\ manifest[f] = content[f] /\ LoadedFile(f) = content[f]
                      \/ c.result = "err" /\ faults > 0

\* A delete.
Deleting(f) ==
  LET c == call[Server] IN
  /\ Busy(Server) /\ c.pc \notin {"remove", "remove_manifest"} =>
       manifest[f] = None /\ LoadedFile(f) = None
  /\ ~Busy(Server) => /\ c.result \in {"ok", "err"}
                      /\ c.result = "ok" => manifest[f] = None /\ LoadedFile(f) = None
                      /\ faults = 0 => manifest[f] = None

\* The end of a call, well or not.
LEMMA EndsWell ==
  ASSUME TypeInv, NEW t \in Threads, NEW res, Return(t, res)
  PROVE  ~Busy(t)' /\ call'[t].pc = "idle" /\ call'[t].result = res
BY ReturnLeaves DEF Busy

LEMMA FailCounts ==
  ASSUME TypeInv, NEW t \in Threads, Fail(t)
  PROVE  /\ ~Busy(t)' /\ call'[t].result = "err" /\ call'[t].pc = "idle"
         /\ faults' > 0 /\ FilesAlone
<1>1. faults \in Nat /\ faults' = faults + 1 /\ Return(t, "err") /\ FilesAlone
  BY DEF Fail, TypeInv, TypeOK, FilesAlone, memory, backend
<1> QED BY <1>1, EndsWell

\* An ingest of the backup f goes on, or ends with the file entered, or cut short.
LEMMA IngestingStays ==
  ASSUME TypeInv, Server \in Threads, FileSaved(Server), NEW f \in Files,
         call[Server].file = f, call[Server].op = "ingest", Busy(Server),
         Ingesting(f), content[f] \in Contents, content' = content, Step(Server) \/ Fail(Server)
  PROVE  /\ Ingesting(f)'
         /\ manifest'[f] \in {manifest[f], content[f]} /\ mrec'[f] \in {mrec[f], content[f]}
<1> DEFINE c == call[Server]
           x == content[f]
           t == Server
<1>1. /\ c \in Records /\ WellFormed(c) /\ faults \in Nat
      /\ manifest \in [Files -> Contents \cup {None}]
      /\ mrec \in [Files -> Contents \cup {None}]
  BY DEF TypeInv, TypeOK
<1>2. /\ c.pc \in StorePcs \cup CommitPcs /\ c.new = x /\ c.old = <<>> /\ c.released = 0
      /\ c.pc \in StorePhase => manifest[f] = None
      /\ c.pc \in WrittenPcs => manifest[f] = x
  BY DEF Ingesting
<1> HIDE DEF x
<1>3. ASSUME ~Busy(t)', call'[t].result = "err", faults' > 0
      PROVE  Ingesting(f)'
  BY <1>3 DEF Ingesting
<1>4. ASSUME ~Busy(t)', call'[t].result = "ok", manifest'[f] = x, LoadedFile(f)' = x
      PROVE  Ingesting(f)'
  BY <1>4 DEF Ingesting, x
<1>5. ASSUME call'[t].pc \in StorePcs \cup CommitPcs, call'[t].new = x, call'[t].old = <<>>,
             call'[t].released = 0,
             call'[t].pc \in StorePhase => manifest'[f] = None,
             call'[t].pc \in WrittenPcs => manifest'[f] = x
      PROVE  Ingesting(f)'
  BY <1>5 DEF Ingesting, Busy, x
<1>6. CASE Fail(t)
  BY <1>3, <1>6, FailCounts DEF FilesAlone
<1>7. CASE Step(t) /\ c.pc \in StorePhase /\ ~Insert(t)
  <2>1. Uncommitted(t)
    BY <1>2, <1>7 DEF Uncommitted, StorePhase
  <2>2. /\ FilesAlone /\ call'[t].new = x /\ call'[t].released = 0
        /\ call'[t].pc \in StorePhase
        /\ call'[t].old = IF c.pc = "peek" THEN ContentOf(f) ELSE c.old
    BY <1>2, <1>7, <2>1, StoringGoes DEF StorePhase
  <2>3. manifest[f] = None /\ ContentOf(f) = <<>>
    BY <1>2, <1>7 DEF ContentOf
  <2> QED BY <1>2, <1>5, <2>2, <2>3 DEF FilesAlone, StorePhase, WrittenPcs
<1>8. CASE Insert(t)
  <2>1. c.pc = "insert" /\ mrec' = mrec
    BY <1>8 DEF Insert, backend
  <2>2. CASE f \in EmptyIds
    <3>1. Return(t, "err") /\ faults' = faults + 1 /\ manifest' = manifest
      BY <1>8, <2>2 DEF Insert
    <3> QED BY <1>1, <1>3, <2>1, <3>1, EndsWell
  <2>3. CASE f \notin EmptyIds
    <3>1. /\ Keeps(t) /\ call'[t].pc = "save_manifest" /\ manifest' = [manifest EXCEPT ![f] = x]
      BY <1>2, <1>8, <2>3, GotoKeeps DEF Insert
    <3>2. manifest'[f] = x
      BY <1>1, <3>1
    <3> QED BY <1>2, <1>5, <2>1, <3>1, <3>2 DEF Keeps, StorePhase, x
  <2> QED BY <2>2, <2>3
<1>9. ASSUME ReleaseRest(t) PROVE Return(t, "ok")
  <2>1. ~(c.released < Len(c.old))
    BY <1>2
  <2> QED BY <1>9, <2>1 DEF ReleaseRest
<1>10. CASE SaveManifest(t)
  <2>1. /\ c.pc = "save_manifest" /\ manifest' = manifest /\ Keeps(t)
        /\ call'[t].pc = "man_index_get" /\ mrec' = [mrec EXCEPT ![f] = x]
    BY <1>2, <1>10, GotoKeeps DEF SaveManifest, memory
  <2>2. mrec'[f] = x
    BY <1>1, <2>1
  <2> QED BY <1>2, <1>5, <2>1, <2>2 DEF Keeps, StorePhase, WrittenPcs, x
<1>11. CASE ManIndexGet(t)
  <2>1. /\ c.pc = "man_index_get" /\ UNCHANGED <<manifest, mrec, midx>>
        /\ manifest[f] = x /\ mrec[f] = x
    BY <1>2, <1>11 DEF ManIndexGet, backend, memory, FileSaved
  <2>2. CASE f \in midx
    <3>1. Return(t, "ok")
      BY <1>9, <1>11, <2>2 DEF ManIndexGet
    <3> QED BY <1>4, <2>1, <2>2, <3>1, EndsWell DEF LoadedFile
  <2>3. CASE f \notin midx
    <3>1. Keeps(t) /\ call'[t].pc = "man_index_put"
      BY <1>11, <2>3, SeenKeeps DEF ManIndexGet
    <3> QED BY <1>2, <1>5, <2>1, <3>1 DEF Keeps, StorePhase
  <2> QED BY <2>2, <2>3
<1>12. CASE ManIndexPut(t)
  <2>1. /\ c.pc = "man_index_put" /\ UNCHANGED <<manifest, mrec>> /\ midx' = midx \cup {f}
        /\ manifest[f] = x /\ mrec[f] = x
    BY <1>2, <1>12 DEF ManIndexPut, IndexWith, memory, FileSaved
  <2>2. Return(t, "ok")
    BY <1>9, <1>12 DEF ManIndexPut
  <2> QED BY <1>4, <2>1, <2>2, EndsWell DEF LoadedFile
<1>13. ASSUME Step(t), c.pc \notin StorePhase
       PROVE  SaveManifest(t) \/ ManIndexGet(t) \/ ManIndexPut(t)
  <2>1. c.pc \in WrittenPcs
    BY <1>2, <1>13 DEF StorePhase, WrittenPcs
  <2> QED BY <1>13, <2>1 DEF WrittenPcs, Step, StoreExists, StorePut, Increment, SaveRefcount,
         RefIndexGet, RefIndexPut, Peek, Insert, Remove, RemoveManifest, RmIndexGet, RmIndexPut,
         Size, Decrement, GcBlob, GcRefcount, GcIndexGet, GcIndexPut, Lookup, Fetch, FsckLive,
         FsckList, FsckUnlink
<1> QED BY <1>6, <1>7, <1>8, <1>10, <1>11, <1>12, <1>13

\* A delete of the backup f goes on, or ends with the file gone, or cut short. It
\* brings back nothing, and fails only for want of the file or of the backend.
LEMMA DeletingStays ==
  ASSUME TypeInv, Server \in Threads, FileSaved(Server), NEW f \in Files,
         call[Server].file = f, call[Server].op = "delete", Busy(Server),
         Deleting(f), Step(Server) \/ Fail(Server)
  PROVE  /\ Deleting(f)' /\ call'[Server].pc # "remove"
         /\ manifest'[f] \in {manifest[f], None} /\ mrec'[f] \in {mrec[f], None}
         /\ LoadedFile(f) = None => LoadedFile(f)' = None
         /\ faults' = 0 /\ NoError(Server) /\ (call[Server].pc = "remove" => manifest[f] # None)
              => (~Busy(Server)' => call'[Server].result = "ok")
<1> DEFINE c == call[Server]
           t == Server
<1>1. /\ c \in Records /\ WellFormed(c)
      /\ manifest \in [Files -> Contents \cup {None}]
      /\ mrec \in [Files -> Contents \cup {None}]
  BY DEF TypeInv, TypeOK
<1>2. c.pc \notin {"remove", "remove_manifest"} => manifest[f] = None /\ LoadedFile(f) = None
  BY DEF Deleting
<1>3. FilesAlone => /\ manifest'[f] = manifest[f] /\ mrec'[f] = mrec[f]
                    /\ LoadedFile(f)' = LoadedFile(f)
  BY DEF FilesAlone, LoadedFile
<1>4. CASE Fail(t)
  <2>1. FilesAlone /\ ~Busy(t)' /\ call'[t].result = "err" /\ faults' > 0 /\ call'[t].pc = "idle"
    BY <1>4, FailCounts
  <2> QED BY <1>3, <2>1 DEF Deleting
<1>5. CASE Step(t) /\ Freeing(t)
  <2>1. /\ FilesAlone
        /\ Freeing(t)' \/ Return(t, "ok") \/ ((Unsized(t) \/ ~NoError(t)) /\ Return(t, "err"))
    BY <1>5, FreeingGoes
  <2>2. c.pc \notin {"remove", "remove_manifest"}
    BY <1>5 DEF Freeing, SavingPcs
  <2>3. manifest'[f] = None /\ LoadedFile(f)' = None
    BY <1>2, <1>3, <2>1, <2>2
  <2>4. CASE Freeing(t)'
    <3>1. Busy(t)' /\ call'[t].pc # "remove"
      BY <2>4 DEF Busy, Freeing, SavingPcs
    <3> QED BY <1>3, <2>1, <2>3, <3>1 DEF Deleting
  <2>5. CASE Return(t, "ok")
    BY <1>3, <2>1, <2>3, <2>5, EndsWell DEF Deleting
  <2>6. CASE (Unsized(t) \/ ~NoError(t)) /\ Return(t, "err")
    <3>1. Unsized(t) => faults' # 0
      BY DEF Unsized, Size, TypeInv, TypeOK
    <3> QED BY <1>3, <2>1, <2>3, <2>6, <3>1, EndsWell DEF Deleting
  <2> QED BY <2>1, <2>4, <2>5, <2>6
<1>6. CASE Remove(t)
  <2>1. /\ c.pc = "remove" /\ UNCHANGED <<mrec, midx>> /\ LoadedFile(f)' = LoadedFile(f)
    BY <1>6 DEF Remove, backend, LoadedFile
  <2>2. CASE manifest[f] = None
    <3>1. Return(t, "err") /\ manifest' = manifest
      BY <1>6, <2>2 DEF Remove
    <3> QED BY <2>1, <2>2, <3>1, EndsWell DEF Deleting
  <2>3. CASE manifest[f] # None
    <3> DEFINE r == [c EXCEPT !.pc = "remove_manifest", !.old = manifest[f]]
    <3>1. manifest' = [manifest EXCEPT ![f] = None] /\ call'[t] = r
      BY <1>6, <2>3, GoesOn DEF Remove
    <3>2. r.pc = "remove_manifest"
      BY <1>1 DEF Records
    <3> HIDE DEF r
    <3>3. manifest'[f] = None /\ Busy(t)' /\ call'[t].pc = "remove_manifest"
      BY <1>1, <3>1, <3>2 DEF Busy
    <3> QED BY <2>1, <3>3 DEF Deleting
  <2> QED BY <2>2, <2>3
<1>7. CASE RemoveManifest(t)
  <2>1. /\ mrec' = [mrec EXCEPT ![f] = None] /\ manifest' = manifest /\ manifest[f] = None
        /\ call'[t].pc = "rm_index_get"
    BY <1>7, GotoKeeps DEF RemoveManifest, memory, FileSaved
  <2>2. mrec'[f] = None /\ LoadedFile(f)' = None /\ Busy(t)'
    BY <1>1, <2>1 DEF LoadedFile, Busy
  <2> QED BY <2>1, <2>2 DEF Deleting
<1>8. CASE RmIndexGet(t)
  <2>1. FilesAlone /\ call'[t].pc = "rm_index_put" /\ c.pc = "rm_index_get"
    BY <1>8, SeenKeeps DEF RmIndexGet, backend, memory, FilesAlone
  <2>2. manifest'[f] = None /\ LoadedFile(f)' = None /\ Busy(t)'
    BY <1>2, <1>3, <2>1 DEF Busy
  <2> QED BY <1>3, <2>1, <2>2 DEF Deleting
<1>9. CASE RmIndexPut(t)
  <2>1. /\ midx' = midx \ {f} /\ UNCHANGED <<manifest, mrec>> /\ manifest[f] = None
        /\ ReleaseRest(t)
    BY <1>9 DEF RmIndexPut, memory, FileSaved
  <2>2. LoadedFile(f)' = None
    BY <2>1 DEF LoadedFile
  <2>3. CASE Return(t, "ok")
    BY <2>1, <2>2, <2>3, EndsWell DEF Deleting
  <2>4. CASE call'[t].pc = "size"
    BY <2>1, <2>2, <2>4 DEF Deleting, Busy
  <2> QED BY <2>1, <2>3, <2>4, RestLeaves
<1>10. ASSUME Step(t), ~Freeing(t)
       PROVE  Remove(t) \/ RemoveManifest(t) \/ RmIndexGet(t) \/ RmIndexPut(t)
  <2>1. c.pc \in DeletePcs
    BY <1>1, <1>10 DEF Freeing, SavingPcs, WellFormed, Records, Pcs, Busy
  <2> QED BY <1>10, <2>1 DEF Step, StoreExists, StorePut, Increment, SaveRefcount,
         RefIndexGet, RefIndexPut, Peek, Insert, SaveManifest, ManIndexGet, ManIndexPut,
         Size, Decrement, GcBlob, GcRefcount, GcIndexGet, GcIndexPut, Lookup, Fetch, FsckLive,
         FsckList, FsckUnlink
<1> QED BY <1>4, <1>5, <1>6, <1>7, <1>8, <1>9, <1>10
-------------------------------------------------------------------------------
(* What the service keeps true between its steps.                               *)

RequestSteps == {"idle", "ingest", "insert", "commit", "rollback", "delete", "drop",
                 "commit_drop", "read"}

ServiceTypes ==
  /\ rows \subseteq Files /\ view \subseteq Files
  /\ story \in [Files -> Stories]
  /\ content \in [Files -> Contents \cup {None}]
  /\ requests \in Nat /\ catalogFaults \in Nat
  /\ req \in [step : RequestSteps, id : Files \cup {None}]
  /\ req.step = "idle" <=> req.id = None

\* The call of the store is the one that the handler is in.
Engaged ==
  /\ ~up => req = Idling
  /\ Busy(Server) => req.step \in DOMAIN StoreCall
  /\ req.step \in DOMAIN StoreCall => /\ call[Server].op = StoreCall[req.step]
                                      /\ call[Server].file = req.id

\* The archive of f is in the store as it was uploaded; it is not in the store.
Entered(f) == /\ content[f] \in Contents /\ LoadedFile(f) = content[f]
              /\ up => manifest[f] = content[f]
Left(f)    == manifest[f] = None /\ LoadedFile(f) = None

\* How far the handler has got with the backup f of the request.
HandlingOf(f) ==
  /\ req.step = "ingest" => content[f] \in Contents /\ Ingesting(f)
  /\ req.step \in {"insert", "commit"} => Entered(f)
  /\ req.step = "commit" => f \in view
  /\ req.step \in {"delete", "rollback"} => Deleting(f)
  /\ req.step \in {"delete", "drop", "commit_drop"} => story[f] \in {"failed", "doomed"}
  /\ req.step \in {"drop", "commit_drop"} => Left(f)
  /\ req.step = "commit_drop" => f \notin view

Handling == req.id # None => HandlingOf(req.id)

UploadSteps == {"ingest", "insert", "commit", "rollback"}

\* What a backup's story says of it.
Told(f) ==
  /\ manifest[f] \in {None, content[f]} /\ mrec[f] \in {None, content[f]}
  /\ story[f] = "free" => content[f] = None
  /\ f \in rows \cup view => story[f] # "free"
  /\ story[f] = "sent" <=> req.id = f /\ req.step \in UploadSteps
  /\ story[f] = "kept" => f \in rows /\ f \in view /\ Entered(f)
  /\ story[f] = "doomed" /\ LoadedFile(f) # None => f \in rows /\ f \in view
  /\ story[f] = "gone" => f \notin rows \cup view /\ Left(f)

AllTold == \A f \in Files : Told(f)

\* As long as the store's calls succeed, every file has its row, or its handler is
\* about to see to that.
RowedOf(f) == manifest[f] # None => \/ f \in rows /\ f \in view
                                    \/ f = req.id /\ req.step \in UploadSteps
Rowed == faults = 0 /\ crashes = 0 => \A f \in Files : RowedOf(f)

\* As long as SQLite's succeed too, every row has its file, likewise.
FiledOf(f) == manifest[f] # None \/ (f = req.id /\ req.step \in {"delete", "drop"})
Filed == faults = 0 /\ crashes = 0 /\ catalogFaults = 0 =>
  /\ req.step # "rollback"
  /\ \A f \in view : FiledOf(f)
  /\ req.step = "delete" => /\ call[Server].pc = "remove" => manifest[req.id] # None
                            /\ ~Busy(Server) => call[Server].result = "ok"

ServiceInv == ServiceTypes /\ Engaged /\ Handling /\ AllTold /\ Rowed /\ Filed

BackupInv == CollectInv /\ ServiceInv

-------------------------------------------------------------------------------

\* The service is a caller of the store that makes one call at a time.
LEMMA ServerAlone == OneCaller /\ Server \in Threads
BY BackupAssumption DEF OneCaller

LEMMA StoreCalls ==
  /\ DOMAIN StoreCall = {"ingest", "rollback", "delete", "read"}
  /\ StoreCall["ingest"] = "ingest" /\ StoreCall["rollback"] = "delete"
  /\ StoreCall["delete"] = "delete" /\ StoreCall["read"] = "read"
BY DEF StoreCall

\* What a step of the service is to the store.
LEMMA ServiceMoves ==
  ASSUME BackupNext, ServiceTypes
  PROVE  BeginCall(Server) \/ StoreStep \/ Crash \/ Open \/ UNCHANGED vars
<1>1. ASSUME NEW f \in Files, BeginDelete(Server, f) \/ BeginRead(Server, f)
      PROVE  BeginCall(Server)
  BY <1>1 DEF BeginCall
<1>2. CASE \E f \in Files : (\E c \in Contents : Persist(f, c)) \/ Delete(f) \/ Download(f)
  BY <1>1, <1>2 DEF Persist, Delete, Download, BeginCall
<1>3. CASE InsertFails
  <2>1. req.step \in {"insert", "commit"} /\ BeginDelete(Server, req.id)
    BY <1>3 DEF InsertFails
  <2>2. req.id \in Files
    BY <2>1 DEF ServiceTypes, RequestSteps
  <2> QED BY <1>1, <2>1, <2>2
<1>4. CASE Ingested \/ InsertRow \/ CommitRow \/ RolledBack \/ ArchiveDeleted \/ DropRow
           \/ CommitDrop \/ DropFails \/ Downloaded \/ ServiceRest
  BY <1>4 DEF Ingested, InsertRow, CommitRow, RolledBack, ArchiveDeleted, DropRow,
     CommitDrop, DropFails, Downloaded, ServiceRest, backupVars
<1>5. CASE ServiceCrash \/ Restart
  BY <1>5 DEF ServiceCrash, Restart
<1> QED BY <1>2, <1>3, <1>4, <1>5 DEF BackupNext, Upload, Scan

\* What the invariant says of the store and of the request at hand.
LEMMA ServiceFacts ==
  ASSUME BackupInv
  PROVE  /\ TypeInv /\ DurableInv
         /\ req.step # "idle" => req.id \in Files /\ up
         /\ req.step = "idle" => req.id = None
BY DEF BackupInv, CollectInv, DurableInv, WritersInv, ServiceInv, ServiceTypes, Engaged,
   RequestSteps, Idling

-------------------------------------------------------------------------------
(* The store goes on.                                                           *)

LEMMA StaysUp ==
  ASSUME BackupInv, up, NEW t \in Threads, BeginCall(t) \/ Step(t) \/ Fail(t)
  PROVE  /\ up' = up /\ crashes' = crashes /\ (faults' = 0 => faults = 0)
         /\ FileSaved(t)
<1>1. /\ TypeInv /\ WritersInv /\ OneCaller /\ FileSaved(t)
  BY ServiceFacts, ServerAlone DEF DurableInv, Local
<1>2. TypeInv'
  BY <1>1, TypeInvStep DEF Next
<1> QED BY <1>1, <1>2, RunningThread, BoundsCount DEF WritersApart

\* What becomes of the request's backup.
LEMMA CallGoesOn ==
  ASSUME BackupInv, StoreStep
  PROVE  /\ req.id \in Files /\ HandlingOf(req.id)' /\ Told(req.id)'
         /\ faults' = 0 /\ crashes = 0 => RowedOf(req.id)'
         /\ faults' = 0 /\ crashes = 0 /\ catalogFaults = 0 =>
              /\ req.id \in view => FiledOf(req.id)'
              /\ req.step = "delete" => /\ call'[Server].pc # "remove"
                                        /\ ~Busy(Server)' => call'[Server].result = "ok"
<1> DEFINE f == req.id
           t == Server
           c == call[Server]
<1>1. /\ t \in Threads /\ OneCaller /\ TypeInv /\ DurableInv /\ faults \in Nat
      /\ Step(t) \/ Fail(t)
      /\ UNCHANGED <<rows, view, req, story, content, catalogFaults>>
  BY ServerAlone, ServiceFacts DEF StoreStep, service, TypeInv, TypeOK
<1>2. /\ Busy(t) /\ req.step \in {"ingest", "rollback", "delete", "read"}
      /\ c.op = StoreCall[req.step] /\ c.file = f
  BY <1>1, OnlyBusy, StoreCalls DEF BackupInv, ServiceInv, Engaged
<1>3. f \in Files /\ up /\ HandlingOf(f) /\ Told(f)
  BY <1>2, ServiceFacts DEF BackupInv, ServiceInv, Handling, AllTold, ServiceTypes
<1>4. FileSaved(t) /\ up' = up /\ (faults' = 0 => faults = 0)
  BY <1>1, <1>3, StaysUp
<1>5. faults = 0 /\ crashes = 0 => RowedOf(f)
  BY <1>3 DEF BackupInv, ServiceInv, Rowed
<1>6. faults = 0 /\ crashes = 0 /\ catalogFaults = 0 =>
        /\ f \in view => FiledOf(f)
        /\ req.step = "delete" => (c.pc = "remove" => manifest[f] # None)
  BY <1>3 DEF BackupInv, ServiceInv, Filed
<1>7. story[f] = "sent" <=> req.step \in UploadSteps
  BY <1>3 DEF Told
<1>8. CASE req.step = "ingest"
  <2>1. /\ Ingesting(f)' /\ content[f] \in Contents
        /\ manifest'[f] \in {manifest[f], content[f]} /\ mrec'[f] \in {mrec[f], content[f]}
    BY <1>1, <1>2, <1>3, <1>4, <1>8, StoreCalls, IngestingStays DEF HandlingOf
  <2>2. HandlingOf(f)'
    BY <1>1, <1>8, <2>1 DEF HandlingOf
  <2>3. Told(f)'
    BY <1>1, <1>3, <1>7, <1>8, <2>1 DEF Told, UploadSteps
  <2>4. RowedOf(f)' /\ (FiledOf(f) => FiledOf(f)')
    <3>1. content[f] # None
      BY <2>1, StoreAssumption
    <3> QED BY <1>1, <1>8, <2>1, <3>1 DEF RowedOf, FiledOf, UploadSteps
  <2> QED BY <1>3, <1>4, <1>6, <1>8, <2>2, <2>3, <2>4
<1>9. CASE req.step \in {"rollback", "delete"}
  <2>1. /\ Deleting(f)' /\ c.pc # "idle" /\ call'[t].pc # "remove"
        /\ manifest'[f] \in {manifest[f], None} /\ mrec'[f] \in {mrec[f], None}
        /\ LoadedFile(f) = None => LoadedFile(f)' = None
        /\ faults' = 0 /\ NoError(t) /\ (c.pc = "remove" => manifest[f] # None)
             => (~Busy(t)' => call'[t].result = "ok")
    BY <1>1, <1>2, <1>3, <1>4, <1>9, StoreCalls, DeletingStays DEF HandlingOf, Busy
  <2>2. HandlingOf(f)'
    BY <1>1, <1>3, <1>9, <2>1 DEF HandlingOf
  <2>3. Told(f)'
    <3>1. story[f] \in {"sent", "failed", "doomed"}
      BY <1>3, <1>7, <1>9 DEF HandlingOf, UploadSteps
    <3> QED BY <1>1, <1>3, <1>7, <2>1, <3>1 DEF Told, UploadSteps
  <2>4. RowedOf(f) => RowedOf(f)'
    BY <1>1, <2>1 DEF RowedOf
  <2>5. req.step = "delete" => FiledOf(f)'
    BY <1>1 DEF FiledOf
  <2>6. NoError(t)
    <3>1. CoverInv /\ SizesKnown
      BY <1>1, <1>3, OpenCovers
    <3>2. c.pc \notin ReadPcs
      BY <1>1, <1>2, <1>9, StoreCalls DEF TypeInv, WellFormed
    <3> QED BY <1>1, <3>1, <3>2, ReleasesFind DEF ReadCurrent
  <2>7. faults = 0 /\ crashes = 0 /\ catalogFaults = 0 => req.step = "delete"
    BY <1>9 DEF BackupInv, ServiceInv, Filed
  <2> QED BY <1>3, <1>4, <1>5, <1>6, <2>1, <2>2, <2>3, <2>4, <2>5, <2>6, <2>7
<1>10. CASE req.step = "read"
  <2>1. FilesAlone
    BY <1>1, <1>2, <1>10, StoreCalls, ReadLeaves
  <2>2. manifest' = manifest /\ mrec' = mrec /\ LoadedFile(f)' = LoadedFile(f)
    BY <1>1, <2>1 DEF FilesAlone, LoadedFile
  <2>3. HandlingOf(f)'
    BY <1>1, <1>10 DEF HandlingOf
  <2>4. Told(f)'
    BY <1>1, <1>3, <1>4, <2>2 DEF Told, Entered, Left
  <2>5. (RowedOf(f) => RowedOf(f)') /\ (FiledOf(f) => FiledOf(f)')
    BY <1>1, <2>2 DEF RowedOf, FiledOf
  <2> QED BY <1>3, <1>4, <1>5, <1>6, <1>10, <2>3, <2>4, <2>5
<1> QED BY <1>2, <1>8, <1>9, <1>10

LEMMA StoreGoesOn ==
  ASSUME BackupInv, StoreStep
  PROVE  ServiceInv'
<1>1. /\ Server \in Threads /\ OneCaller /\ TypeInv /\ DurableInv /\ faults \in Nat
      /\ Step(Server) \/ Fail(Server)
      /\ UNCHANGED <<rows, view, req, story, content, requests, catalogFaults>>
      /\ ServiceInv
  BY ServerAlone, ServiceFacts DEF BackupInv, StoreStep, service, TypeInv, TypeOK
<1>2. /\ Busy(Server) /\ req.step \in DOMAIN StoreCall /\ call[Server].file = req.id
      /\ req.id \in Files /\ up /\ req.step # "idle"
  BY <1>1, OnlyBusy, StoreCalls, ServiceFacts DEF BackupInv, ServiceInv, Engaged
<1>3. FileSaved(Server) /\ up' = up /\ (faults' = 0 => faults = 0) /\ crashes' = crashes
  BY <1>1, <1>2, StaysUp
<1>4. /\ HandlingOf(req.id)' /\ Told(req.id)'
      /\ faults' = 0 /\ crashes = 0 => RowedOf(req.id)'
      /\ faults' = 0 /\ crashes = 0 /\ catalogFaults = 0 =>
           /\ req.id \in view => FiledOf(req.id)'
           /\ req.step = "delete" => /\ call'[Server].pc # "remove"
                                     /\ ~Busy(Server)' => call'[Server].result = "ok"
  BY CallGoesOn
<1>5. ASSUME NEW g \in Files, g # req.id
      PROVE  manifest'[g] = manifest[g] /\ mrec'[g] = mrec[g] /\ LoadedFile(g)' = LoadedFile(g)
  BY <1>1, <1>2, <1>3, <1>5, StoreTouches
<1>6. ServiceTypes'
  BY <1>1 DEF ServiceInv, ServiceTypes
<1>7. Engaged'
  <2>1. SameCall(Server)
    BY <1>1, KeepsOn
  <2> QED BY <1>1, <1>2, <1>3, <2>1 DEF ServiceInv, Engaged, SameCall, Idling
<1>8. Handling'
  BY <1>1, <1>4 DEF Handling
<1>9. AllTold'
  <2>1. ASSUME NEW g \in Files, g # req.id PROVE Told(g)'
    BY <1>1, <1>3, <1>5, <2>1 DEF ServiceInv, AllTold, Told, Entered, Left
  <2> QED BY <1>1, <1>4, <2>1 DEF AllTold
<1>10. Rowed'
  <2>1. ASSUME NEW g \in Files, g # req.id, RowedOf(g) PROVE RowedOf(g)'
    BY <1>1, <1>5, <2>1 DEF RowedOf
  <2> QED BY <1>1, <1>3, <1>4, <2>1 DEF ServiceInv, Rowed
<1>11. Filed'
  <2>1. ASSUME NEW g \in view, g # req.id, FiledOf(g) PROVE FiledOf(g)'
    BY <1>1, <1>5, <2>1 DEF ServiceInv, ServiceTypes, FiledOf
  <2>2. ASSUME faults' = 0, crashes' = 0, catalogFaults' = 0
        PROVE  /\ req.step # "rollback" /\ \A g \in view : FiledOf(g)'
               /\ req.step = "delete" => /\ call'[Server].pc # "remove"
                                         /\ ~Busy(Server)' => call'[Server].result = "ok"
    BY <1>1, <1>3, <1>4, <2>1, <2>2 DEF ServiceInv, Filed
  <2> QED BY <1>1, <2>2 DEF Filed
<1> QED BY <1>6, <1>7, <1>8, <1>9, <1>10, <1>11 DEF ServiceInv

-------------------------------------------------------------------------------
(* The handler goes on.                                                         *)

\* A step of the handler that makes no call of the store: it goes on with the
\* request's backup, or answers, and changes no other row than that backup's, but
\* for what a commit or a rollback does to the rows of the open transaction.
HandlerMoves(f) ==
  /\ f = req.id /\ f \in Files /\ up /\ ~Busy(Server)
  /\ \/ req' = Idling
     \/ \E step \in {"insert", "commit", "drop", "commit_drop"} : req' = [req EXCEPT !.step = step]
  /\ \A g \in Files : g # f => story'[g] = story[g]
  /\ story' \in [Files -> Stories] /\ content' = content
  /\ rows' \in {rows, view}
  /\ \A g \in Files : g # f => /\ g \in rows /\ g \in view => g \in view'
                               /\ g \in view' => g \in rows \cup view
                               /\ catalogFaults' = 0 => (g \in view' => g \in view)
  /\ catalogFaults' \in Nat /\ (catalogFaults' = 0 => catalogFaults = 0)
  /\ view' \subseteq Files /\ requests' = requests

\* What is left to show of such a step is what it does to the request's backup.
LEMMA HandlerStep ==
  ASSUME BackupInv, UNCHANGED vars, NEW f, HandlerMoves(f),
         Told(f)', req' # Idling => HandlingOf(f)',
         faults = 0 /\ crashes = 0 => RowedOf(f)',
         faults = 0 /\ crashes = 0 /\ catalogFaults' = 0 => (f \in view' => FiledOf(f)')
  PROVE  ServiceInv'
<1>1. /\ UNCHANGED <<manifest, mrec, midx, call, up, faults, crashes>>
      /\ ServiceInv /\ f = req.id /\ f \in Files /\ up /\ f # None
      /\ ~Busy(Server) /\ req \in [step : RequestSteps, id : Files \cup {None}]
  BY StoreAssumption DEF vars, backend, memory, bounds, HandlerMoves, BackupInv,
     ServiceInv, ServiceTypes
<1>2. ASSUME NEW g PROVE LoadedFile(g)' = LoadedFile(g)
  BY <1>1 DEF LoadedFile
<1>3. /\ req' = Idling \/ (req'.id = f /\ req'.step \in {"insert", "commit", "drop", "commit_drop"})
      /\ req' \in [step : RequestSteps, id : Files \cup {None}]
  <2>1. CASE req' = Idling
    BY <2>1 DEF Idling, RequestSteps
  <2>2. ASSUME NEW step \in {"insert", "commit", "drop", "commit_drop"},
               req' = [req EXCEPT !.step = step]
        PROVE  /\ req'.id = f /\ req'.step = step
               /\ req' \in [step : RequestSteps, id : Files \cup {None}]
    BY <1>1, <2>2 DEF RequestSteps
  <2> QED BY <2>1, <2>2 DEF HandlerMoves
<1>4. ServiceTypes'
  <2>1. (req'.step = "idle") <=> (req'.id = None)
    BY <1>1, <1>3 DEF Idling
  <2> QED BY <1>1, <1>3, <2>1 DEF HandlerMoves, ServiceInv, ServiceTypes
<1>5. Engaged'
  <2>1. req'.step \notin {"ingest", "rollback", "delete", "read"}
    BY <1>3 DEF Idling
  <2> QED BY <1>1, <2>1, StoreCalls DEF Engaged, Busy
<1>6. Handling'
  BY <1>3 DEF Handling, Idling
<1>7. AllTold'
  <2>1. ASSUME NEW g \in Files, g # f PROVE Told(g)'
    <3>1. /\ Told(g) /\ UNCHANGED <<manifest[g], mrec[g], LoadedFile(g), content[g], story[g], up>>
      BY <1>1, <1>2, <2>1 DEF ServiceInv, AllTold, HandlerMoves
    <3>2. /\ g \in rows /\ g \in view => g \in rows' /\ g \in view'
          /\ g \in rows' \cup view' => g \in rows \cup view
      BY <2>1 DEF HandlerMoves
    <3>3. ~(req.id = g /\ req.step \in UploadSteps) /\ ~(req'.id = g /\ req'.step \in UploadSteps)
      BY <1>1, <1>3, <2>1, StoreAssumption DEF Idling
    <3> QED BY <3>1, <3>2, <3>3 DEF Told, Entered, Left
  <2> QED BY <1>1, <2>1 DEF AllTold
<1>8. Rowed'
  <2>1. ASSUME NEW g \in Files, g # f, RowedOf(g) PROVE RowedOf(g)'
    BY <1>1, <1>3, <2>1 DEF RowedOf, HandlerMoves
  <2> QED BY <1>1, <2>1 DEF ServiceInv, Rowed
<1>9. Filed'
  <2>1. ASSUME catalogFaults' = 0, faults = 0, crashes = 0, NEW g \in view', g # f PROVE FiledOf(g)'
    BY <1>1, <1>3, <2>1 DEF ServiceInv, Filed, FiledOf, HandlerMoves
  <2>2. req'.step \notin {"rollback", "delete"}
    BY <1>3 DEF Idling
  <2> QED BY <1>1, <2>1, <2>2 DEF Filed
<1> QED BY <1>4, <1>5, <1>6, <1>7, <1>8, <1>9 DEF ServiceInv

\* What a handler that goes on or answers does to its request and its story.
LEMMA AnswerGiven ==
  ASSUME BackupInv, NEW f \in Files, f = req.id, NEW told \in Stories, Answered(f, told)
  PROVE  /\ req' = Idling /\ req'.step = "idle" /\ req'.id = None
         /\ story'[f] = told /\ story' \in [Files -> Stories]
         /\ \A g \in Files : g # f => story'[g] = story[g]
<1>1. story \in [Files -> Stories] /\ story' = [story EXCEPT ![f] = told] /\ req' = Idling
  BY DEF Answered, BackupInv, ServiceInv, ServiceTypes
<1>2. story' \in [Files -> Stories]
  BY <1>1
<1> QED BY <1>1, <1>2 DEF Idling

LEMMA HandlerGoes ==
  ASSUME BackupInv, NEW f \in Files, f = req.id, NEW step, Goes(step)
  PROVE  /\ req' = [req EXCEPT !.step = step] /\ req'.step = step /\ req'.id = f
         /\ story' = story /\ story' \in [Files -> Stories]
BY DEF Goes, BackupInv, ServiceInv, ServiceTypes

AtHand(f) ==
  /\ f = req.id /\ f \in Files /\ up /\ ~Busy(Server) /\ HandlingOf(f) /\ Told(f)
  /\ faults = 0 /\ crashes = 0 => RowedOf(f)
  /\ faults = 0 /\ crashes = 0 /\ catalogFaults = 0 => (f \in view => FiledOf(f))
  /\ UNCHANGED <<manifest, mrec, midx, up, call, faults, crashes>>
  /\ LoadedFile(f)' = LoadedFile(f)
  /\ rows \subseteq Files /\ view \subseteq Files
  /\ story[f] \in Stories /\ story \in [Files -> Stories] /\ catalogFaults \in Nat

LEMMA Started ==
  ASSUME BackupInv, req.step # "idle", ~Busy(Server), UNCHANGED vars
  PROVE  \E f \in Files : AtHand(f)
<1>1. PICK f \in Files : f = req.id
  BY ServiceFacts
<1>2. UNCHANGED <<manifest, mrec, midx, up, call, faults, crashes>>
  BY DEF vars, backend, memory, bounds
<1>3. up /\ HandlingOf(f) /\ Told(f)
  BY <1>1, ServiceFacts, StoreAssumption DEF BackupInv, ServiceInv, Handling, AllTold
<1>4. /\ faults = 0 /\ crashes = 0 => RowedOf(f)
      /\ faults = 0 /\ crashes = 0 /\ catalogFaults = 0 => (f \in view => FiledOf(f))
  BY DEF BackupInv, ServiceInv, Rowed, Filed
<1> QED BY <1>1, <1>2, <1>3, <1>4 DEF AtHand, LoadedFile, BackupInv, ServiceInv, ServiceTypes

\* The handler is in no call of the store at these steps.
LEMMA NotInStore ==
  ASSUME BackupInv, req.step \in {"insert", "commit", "drop", "commit_drop"}
  PROVE  ~Busy(Server)
BY StoreCalls DEF BackupInv, ServiceInv, Engaged

LEMMA IngestedStep == ASSUME BackupInv, Ingested PROVE ServiceInv'
<1>1. /\ req.step = "ingest" /\ ~Busy(Server)
      /\ UNCHANGED <<vars, rows, view, content, requests, catalogFaults>>
  BY DEF Ingested, StoreReturned
<1>2. PICK f \in Files : AtHand(f)
  BY <1>1, Started
<1>3. content[f] \in Contents /\ Ingesting(f)
  BY <1>1, <1>2 DEF AtHand, HandlingOf
<1>5. CASE StoreSaid = "ok"
  <2>1. Goes("insert")
    BY <1>5 DEF Ingested
  <2>2. /\ req' = [req EXCEPT !.step = "insert"] /\ req'.step = "insert" /\ req'.id = f
        /\ story' = story /\ story' \in [Files -> Stories]
    BY <1>2, <2>1, HandlerGoes DEF AtHand
  <2>3. Entered(f) /\ Entered(f)'
    BY <1>1, <1>2, <1>3, <1>5 DEF AtHand, Ingesting, Entered, StoreSaid
  <2>4. HandlerMoves(f)
    BY <1>1, <1>2, <2>2 DEF AtHand, HandlerMoves
  <2>5. Told(f)'
    BY <1>1, <1>2, <2>2, <2>3 DEF AtHand, Told, Left, UploadSteps
  <2>6. HandlingOf(f)'
    BY <2>2, <2>3 DEF HandlingOf
  <2>7. RowedOf(f)' /\ FiledOf(f)'
    <3>1. manifest[f] # None
      BY <1>2, <2>3, StoreAssumption DEF AtHand, Entered
    <3> QED BY <1>2, <2>2, <3>1 DEF AtHand, RowedOf, FiledOf, UploadSteps
  <2> QED BY <1>1, <2>4, <2>5, <2>6, <2>7, HandlerStep DEF AtHand
<1>6. CASE StoreSaid # "ok"
  <2>1. faults > 0 /\ faults # 0
    BY <1>1, <1>3, <1>6 DEF Ingesting, StoreSaid
  <2>2. Answered(f, "failed") /\ "failed" \in Stories
    BY <1>2, <1>6 DEF AtHand, Ingested, Stories
  <2>3. /\ req' = Idling /\ req'.step = "idle" /\ req'.id = None
        /\ story'[f] = "failed" /\ story' \in [Files -> Stories]
        /\ \A g \in Files : g # f => story'[g] = story[g]
    BY <1>2, <2>2, AnswerGiven DEF AtHand
  <2>4. HandlerMoves(f)
    BY <1>1, <1>2, <2>3 DEF AtHand, HandlerMoves
  <2>5. Told(f)'
    BY <1>1, <1>2, <2>3, StoreAssumption DEF AtHand, Told
  <2> QED BY <1>1, <2>1, <2>3, <2>4, <2>5, HandlerStep DEF AtHand
<1> QED BY <1>5, <1>6

LEMMA InsertRowStep == ASSUME BackupInv, InsertRow PROVE ServiceInv'
<1>1. /\ req.step = "insert" /\ view' = view \cup {req.id} /\ Goes("commit")
      /\ UNCHANGED <<vars, rows, content, requests, catalogFaults>>
  BY DEF InsertRow
<1>2. PICK f \in Files : AtHand(f)
  BY <1>1, Started, NotInStore
<1>3. /\ req' = [req EXCEPT !.step = "commit"] /\ req'.step = "commit" /\ req'.id = f
      /\ story' = story /\ story' \in [Files -> Stories]
  BY <1>1, <1>2, HandlerGoes DEF AtHand
<1>4. Entered(f) /\ Entered(f)' /\ manifest'[f] # None /\ story[f] = "sent" /\ f \in view'
  BY <1>1, <1>2, StoreAssumption DEF AtHand, HandlingOf, Entered, Told, UploadSteps
<1>5. HandlerMoves(f)
  BY <1>1, <1>2, <1>3 DEF AtHand, HandlerMoves
<1>6. Told(f)' /\ HandlingOf(f)' /\ RowedOf(f)' /\ FiledOf(f)'
  BY <1>1, <1>2, <1>3, <1>4 DEF AtHand, Told, HandlingOf, RowedOf, FiledOf, UploadSteps
<1> QED BY <1>1, <1>5, <1>6, HandlerStep

LEMMA CommitRowStep == ASSUME BackupInv, CommitRow PROVE ServiceInv'
<1>1. /\ req.step = "commit" /\ rows' = view /\ Answered(req.id, "kept") /\ "kept" \in Stories
      /\ UNCHANGED <<vars, view, content, requests, catalogFaults>>
  BY DEF CommitRow, Committed, Stories
<1>2. PICK f \in Files : AtHand(f)
  BY <1>1, Started, NotInStore
<1>3. /\ req' = Idling /\ req'.step = "idle" /\ req'.id = None
      /\ story'[f] = "kept" /\ story' \in [Files -> Stories]
      /\ \A g \in Files : g # f => story'[g] = story[g]
  BY <1>1, <1>2, AnswerGiven DEF AtHand
<1>4. Entered(f)' /\ manifest'[f] # None /\ f \in view' /\ f \in rows'
  BY <1>1, <1>2, StoreAssumption DEF AtHand, HandlingOf, Entered
<1>5. HandlerMoves(f)
  BY <1>1, <1>2, <1>3 DEF AtHand, HandlerMoves
<1>6. Told(f)' /\ RowedOf(f)' /\ FiledOf(f)'
  BY <1>1, <1>2, <1>3, <1>4, StoreAssumption DEF AtHand, Told, RowedOf, FiledOf
<1> QED BY <1>1, <1>3, <1>5, <1>6, HandlerStep

\* The answers that leave the catalog alone.
LEMMA RolledBackStep == ASSUME BackupInv, RolledBack PROVE ServiceInv'
<1>1. /\ req.step = "rollback" /\ ~Busy(Server)
      /\ Answered(req.id, "failed") /\ "failed" \in Stories
      /\ UNCHANGED <<vars, rows, view, content, requests, catalogFaults>>
  BY DEF RolledBack, StoreReturned, Stories
<1>2. PICK f \in Files : AtHand(f)
  BY <1>1, Started
<1>3. /\ req' = Idling /\ req'.step = "idle" /\ req'.id = None
      /\ story'[f] = "failed" /\ story' \in [Files -> Stories]
      /\ \A g \in Files : g # f => story'[g] = story[g]
  BY <1>1, <1>2, AnswerGiven DEF AtHand
<1>4. faults = 0 => manifest[f] = None
  BY <1>1, <1>2 DEF AtHand, HandlingOf, Deleting
<1>5. HandlerMoves(f)
  BY <1>1, <1>2, <1>3 DEF AtHand, HandlerMoves
<1>6. Told(f)'
  BY <1>1, <1>2, <1>3, StoreAssumption DEF AtHand, Told
<1>7. faults = 0 => RowedOf(f)'
  BY <1>2, <1>4 DEF AtHand, RowedOf
<1>8. faults = 0 /\ crashes = 0 /\ catalogFaults' = 0 => FALSE
  BY <1>1 DEF BackupInv, ServiceInv, Filed
<1> QED BY <1>3, <1>1, <1>5, <1>6, <1>7, <1>8, HandlerStep

LEMMA ArchiveDeletedStep == ASSUME BackupInv, ArchiveDeleted PROVE ServiceInv'
<1>1. /\ req.step = "delete" /\ ~Busy(Server)
      /\ UNCHANGED <<vars, rows, view, content, requests, catalogFaults>>
  BY DEF ArchiveDeleted, StoreReturned
<1>2. PICK f \in Files : AtHand(f)
  BY <1>1, Started
<1>3. Deleting(f) /\ story[f] \in {"failed", "doomed"}
  BY <1>1, <1>2 DEF AtHand, HandlingOf
<1>4. faults = 0 /\ crashes = 0 /\ catalogFaults' = 0 => StoreSaid = "ok"
  BY <1>1 DEF BackupInv, ServiceInv, Filed, StoreSaid
<1>5. CASE StoreSaid = "err"
  <2>1. Answered(f, story[f]) /\ story[f] \in Stories
    BY <1>2, <1>5 DEF AtHand, ArchiveDeleted, DeleteRefused
  <2>2. /\ req' = Idling /\ req'.step = "idle" /\ req'.id = None
        /\ story'[f] = story[f] /\ story' \in [Files -> Stories]
        /\ \A g \in Files : g # f => story'[g] = story[g]
    BY <1>2, <2>1, AnswerGiven DEF AtHand
  <2>3. HandlerMoves(f)
    BY <1>1, <1>2, <2>2 DEF AtHand, HandlerMoves
  <2>4. Told(f)'
    BY <1>1, <1>2, <1>3, <2>2, StoreAssumption DEF AtHand, Told
  <2>5. RowedOf(f) => RowedOf(f)'
    BY <1>1, <1>2, <2>2 DEF AtHand, RowedOf, UploadSteps
  <2> QED BY <1>1, <1>2, <1>4, <1>5, <2>2, <2>3, <2>4, <2>5, HandlerStep DEF AtHand
<1>6. CASE StoreSaid # "err"
  <2>1. Goes("drop")
    BY <1>6 DEF ArchiveDeleted, DeleteRefused
  <2>2. /\ req' = [req EXCEPT !.step = "drop"] /\ req'.step = "drop" /\ req'.id = f
        /\ story' = story /\ story' \in [Files -> Stories]
    BY <1>2, <2>1, HandlerGoes DEF AtHand
  <2>3. StoreSaid = "ok"
    BY <1>1, <1>3, <1>6 DEF Deleting, StoreSaid
  <2>4. Left(f) /\ Left(f)'
    BY <1>1, <1>2, <1>3, <2>3 DEF AtHand, Deleting, Left, StoreSaid
  <2>5. HandlerMoves(f)
    BY <1>1, <1>2, <2>2 DEF AtHand, HandlerMoves
  <2>6. Told(f)' /\ HandlingOf(f)' /\ RowedOf(f)' /\ FiledOf(f)'
    BY <1>1, <1>2, <1>3, <2>2, <2>4
       DEF AtHand, Told, HandlingOf, RowedOf, FiledOf, UploadSteps, Left
  <2> QED BY <1>1, <2>5, <2>6, HandlerStep
<1> QED BY <1>5, <1>6

LEMMA DropRowStep == ASSUME BackupInv, DropRow PROVE ServiceInv'
<1>1. /\ req.step = "drop" /\ view' = view \ {req.id} /\ Goes("commit_drop")
      /\ UNCHANGED <<vars, rows, content, requests, catalogFaults>>
  BY DEF DropRow
<1>2. PICK f \in Files : AtHand(f)
  BY <1>1, Started, NotInStore
<1>3. /\ req' = [req EXCEPT !.step = "commit_drop"] /\ req'.step = "commit_drop" /\ req'.id = f
      /\ story' = story /\ story' \in [Files -> Stories]
  BY <1>1, <1>2, HandlerGoes DEF AtHand
<1>4. Left(f) /\ Left(f)' /\ story[f] \in {"failed", "doomed"} /\ f \notin view'
  BY <1>1, <1>2 DEF AtHand, HandlingOf, Left
<1>5. HandlerMoves(f)
  BY <1>1, <1>2, <1>3 DEF AtHand, HandlerMoves
<1>6. Told(f)' /\ HandlingOf(f)' /\ RowedOf(f)'
  BY <1>1, <1>2, <1>3, <1>4 DEF AtHand, Told, HandlingOf, RowedOf, Left, UploadSteps
<1> QED BY <1>1, <1>4, <1>5, <1>6, HandlerStep

LEMMA CommitDropStep == ASSUME BackupInv, CommitDrop PROVE ServiceInv'
<1>1. /\ req.step = "commit_drop" /\ rows' = view /\ Answered(req.id, "gone") /\ "gone" \in Stories
      /\ UNCHANGED <<vars, view, content, requests, catalogFaults>>
  BY DEF CommitDrop, Committed, Stories
<1>2. PICK f \in Files : AtHand(f)
  BY <1>1, Started, NotInStore
<1>3. /\ req' = Idling /\ req'.step = "idle" /\ req'.id = None
      /\ story'[f] = "gone" /\ story' \in [Files -> Stories]
      /\ \A g \in Files : g # f => story'[g] = story[g]
  BY <1>1, <1>2, AnswerGiven DEF AtHand
<1>4. Left(f)' /\ f \notin rows' \cup view'
  BY <1>1, <1>2 DEF AtHand, HandlingOf, Left
<1>5. HandlerMoves(f)
  BY <1>1, <1>2, <1>3 DEF AtHand, HandlerMoves
<1>6. Told(f)' /\ RowedOf(f)'
  BY <1>1, <1>2, <1>3, <1>4, StoreAssumption DEF AtHand, Told, RowedOf, Left
<1> QED BY <1>1, <1>3, <1>4, <1>5, <1>6, HandlerStep

LEMMA DropFailsStep == ASSUME BackupInv, DropFails PROVE ServiceInv'
<1>1. /\ req.step \in {"drop", "commit_drop"} /\ Answered(req.id, story[req.id])
      /\ catalogFaults' = catalogFaults + 1 /\ view' \in {view, rows}
      /\ UNCHANGED <<vars, rows, content, requests>>
  BY DEF DropFails, TransactionAfterError
<1>2. PICK f \in Files : AtHand(f)
  BY <1>1, Started, NotInStore
<1>3. /\ req' = Idling /\ req'.step = "idle" /\ req'.id = None
      /\ story'[f] = story[f] /\ story' \in [Files -> Stories]
      /\ \A g \in Files : g # f => story'[g] = story[g]
  BY <1>1, <1>2, AnswerGiven DEF AtHand
<1>4. Left(f)' /\ story[f] \in {"failed", "doomed"}
  BY <1>1, <1>2 DEF AtHand, HandlingOf, Left
<1>5. HandlerMoves(f)
  BY <1>1, <1>2, <1>3 DEF AtHand, HandlerMoves
<1>6. Told(f)' /\ RowedOf(f)'
  BY <1>1, <1>2, <1>3, <1>4, StoreAssumption DEF AtHand, Told, RowedOf, Left
<1>7. catalogFaults' # 0
  BY <1>1, <1>2 DEF AtHand
<1> QED BY <1>1, <1>3, <1>5, <1>6, <1>7, HandlerStep

LEMMA DownloadedStep == ASSUME BackupInv, Downloaded PROVE ServiceInv'
<1>1. /\ req.step = "read" /\ ~Busy(Server) /\ Answered(req.id, story[req.id])
      /\ UNCHANGED <<vars, rows, view, content, requests, catalogFaults>>
  BY DEF Downloaded, StoreReturned
<1>2. PICK f \in Files : AtHand(f)
  BY <1>1, Started
<1>3. /\ req' = Idling /\ req'.step = "idle" /\ req'.id = None
      /\ story'[f] = story[f] /\ story' \in [Files -> Stories]
      /\ \A g \in Files : g # f => story'[g] = story[g]
  BY <1>1, <1>2, AnswerGiven DEF AtHand
<1>4. HandlerMoves(f)
  BY <1>1, <1>2, <1>3 DEF AtHand, HandlerMoves
<1>5. Told(f)'
  BY <1>1, <1>2, <1>3, StoreAssumption DEF AtHand, Told, Entered, Left, UploadSteps
<1>6. (RowedOf(f) => RowedOf(f)') /\ (FiledOf(f) => FiledOf(f)')
  BY <1>1, <1>2, <1>3 DEF AtHand, RowedOf, FiledOf, UploadSteps
<1>7. /\ faults = 0 /\ crashes = 0 => RowedOf(f)'
      /\ faults = 0 /\ crashes = 0 /\ catalogFaults' = 0 => (f \in view' => FiledOf(f)')
  BY <1>1, <1>2, <1>6 DEF AtHand
<1> QED BY <1>1, <1>3, <1>4, <1>5, <1>7, HandlerStep

-------------------------------------------------------------------------------
(* Calls of the store begin.                                                    *)

LEMMA CallBegins ==
  ASSUME BackupInv, NEW op \in {"ingest", "delete", "read"}, NEW f \in Files, NEW c,
         NEW label \in {"exists", "peek", "remove", "lookup"}, Begin(Server, op, f, c, label)
  PROVE  /\ up /\ ~Busy(Server) /\ Busy(Server)'
         /\ call'[Server].pc = label /\ call'[Server].op = op /\ call'[Server].file = f
         /\ call'[Server].new = c /\ call'[Server].old = <<>> /\ call'[Server].released = 0
         /\ UNCHANGED <<manifest, mrec, midx, up, faults, crashes>>
         /\ \A g : LoadedFile(g)' = LoadedFile(g)
<1> DEFINE r == [Idle EXCEPT !.pc = label, !.op = op, !.file = f, !.new = c]
<1>1. /\ r.pc = label /\ r.op = op /\ r.file = f /\ r.new = c /\ r.old = <<>> /\ r.released = 0
  BY DEF Idle
<1>2. call'[Server] = r
  BY ServerAlone, ServiceFacts, GoesOn DEF Begin
<1> HIDE DEF r
<1> QED BY <1>1, <1>2 DEF Begin, Busy, LoadedFile, backend, memory

\* A request arrives: nothing else is in progress.
LEMMA Requested ==
  ASSUME BackupInv, NEW f \in Files, NEW step \in RequestSteps \ {"idle"}, Request(f, step)
  PROVE  /\ req = Idling /\ req.step = "idle" /\ req.id = None /\ f # None
         /\ req'.step = step /\ req'.id = f
         /\ req' \in [step : RequestSteps, id : Files \cup {None}]
         /\ requests' \in Nat
<1>1. requests \in Nat
  BY DEF BackupInv, ServiceInv, ServiceTypes
<1> QED BY <1>1, StoreAssumption DEF Request, Idling

LEMMA PersistStep ==
  ASSUME BackupInv, NEW f \in Files, NEW c \in Contents, Persist(f, c)
  PROVE  ServiceInv'
<1>1. /\ up /\ story[f] = "free" /\ Request(f, "ingest") /\ BeginIngest(Server, f, c)
      /\ story' = [story EXCEPT ![f] = "sent"] /\ content' = [content EXCEPT ![f] = c]
      /\ UNCHANGED <<rows, view, catalogFaults>> /\ ServiceInv
  BY DEF Persist, BackupInv
<1>2. /\ req = Idling /\ req.step = "idle" /\ req.id = None /\ f # None
      /\ req'.step = "ingest" /\ req'.id = f
      /\ req' \in [step : RequestSteps, id : Files \cup {None}] /\ requests' \in Nat
  BY <1>1, Requested DEF RequestSteps
<1>3. PICK label \in {"exists", "peek"} : Begin(Server, "ingest", f, c, label)
  BY <1>1 DEF BeginIngest
<1>4. /\ Busy(Server)' /\ call'[Server].pc \in {"exists", "peek"} /\ call'[Server].op = "ingest"
      /\ call'[Server].file = f /\ call'[Server].new = c /\ call'[Server].old = <<>>
      /\ call'[Server].released = 0
      /\ UNCHANGED <<manifest, mrec, midx, up, faults, crashes>>
      /\ \A g : LoadedFile(g)' = LoadedFile(g)
  BY <1>3, CallBegins
<1>5. /\ story \in [Files -> Stories] /\ content \in [Files -> Contents \cup {None}]
      /\ \A g \in Files : Told(g)
  BY <1>1 DEF ServiceInv, ServiceTypes, AllTold
<1>6. /\ story' \in [Files -> Stories] /\ content' \in [Files -> Contents \cup {None}]
      /\ story'[f] = "sent" /\ content'[f] = c
      /\ \A g \in Files : g # f => story'[g] = story[g] /\ content'[g] = content[g]
  BY <1>1, <1>5 DEF Stories
<1>7. manifest[f] = None /\ mrec[f] = None /\ f \notin rows \cup view
  BY <1>1, <1>5 DEF Told
<1>8. ServiceTypes'
  BY <1>1, <1>2, <1>6 DEF ServiceInv, ServiceTypes
<1>9. Engaged'
  BY <1>1, <1>2, <1>4, StoreCalls DEF Engaged
<1>10. Handling'
  <2>1. Ingesting(f)'
    BY <1>4, <1>6, <1>7 DEF Ingesting, StorePhase, WrittenPcs
  <2> QED BY <1>2, <1>6, <2>1 DEF Handling, HandlingOf
<1>11. AllTold'
  <2>1. ASSUME NEW g \in Files, g # f PROVE Told(g)'
    BY <1>1, <1>2, <1>4, <1>5, <1>6, <2>1, StoreAssumption DEF Told, Entered, Left
  <2>2. Told(f)'
    BY <1>1, <1>2, <1>4, <1>6, <1>7 DEF Told, UploadSteps
  <2> QED BY <2>1, <2>2 DEF AllTold
<1>12. Rowed'
  <2>1. ASSUME NEW g \in Files, RowedOf(g) PROVE RowedOf(g)'
    BY <1>1, <1>2, <1>4, <2>1, StoreAssumption DEF RowedOf
  <2> QED BY <1>1, <1>4, <2>1 DEF ServiceInv, Rowed
<1>13. Filed'
  <2>1. ASSUME NEW g \in view, FiledOf(g) PROVE FiledOf(g)'
    BY <1>1, <1>2, <1>4, <2>1 DEF FiledOf
  <2> QED BY <1>1, <1>2, <1>4, <2>1 DEF ServiceInv, Filed
<1> QED BY <1>8, <1>9, <1>10, <1>11, <1>12, <1>13 DEF ServiceInv

\* delete_backup: the row is there, so somebody was once told of the backup.
LEMMA DeleteStep == ASSUME BackupInv, NEW f \in Files, Delete(f) PROVE ServiceInv'
<1>1. /\ up /\ f \in view /\ Request(f, "delete") /\ BeginDelete(Server, f)
      /\ story' = [story EXCEPT ![f] = IF @ = "kept" THEN "doomed" ELSE @]
      /\ UNCHANGED <<rows, view, content, catalogFaults>> /\ ServiceInv
  BY DEF Delete, BackupInv
<1>2. /\ req = Idling /\ req.step = "idle" /\ req.id = None /\ f # None
      /\ req'.step = "delete" /\ req'.id = f
      /\ req' \in [step : RequestSteps, id : Files \cup {None}] /\ requests' \in Nat
  BY <1>1, Requested DEF RequestSteps
<1>3. Begin(Server, "delete", f, <<>>, "remove")
  BY <1>1 DEF BeginDelete
<1>4. /\ Busy(Server)' /\ call'[Server].pc = "remove" /\ call'[Server].op = "delete"
      /\ call'[Server].file = f
      /\ UNCHANGED <<manifest, mrec, midx, up, faults, crashes>>
      /\ \A g : LoadedFile(g)' = LoadedFile(g)
  BY <1>3, CallBegins
<1>5. /\ story \in [Files -> Stories] /\ \A g \in Files : Told(g)
  BY <1>1 DEF ServiceInv, ServiceTypes, AllTold
<1>6. story[f] \in {"failed", "kept", "doomed"}
  BY <1>1, <1>2, <1>5, StoreAssumption DEF Told, Stories
<1>7. /\ story' \in [Files -> Stories]
      /\ story'[f] = IF story[f] = "kept" THEN "doomed" ELSE story[f]
      /\ \A g \in Files : g # f => story'[g] = story[g]
  BY <1>1, <1>5 DEF Stories
<1>8. ServiceTypes'
  BY <1>1, <1>2, <1>7 DEF ServiceInv, ServiceTypes
<1>9. Engaged'
  BY <1>1, <1>2, <1>4, StoreCalls DEF Engaged
<1>10. Handling'
  <2>1. Deleting(f)'
    BY <1>4 DEF Deleting
  <2> QED BY <1>2, <1>6, <1>7, <2>1 DEF Handling, HandlingOf
<1>11. AllTold'
  <2>1. ASSUME NEW g \in Files, g # f PROVE Told(g)'
    BY <1>1, <1>2, <1>4, <1>5, <1>7, <2>1, StoreAssumption DEF Told, Entered, Left
  <2>2. Told(f)'
    BY <1>1, <1>2, <1>4, <1>5, <1>6, <1>7 DEF Told, UploadSteps
  <2> QED BY <2>1, <2>2 DEF AllTold
<1>12. Rowed'
  <2>1. ASSUME NEW g \in Files, RowedOf(g) PROVE RowedOf(g)'
    BY <1>1, <1>2, <1>4, <2>1, StoreAssumption DEF RowedOf
  <2> QED BY <1>1, <1>4, <2>1 DEF ServiceInv, Rowed
<1>13. Filed'
  <2>1. ASSUME NEW g \in view, FiledOf(g) PROVE FiledOf(g)' /\ manifest[g] # None
    BY <1>1, <1>2, <1>4, <2>1 DEF FiledOf
  <2> QED BY <1>1, <1>2, <1>4, <2>1 DEF ServiceInv, Filed
<1> QED BY <1>8, <1>9, <1>10, <1>11, <1>12, <1>13 DEF ServiceInv

LEMMA DownloadStep == ASSUME BackupInv, NEW f \in Files, Download(f) PROVE ServiceInv'
<1>1. /\ up /\ f \in view /\ Request(f, "read") /\ BeginRead(Server, f)
      /\ UNCHANGED <<rows, view, story, content, catalogFaults>> /\ ServiceInv
  BY DEF Download, BackupInv
<1>2. /\ req = Idling /\ req.step = "idle" /\ req.id = None /\ f # None
      /\ req'.step = "read" /\ req'.id = f
      /\ req' \in [step : RequestSteps, id : Files \cup {None}] /\ requests' \in Nat
  BY <1>1, Requested DEF RequestSteps
<1>3. Begin(Server, "read", f, <<>>, "lookup")
  BY <1>1 DEF BeginRead
<1>4. /\ Busy(Server)' /\ call'[Server].op = "read" /\ call'[Server].file = f
      /\ UNCHANGED <<manifest, mrec, midx, up, faults, crashes>>
      /\ \A g : LoadedFile(g)' = LoadedFile(g)
  BY <1>3, CallBegins
<1>5. ServiceTypes'
  BY <1>1, <1>2 DEF ServiceInv, ServiceTypes
<1>6. Engaged'
  BY <1>1, <1>2, <1>4, StoreCalls DEF Engaged
<1>7. Handling'
  BY <1>2 DEF Handling, HandlingOf
<1>8. AllTold'
  <2>1. ASSUME NEW g \in Files, Told(g) PROVE Told(g)'
    BY <1>1, <1>2, <1>4, <2>1, StoreAssumption DEF Told, Entered, Left, UploadSteps
  <2> QED BY <1>1, <2>1 DEF ServiceInv, AllTold
<1>9. Rowed'
  <2>1. ASSUME NEW g \in Files, RowedOf(g) PROVE RowedOf(g)'
    BY <1>1, <1>2, <1>4, <2>1, StoreAssumption DEF RowedOf
  <2> QED BY <1>1, <1>4, <2>1 DEF ServiceInv, Rowed
<1>10. Filed'
  <2>1. ASSUME NEW g \in view, FiledOf(g) PROVE FiledOf(g)'
    BY <1>1, <1>2, <1>4, <2>1 DEF FiledOf
  <2> QED BY <1>1, <1>2, <1>4, <2>1 DEF ServiceInv, Filed
<1> QED BY <1>5, <1>6, <1>7, <1>8, <1>9, <1>10 DEF ServiceInv

\* A row that could not be inserted or committed: its archive is to go again.
LEMMA InsertFailsStep == ASSUME BackupInv, InsertFails PROVE ServiceInv'
<1>1. /\ req.step \in {"insert", "commit"} /\ BeginDelete(Server, req.id) /\ Goes("rollback")
      /\ catalogFaults' = catalogFaults + 1 /\ view' \in {view, rows}
      /\ UNCHANGED <<rows, content, requests>> /\ ServiceInv
  BY DEF InsertFails, TransactionAfterError, BackupInv
<1>2. PICK f \in Files : f = req.id
  BY <1>1, ServiceFacts
<1>3. Begin(Server, "delete", f, <<>>, "remove") /\ f # None /\ up
  BY <1>1, <1>2, ServiceFacts, StoreAssumption DEF BeginDelete
<1>4. /\ Busy(Server)' /\ call'[Server].pc = "remove" /\ call'[Server].op = "delete"
      /\ call'[Server].file = f
      /\ UNCHANGED <<manifest, mrec, midx, up, faults, crashes>>
      /\ \A g : LoadedFile(g)' = LoadedFile(g)
  BY <1>3, CallBegins
<1>5. /\ req' = [req EXCEPT !.step = "rollback"] /\ req'.step = "rollback" /\ req'.id = f
      /\ story' = story
  BY <1>1, <1>2, HandlerGoes
<1>6. /\ catalogFaults' \in Nat /\ catalogFaults' # 0
      /\ req' \in [step : RequestSteps, id : Files \cup {None}]
  BY <1>1, <1>5 DEF ServiceInv, ServiceTypes, RequestSteps
<1>7. ServiceTypes'
  BY <1>1, <1>3, <1>5, <1>6 DEF ServiceInv, ServiceTypes
<1>8. Engaged'
  BY <1>3, <1>4, <1>5, StoreCalls DEF Engaged
<1>9. Handling'
  <2>1. Deleting(f)'
    BY <1>4 DEF Deleting
  <2> QED BY <1>5, <2>1 DEF Handling, HandlingOf
<1>10. AllTold'
  <2>1. ASSUME NEW g \in Files, Told(g) PROVE Told(g)'
    BY <1>1, <1>2, <1>4, <1>5, <2>1 DEF Told, Entered, Left, UploadSteps
  <2> QED BY <1>1, <2>1 DEF ServiceInv, AllTold
<1>11. Rowed'
  <2>1. ASSUME NEW g \in Files, RowedOf(g) PROVE RowedOf(g)'
    BY <1>1, <1>2, <1>4, <1>5, <2>1 DEF RowedOf, UploadSteps
  <2> QED BY <1>1, <1>4, <2>1 DEF ServiceInv, Rowed
<1>12. Filed'
  BY <1>6 DEF Filed
<1> QED BY <1>7, <1>8, <1>9, <1>10, <1>11, <1>12 DEF ServiceInv

-------------------------------------------------------------------------------
(* Crashes, restarts, and the whole.                                            *)

LEMMA ServiceCrashStep == ASSUME BackupInv, ServiceCrash PROVE ServiceInv'
<1>1. /\ up' = FALSE /\ call' = [t \in Threads |-> Idle] /\ crashes' = crashes + 1
      /\ manifest' = [f \in Files |-> None] /\ UNCHANGED <<mrec, midx, faults>>
      /\ view' = rows /\ req' = Idling
      /\ story' = [f \in Files |-> IF story[f] = "sent" THEN "failed" ELSE story[f]]
      /\ UNCHANGED <<rows, content, requests, catalogFaults>> /\ ServiceInv
  BY DEF ServiceCrash, Crash, backend, BackupInv
<1>2. req'.step = "idle" /\ req'.id = None /\ crashes' > 0 /\ crashes' # 0
  BY <1>1, ServiceFacts DEF Idling, TypeInv, TypeOK
<1>3. \A f \in Files : LoadedFile(f)' = LoadedFile(f) /\ manifest'[f] = None
  BY <1>1 DEF LoadedFile
<1>4. /\ story \in [Files -> Stories] /\ \A f \in Files : Told(f)
      /\ rows \subseteq Files /\ requests \in Nat /\ catalogFaults \in Nat
      /\ content \in [Files -> Contents \cup {None}]
  BY <1>1 DEF ServiceInv, ServiceTypes, AllTold
<1>5. ServiceTypes'
  <2>1. story' \in [Files -> Stories]
    BY <1>1, <1>4 DEF Stories
  <2>2. req' \in [step : RequestSteps, id : Files \cup {None}]
    BY <1>1 DEF Idling, RequestSteps
  <2> QED BY <1>1, <1>2, <1>4, <2>1, <2>2 DEF ServiceTypes
<1>6. Engaged'
  <2>1. ~Busy(Server)'
    BY <1>1, ServerAlone DEF Busy, Idle
  <2> QED BY <1>1, <1>2, <2>1, StoreCalls DEF Engaged
<1>7. Handling'
  BY <1>2 DEF Handling
<1>8. AllTold'
  <2>1. ASSUME NEW f \in Files PROVE Told(f)'
    <3>1. story'[f] = IF story[f] = "sent" THEN "failed" ELSE story[f]
      BY <1>1
    <3>2. Told(f)
      BY <1>4
    <3> QED BY <1>1, <1>2, <1>3, <3>1, <3>2, StoreAssumption DEF Told, Entered, Left, UploadSteps
  <2> QED BY <2>1 DEF AllTold
<1>9. Rowed' /\ Filed'
  BY <1>2 DEF Rowed, Filed
<1> QED BY <1>5, <1>6, <1>7, <1>8, <1>9 DEF ServiceInv

LEMMA RestartStep == ASSUME BackupInv, Restart PROVE ServiceInv'
<1>1. /\ ~up /\ up' = TRUE /\ manifest' = [f \in Files |-> LoadedFile(f)]
      /\ UNCHANGED <<mrec, midx, call, faults, crashes>>
      /\ UNCHANGED <<rows, view, req, story, content, requests, catalogFaults>> /\ ServiceInv
  BY DEF Restart, Open, backend, bounds, service, BackupInv
<1>2. /\ req = Idling /\ req.step = "idle" /\ req.id = None /\ ~Busy(Server)
      /\ crashes \in Nat /\ crashes # 0
  BY <1>1, ServiceFacts, StoreCalls
     DEF ServiceInv, Engaged, Idling, BackupInv, CollectInv, TypeInv, TypeOK
<1>3. \A f \in Files : LoadedFile(f)' = LoadedFile(f) /\ manifest'[f] = LoadedFile(f)
  BY <1>1 DEF LoadedFile
<1>4. ServiceTypes'
  BY <1>1 DEF ServiceInv, ServiceTypes
<1>5. Engaged'
  BY <1>1, <1>2, StoreCalls DEF Engaged, Busy
<1>6. Handling'
  BY <1>1, <1>2 DEF Handling
<1>7. AllTold'
  <2>1. ASSUME NEW f \in Files PROVE Told(f)'
    <3>1. Told(f)
      BY <1>1 DEF ServiceInv, AllTold
    <3>2. LoadedFile(f) \in {None, content[f]}
      BY <3>1 DEF Told, LoadedFile
    <3> QED BY <1>1, <1>2, <1>3, <3>1, <3>2 DEF Told, Entered, Left
  <2> QED BY <2>1 DEF AllTold
<1>8. Rowed' /\ Filed'
  BY <1>1, <1>2 DEF Rowed, Filed
<1> QED BY <1>4, <1>5, <1>6, <1>7, <1>8 DEF ServiceInv

LEMMA ServiceStays == ASSUME ServiceInv, UNCHANGED backupVars PROVE ServiceInv'
<1>1. /\ UNCHANGED <<manifest, mrec, midx, call, up, faults, crashes>>
      /\ UNCHANGED <<rows, view, req, story, content, requests, catalogFaults>>
  BY DEF backupVars, vars, service, backend, memory, bounds
<1>2. \A f : LoadedFile(f)' = LoadedFile(f)
  BY <1>1 DEF LoadedFile
<1>3. ServiceTypes' /\ Engaged'
  BY <1>1 DEF ServiceInv, ServiceTypes, Engaged, Busy
<1>4. Handling'
  BY <1>1, <1>2 DEF ServiceInv, Handling, HandlingOf, Ingesting, Deleting, Entered, Left, Busy
<1>5. AllTold'
  <2>1. ASSUME NEW f, Told(f) PROVE Told(f)'
    BY <1>1, <1>2, <2>1 DEF Told, Entered, Left
  <2> QED BY <2>1 DEF ServiceInv, AllTold
<1>6. Rowed' /\ Filed'
  BY <1>1 DEF ServiceInv, Rowed, Filed, RowedOf, FiledOf, Busy
<1> QED BY <1>3, <1>4, <1>5, <1>6 DEF ServiceInv

LEMMA BackupInitially == BackupInit => BackupInv
<1> SUFFICES ASSUME BackupInit PROVE BackupInv
  OBVIOUS
<1>1. /\ Init /\ rows = {} /\ view = {} /\ req = Idling
      /\ story = [f \in Files |-> "free"] /\ content = [f \in Files |-> None]
      /\ requests = 0 /\ catalogFaults = 0
  BY DEF BackupInit
<1>2. /\ up /\ call = [t \in Threads |-> Idle] /\ midx = {}
      /\ \A f \in Files : manifest[f] = None /\ mrec[f] = None /\ LoadedFile(f) = None
  BY <1>1 DEF Init, LoadedFile
<1>3. req.step = "idle" /\ req.id = None
  BY <1>1 DEF Idling
<1>4. ServiceTypes
  BY <1>1, <1>3 DEF ServiceTypes, Stories, RequestSteps, Idling
<1>5. Engaged
  BY <1>2, <1>3, ServerAlone, StoreCalls DEF Engaged, Busy, Idle
<1>6. Handling /\ Rowed /\ Filed
  BY <1>1, <1>2, <1>3 DEF Handling, Rowed, RowedOf, Filed
<1>7. AllTold
  BY <1>1, <1>2, <1>3 DEF AllTold, Told, UploadSteps
<1> QED BY <1>1, <1>4, <1>5, <1>6, <1>7, CollectInit DEF BackupInv, ServiceInv

LEMMA BackupStep ==
  ASSUME BackupInv, [BackupNext]_backupVars
  PROVE  BackupInv'
<1>1. CollectInv'
  <2>1. [Next]_vars
    <3>1. CASE BackupNext
      <4>1. ServiceTypes /\ Server \in Threads
        BY ServerAlone DEF BackupInv, ServiceInv
      <4> QED BY <3>1, <4>1, ServiceMoves DEF Next, StoreStep
    <3> QED BY <3>1 DEF backupVars
  <2> QED BY <2>1, CollectStep, ServerAlone DEF BackupInv
<1>2. ServiceInv'
  <2>1. CASE \E f \in Files : (\E c \in Contents : Persist(f, c)) \/ Delete(f) \/ Download(f)
    BY <2>1, PersistStep, DeleteStep, DownloadStep
  <2>2. CASE UNCHANGED backupVars \/ ServiceRest
    BY <2>2, ServiceStays DEF BackupInv, ServiceRest
  <2> QED BY <2>1, <2>2, IngestedStep, InsertRowStep, CommitRowStep, InsertFailsStep,
          RolledBackStep, ArchiveDeletedStep, DropRowStep, CommitDropStep, DropFailsStep,
          DownloadedStep, StoreGoesOn, ServiceCrashStep, RestartStep
       DEF BackupNext, Upload, Scan
<1> QED BY <1>1, <1>2 DEF BackupInv

LEMMA BackupAlways == BackupSpec => []BackupInv
BY BackupInitially, BackupStep, PTL DEF BackupSpec

\* Type correctness of the service (main.py, with the store under it).
THEOREM BackupTypes == BackupSpec => []BackupTypeOK
<1>1. BackupInv => BackupTypeOK
  BY ServiceFacts DEF BackupInv, ServiceInv, ServiceTypes, Engaged, BackupTypeOK, TypeInv
<1> QED BY <1>1, BackupAlways, PTL

\* What upload_backup answered 200 for is in the catalog and in the store until
\* somebody asks to delete it: no rollback of another upload, no transaction that
\* SQLite undoes, no failing call and no crash takes it away.
THEOREM BackupsStay == BackupSpec => []BackupsKept
<1>1. BackupInv => BackupsKept
  <2> SUFFICES ASSUME BackupInv, NEW f \in Files, story[f] = "kept"
               PROVE  f \in rows /\ Stored(f) /\ (up => f \in view /\ manifest[f] = content[f])
    BY DEF BackupsKept
  <2>1. f \in rows /\ f \in view /\ Entered(f)
    BY DEF BackupInv, ServiceInv, AllTold, Told
  <2>2. Needed(LoadedFile(f)) \subseteq blobs
    BY ServiceFacts DEF DurableInv, DurableFilesIntact
  <2> QED BY <2>1, <2>2 DEF Entered, Stored
<1> QED BY <1>1, BackupAlways, PTL

\* What delete_backup answered 200 for does not come back, from the catalog, from
\* the store, or from what a restart loads.
THEOREM DeletesLast == BackupSpec => []DeletedForGood
<1>1. BackupInv => DeletedForGood
  BY DEF BackupInv, ServiceInv, AllTold, Told, Left, DeletedForGood
<1> QED BY <1>1, BackupAlways, PTL

\* _persist_backup deletes the archive whose row SQLite did not take, delete_backup
\* the row whose archive is gone: between requests every archive has its row, and
\* every chunk on the backend belongs to an archive that has one, unless the store's
\* own calls were cut short; every row has its archive unless SQLite's were.
THEOREM NothingOrphaned == BackupSpec => []NoOrphans
<1>1. BackupInv => NoOrphans
  <2> SUFFICES ASSUME BackupInv, Undisturbed, req = Idling
               PROVE  /\ \A f \in Files : manifest[f] # None => f \in view
                      /\ blobs \subseteq UNION {Needed(manifest[f]) : f \in view}
                      /\ catalogFaults = 0 => \A f \in view : manifest[f] # None
    BY DEF NoOrphans
  <2>1. /\ faults = 0 /\ crashes = 0 /\ req.step = "idle" /\ req.id = None
        /\ Rowed /\ Filed /\ view \subseteq Files
    BY DEF Undisturbed, Idling, BackupInv, ServiceInv, ServiceTypes
  <2>2. ASSUME NEW f \in Files, manifest[f] # None
        PROVE  f \in view
    BY <2>1, <2>2 DEF Rowed, RowedOf, UploadSteps, BackupInv, ServiceInv, AllTold, Told
  <2>3. ASSUME NEW d \in blobs
        PROVE  d \in UNION {Needed(manifest[f]) : f \in view}
    <3>1. PICK f \in Files : d \in Needed(manifest[f])
      BY <2>3, CollectedAll DEF BackupInv, NoGarbage, Referenced
    <3>2. manifest[f] # None
      BY <3>1 DEF Needed
    <3> QED BY <2>2, <3>1, <3>2
  <2>4. catalogFaults = 0 => \A f \in view : manifest[f] # None
    BY <2>1, StoreAssumption DEF Filed, FiledOf
  <2> QED BY <2>2, <2>3, <2>4
<1> QED BY <1>1, BackupAlways, PTL

\* A backup that a client was promised keeps its row for as long as its archive
\* can be read: delete_backup never drops the row first, and what SQLite undoes or
\* a crash forgets is never the row of an archive that is still there.
THEOREM AlwaysDiscoverable == BackupSpec => []Discoverable
<1>1. BackupInv => Discoverable
  BY DEF BackupInv, ServiceInv, AllTold, Told, Discoverable
<1> QED BY <1>1, BackupAlways, PTL
===============================================================================
