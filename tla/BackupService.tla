----------------------------- MODULE BackupService -----------------------------
(* The handlers of examples/fastapi-backup/main.py, with the methods of          *)
(* BackupCatalog that they call.                                                *)
EXTENDS BackupState

-------------------------------------------------------------------------------
(* Plausible bugs: wrong forms of the definitions below that their comments     *)
(* name; no definition uses them.                                               *)

\* Committed: the commit is forgotten, the change stays in the open transaction.
CommittedNever == rows

\* StoreReturned: the handler goes on before the store's call has ended.
StoreReturnedEarly(step) == req.step = step

\* InsertFails: a failed insert leaves its archive in the store.
InsertFailsNoRollback ==
  /\ req.step \in {"insert", "commit"}
  /\ TransactionAfterError
  /\ Answered(req.id, "failed")
  /\ UNCHANGED <<vars, content, requests>>

\* DeleteRefused: an error of store.delete is swallowed, as in the rollback.
DeleteRefusedNever == FALSE

\* Delete: the row goes first.
DeleteRowFirst(f) ==
  /\ up /\ f \in view
  /\ Request(f, "delete")
  /\ BeginDelete(Server, f)
  /\ rows' = rows \ {f} /\ view' = view \ {f}
  /\ story' = [story EXCEPT ![f] = IF @ = "kept" THEN "doomed" ELSE @]
  /\ UNCHANGED <<content, catalogFaults>>

-------------------------------------------------------------------------------
(* Handlers                                                                     *)

\* commit writes what the open transaction holds, leftovers of failed requests too.
Committed == view

\* _persist_backup: a fresh UUID, then the store's ingest.
Persist(f, c) ==
  /\ up /\ story[f] = "free"
  /\ Request(f, "ingest")
  /\ BeginIngest(Server, f, c)
  /\ story' = [story EXCEPT ![f] = "sent"]
  /\ content' = [content EXCEPT ![f] = c]
  /\ UNCHANGED <<rows, view, catalogFaults>>

\* upload_backup: whatever was sent, packed unless its name says that it is packed.
Upload(f, c) == Persist(f, c)

\* scan_backup: a directory, packed; one without files is refused before this.
Scan(f, c) == c # <<>> /\ Persist(f, c)

\* The store's call that the handler waits for has returned; how it went.
StoreReturned(step) == req.step = step /\ ~Busy(Server)
StoreSaid           == call[Server].result

Ingested ==
  /\ StoreReturned("ingest")
  /\ IF StoreSaid = "ok" THEN Goes("insert") ELSE Answered(req.id, "failed")
  /\ UNCHANGED <<vars, rows, view, content, requests, catalogFaults>>

InsertRow ==
  /\ req.step = "insert"
  /\ view' = view \cup {req.id}
  /\ Goes("commit")
  /\ UNCHANGED <<vars, rows, content, requests, catalogFaults>>

CommitRow ==
  /\ req.step = "commit"
  /\ rows' = Committed
  /\ Answered(req.id, "kept")
  /\ UNCHANGED <<vars, view, content, requests, catalogFaults>>

\* catalog.insert raises: the archive is to be deleted again.
InsertFails ==
  /\ req.step \in {"insert", "commit"}
  /\ TransactionAfterError
  /\ BeginDelete(Server, req.id)
  /\ Goes("rollback")
  /\ UNCHANGED <<content, requests>>

\* 500, whether the rollback went well or not: its OSError is dropped.
RolledBack ==
  /\ StoreReturned("rollback")
  /\ Answered(req.id, "failed")
  /\ UNCHANGED <<vars, rows, view, content, requests, catalogFaults>>

\* delete_backup: 404 without a row (nothing changes), else the archive first.
Delete(f) ==
  /\ up /\ f \in view
  /\ Request(f, "delete")
  /\ BeginDelete(Server, f)
  /\ story' = [story EXCEPT ![f] = IF @ = "kept" THEN "doomed" ELSE @]
  /\ UNCHANGED <<rows, view, content, catalogFaults>>

\* 404 when the store could not delete the archive; the row stays.
DeleteRefused == StoreSaid = "err"

ArchiveDeleted ==
  /\ StoreReturned("delete")
  /\ IF DeleteRefused THEN Answered(req.id, story[req.id]) ELSE Goes("drop")
  /\ UNCHANGED <<vars, rows, view, content, requests, catalogFaults>>

DropRow ==
  /\ req.step = "drop"
  /\ view' = view \ {req.id}
  /\ Goes("commit_drop")
  /\ UNCHANGED <<vars, rows, content, requests, catalogFaults>>

CommitDrop ==
  /\ req.step = "commit_drop"
  /\ rows' = Committed
  /\ Answered(req.id, "gone")
  /\ UNCHANGED <<vars, view, content, requests, catalogFaults>>

\* Nobody catches what catalog.delete raises: 500.
DropFails ==
  /\ req.step \in {"drop", "commit_drop"}
  /\ TransactionAfterError
  /\ Answered(req.id, story[req.id])
  /\ UNCHANGED <<vars, content, requests>>

\* download_archive, download_backup: 404 without a row, else what the store reads.
Download(f) ==
  /\ up /\ f \in view
  /\ Request(f, "read")
  /\ BeginRead(Server, f)
  /\ UNCHANGED <<rows, view, story, content, catalogFaults>>

Downloaded ==
  /\ StoreReturned("read")
  /\ Answered(req.id, story[req.id])
  /\ UNCHANGED <<vars, rows, view, content, requests, catalogFaults>>

-------------------------------------------------------------------------------

\* The store goes on with the call the handler waits for, or a backend call fails.
StoreStep == /\ Step(Server) \/ Fail(Server)
             /\ UNCHANGED service

\* The process dies: SQLite drops the open transaction, the client has no answer.
ServiceCrash ==
  /\ Crash
  /\ view' = rows
  /\ req' = Idling
  /\ story' = [f \in Files |-> IF story[f] = "sent" THEN "failed" ELSE story[f]]
  /\ UNCHANGED <<rows, content, requests, catalogFaults>>

\* The module is loaded again: ChunkStore.open, then BackupCatalog.
Restart == Open /\ UNCHANGED service

ServiceRest == req = Idling /\ UNCHANGED backupVars

BackupInit ==
  /\ Init
  /\ rows = {} /\ view = {}
  /\ req = Idling
  /\ story = [f \in Files |-> "free"]
  /\ content = [f \in Files |-> None]
  /\ requests = 0 /\ catalogFaults = 0

BackupNext ==
  \/ \E f \in Files : \/ \E c \in Contents : Upload(f, c) \/ Scan(f, c)
                      \/ Delete(f) \/ Download(f)
  \/ Ingested \/ InsertRow \/ CommitRow \/ InsertFails \/ RolledBack
  \/ ArchiveDeleted \/ DropRow \/ CommitDrop \/ DropFails
  \/ Downloaded
  \/ StoreStep
  \/ ServiceCrash \/ Restart
  \/ ServiceRest

BackupSpec == BackupInit /\ [][BackupNext]_backupVars
===============================================================================
