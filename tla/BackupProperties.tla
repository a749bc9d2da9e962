--------------------------- MODULE BackupProperties ---------------------------
(* What the clients of the backup service may rely on, and what the service     *)
(* owes its disk.                                                               *)
EXTENDS BackupService

\* The service's state keeps its types, and while the store is in a call it is the
\* call that the handler waits for, on the backup of the request.
BackupTypeOK ==
  /\ TypeOK
  /\ rows \subseteq Files /\ view \subseteq Files
  /\ story \in [Files -> Stories]
  /\ content \in [Files -> Contents \cup {None}]
  /\ requests \in Nat /\ catalogFaults \in Nat
  /\ req.step = "idle" <=> req.id = None
  /\ Busy(Server) => /\ req.step \in DOMAIN StoreCall
                     /\ call[Server].op = StoreCall[req.step]
                     /\ call[Server].file = req.id

\* The archive of f is whole on the backend, and is what was uploaded.
Stored(f) == LoadedFile(f) = content[f] /\ Needed(LoadedFile(f)) \subseteq blobs

\* A backup whose upload was answered 200 and that nobody has asked to delete is in
\* the catalog and in the store, on the disk and as the service sees them, whatever
\* happens to other backups: uploads rolled back, failing commits, crashes.
BackupsKept ==
  \A f \in Files : story[f] = "kept" =>
    /\ f \in rows /\ Stored(f)
    /\ up => f \in view /\ manifest[f] = content[f]

\* Once a delete was answered 200 (delete_backup) the backup does not come back,
\* not by a transaction that SQLite rolls back and not by a restart.
DeletedForGood ==
  \A f \in Files : story[f] = "gone" => /\ f \notin rows \cup view
                                        /\ LoadedFile(f) = None /\ manifest[f] = None

\* "On catalog failure we delete the chunkstore entry to avoid orphaned blobs with
\* no catalog row" (main.py:77): whatever SQLite does, between requests every file
\* has its row, and every chunk on the backend belongs to a file that has one, as
\* long as the store's calls succeed; and as long as SQLite's do, every row has its
\* file.
NoOrphans ==
  Undisturbed /\ req = Idling =>
    /\ \A f \in Files : manifest[f] # None => f \in view
    /\ blobs \subseteq UNION {Needed(manifest[f]) : f \in view}
    /\ catalogFaults = 0 => \A f \in view : manifest[f] # None

\* "keep catalog so the id remains discoverable" (main.py:221): a backup that was
\* promised to a client keeps its row for as long as its archive can be read, at
\* every instant of a delete, whatever fails and wherever the process dies.
Discoverable ==
  \A f \in Files : story[f] \in {"kept", "doomed"} /\ LoadedFile(f) # None => f \in rows
===============================================================================
