------------------------------ MODULE BackupState -----------------------------
(* The backup service (examples/fastapi-backup): archives in a ChunkStore and   *)
(* one row per archive in an SQLite catalog, changed one after the other.       *)
(*                                                                              *)
(* A backup's id is the file id of its archive; an archive may be empty, as an  *)
(* upload whose name ends in .gz is stored as it is. Handlers are coroutines    *)
(* that call the store and the catalog without awaiting, so requests run one at *)
(* a time, on the event loop's thread: what comes in between two steps is a     *)
(* failing call of the store or of SQLite, or the death of the process.         *)
EXTENDS StoreProperties

CONSTANTS
  Server,            \* the event loop's thread, the store's only caller
  MaxRequests,       \* bound: requests made in a behaviour
  MaxCatalogFaults   \* bound: statements and commits that fail

ASSUME BackupAssumption ==
  /\ Threads = {Server}
  /\ Ops = {"create", "delete", "read"}
  /\ MaxRequests \in Nat /\ MaxCatalogFaults \in Nat
  /\ MaxCalls >= 2 * MaxRequests   \* an upload ingests and may roll back

VARIABLES
  rows,     \* ids committed in the catalog's file
  view,     \* ids the catalog's one connection sees: rows and its open transaction
  req,      \* [step, id]: the request being handled; step names what comes next
  story,    \* [Files -> what clients were told of a backup], see Stories
  content,  \* [Files -> Contents \cup {None}]: what was uploaded
  requests, catalogFaults

service     == <<rows, view, req, story, content, requests, catalogFaults>>
backupVars  == <<vars, service>>

\* "sent": uploading; "failed": its upload was answered with an error; "kept": its
\* upload was answered 200; "doomed": then somebody asked to delete it; "gone": a
\* delete was answered 200.
Stories == {"free", "sent", "failed", "kept", "doomed", "gone"}

Idling == [step |-> "idle", id |-> None]

\* The steps at which the handler is inside a call of the store, and which call.
StoreCall == [ingest |-> "ingest", rollback |-> "delete", delete |-> "delete",
              read |-> "read"]

-------------------------------------------------------------------------------
(* The catalog: one connection on an SQLite file. execute opens a transaction   *)
(* if none is open; commit writes whatever the open transaction holds.          *)

\* execute or commit raises. SQLite keeps the transaction open when the file is
\* busy, with the changes of its earlier statements; other errors roll it back.
TransactionAfterError ==
  /\ catalogFaults < MaxCatalogFaults
  /\ catalogFaults' = catalogFaults + 1
  /\ view' \in {view, rows}
  /\ UNCHANGED rows

-------------------------------------------------------------------------------
(* What the steps of a handler do to its request.                               *)

Answered(f, told) == /\ req' = Idling
                     /\ story' = [story EXCEPT ![f] = told]

Goes(step) == /\ req' = [req EXCEPT !.step = step]
              /\ UNCHANGED story

Request(f, step) ==
  /\ req = Idling /\ requests < MaxRequests
  /\ req' = [step |-> step, id |-> f]
  /\ requests' = requests + 1
===============================================================================
