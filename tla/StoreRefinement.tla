---------------------------- MODULE StoreRefinement ----------------------------
(* ChunkStore implements FileStore. Two mappings, for the two places a file can *)
(* be looked for: the manifest in memory, which readers of a running store see, *)
(* and the records on the backend, which is what survives a crash.              *)
EXTENDS StoreProperties

\* An ingest is answered at the instant its file appears: before that it stores
\* chunks, after it it only saves and releases.
InMemoryDone(t) ==
  CASE call[t].op = "ingest" -> ~Uncommitted(t)
    [] call[t].op = "delete" -> call[t].pc # "remove"
    [] call[t].op = "read"   -> call[t].pc # "lookup"
    [] OTHER                 -> ~Busy(t)

OnBackendDone(t) ==
  CASE call[t].op = "ingest" ->
         /\ ~Uncommitted(t)
         /\ call[t].pc \notin {"save_manifest", "man_index_put"}
         /\ call[t].pc = "man_index_get" => call[t].file \in midx
    [] call[t].op = "delete" -> call[t].pc \notin {"remove", "remove_manifest"}
    [] call[t].op = "read"   -> call[t].pc # "lookup"
    [] OTHER                 -> ~Busy(t)

\* The request a thread's call stands for, given whether it has taken effect.
\* Once it has, the caller can only be told "ok": a later error would show as a
\* step that FileStore does not have.
RequestOf(t, answered) ==
  [op      |-> call[t].op,
   file    |-> call[t].file,
   phase   |-> IF answered THEN "answered" ELSE "called",
   result  |-> CASE ~answered -> "none"
                 [] answered /\ Busy(t) -> "ok"
                 [] OTHER -> call[t].result,
   content |-> CASE call[t].op = "ingest" /\ ~answered -> call[t].new
                 [] call[t].op = "read" /\ answered -> call[t].new
                 [] OTHER -> <<>>]

InMemory == INSTANCE FileStore WITH
  files <- manifest,
  req   <- [t \in Threads |-> RequestOf(t, InMemoryDone(t))]

OnBackend == INSTANCE FileStore WITH
  files <- [f \in Files |-> LoadedFile(f)],
  req   <- [t \in Threads |-> RequestOf(t, OnBackendDone(t))]

\* Concurrent calls on a running store are linearizable: each takes effect once,
\* at one instant, and fails only when there is no such file or no id.
Linearizable == InMemory!FSSpec

\* The same of a store on which calls are cut short: the step that ends a call with
\* an error may be any, every other step is one of FileStore.
LinearizableUncut == InMemory!FSInit /\ [][faults' = faults => InMemory!FSStep]_vars

\* A crash leaves every file as it was before or after the call it interrupts,
\* and a call that has returned "ok" survives it. A backend call that fails may
\* end the call with an error after the file has changed; until then it holds.
CrashAtomic == OnBackend!FSInit /\ [][faults' = 0 => OnBackend!FSStep]_vars
===============================================================================
