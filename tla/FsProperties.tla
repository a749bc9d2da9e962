------------------------------ MODULE FsProperties ------------------------------
(* What must hold of the filesystem backends.                                   *)
EXTENDS FsBackend

FsRecords == [pc : Pcs, op : {"none", "put", "get", "delete", "exists"},
              key : Keys \cup {None},
              value : Values \cup {None, Torn, Present}, file : Nat, unique : TmpNumbers,
              result : {"none", "ok", "err"}]

\* The state keeps its types, and a put that has its temporary file open has taken
\* its number from the counter, so that no later put of the process gets the same.
FsTypeOK ==
  /\ kind \in Kinds
  /\ mishaps \subseteq (IF Numbered THEN {} ELSE {"clash", "power"})
  /\ files \in Seq([data : Values \cup {Torn}, synced : BOOLEAN])
  /\ link \in [Keys -> 0 .. Len(files)]
  /\ tmp \in [Keys \X TmpNumbers -> 0 .. Len(files)]
  /\ past \in [Keys -> SUBSET (0 .. Len(files))]
  /\ counter \in [Procs -> TmpNumbers]
  /\ call \in [Threads -> FsRecords]
  /\ \A t \in Threads : call[t].pc \in {"write", "sync", "rename"} =>
       /\ call[t].file \in DOMAIN files
       /\ Numbered => call[t].unique < counter[ProcOf[t]]
  /\ calls \in Nat /\ faults \in Nat /\ crashes \in Nat

\* A key never shows a file that is not written in full: not to a reader in the
\* middle of a put, not after a crash, and not after a power loss, when it could
\* never be repaired, because store_chunk does not write a chunk that exists. In Go
\* and Python this holds as long as no two puts of one key overlap and no power
\* loss catches a file on its way to the disk.
KeysWhole == mishaps = {} => \A k \in Keys : Visible(k) # Torn

\* Puts that ran to their end leave no temporary file behind.
NoLeftovers ==
  (\A t \in Threads : ~Busy(t)) /\ faults = 0 /\ crashes = 0
    => \A x \in Keys \X TmpNumbers : tmp[x] = 0

RequestOf(t) ==
  [op |-> call[t].op, key |-> call[t].key, value |-> call[t].value,
   phase |-> IF Busy(t) THEN "called" ELSE "answered", result |-> call[t].result]

Map == INSTANCE KeyValue WITH
  map  <- [k \in Keys |-> Visible(k)],
  past <- [k \in Keys |-> {Shown(i) : i \in past[k]}],
  req  <- [t \in Threads |-> RequestOf(t)]

\* A backend is a map: calls are linearizable, a call that fails has done nothing,
\* and a power loss brings back at most an earlier value; under the same exceptions
\* for Go and Python.
FsIsMap == Map!KVInit /\ [][mishaps' = {} => Map!KVStep]_vars
===============================================================================
