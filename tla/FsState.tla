-------------------------------- MODULE FsState --------------------------------
(* The state of a directory that a filesystem backend keeps keys in, as the file *)
(* system sees it: names, the files they stand for, and what of both the disk    *)
(* has. Three backends share the layout: FsBackend (core/src/store/fs_backend.rs), *)
(* and FilesystemBackend in Go (go/chunkstore/backend.go) and in Python           *)
(* (python_src/chunkstore/backend.py).                                           *)
EXTENDS Integers, FiniteSets, Sequences

CONSTANTS
  Kinds,      \* which backends are looked at: "rust", "go", "python"
  Procs,      \* processes that have the directory open
  Threads,    \* threads that call the backend
  ProcOf,     \* [Threads -> Procs]
  Keys, Values, None,
  Torn,       \* the contents of a file that is not written in full
  Present,    \* what exists() answers of a key that is there
  MaxCalls, MaxFaults, MaxCrashes   \* bounds

ASSUME FsAssumption ==
  /\ IsFiniteSet(Threads) /\ ProcOf \in [Threads -> Procs]
  /\ Kinds \subseteq {"rust", "go", "python"}
  /\ Values \cap {None, Torn, Present} = {} /\ None \notin Keys
  /\ None # Torn /\ None # Present /\ Torn # Present
  /\ MaxCalls \in Nat /\ MaxFaults \in Nat /\ MaxCrashes \in Nat

VARIABLES
  kind,     \* the backend that is used; never changes
  files,    \* sequence of [data, synced]: every file created so far, by number
  link,     \* [Keys -> the number of the file that has the key's name, or 0]
  tmp,      \* [Keys \X numbers of puts -> the file named key.number.tmp, or 0]
  past,     \* [Keys -> files the name may stand for after a power loss]
  counter,  \* [Procs -> Nat]: WRITE_TMP_COUNTER
  call,     \* [Threads -> record]: the call each thread is in, see Idle
  mishaps,  \* what has happened that a backend with fixed temporary names, which
            \* does not sync, is not made for: "clash", "power"
  calls, faults, crashes

names  == <<link, tmp, past>>
bounds == <<calls, faults, crashes>>
vars   == <<kind, files, names, counter, call, mishaps, bounds>>

TmpNumbers == 0 .. MaxCalls

Idle == [pc |-> "idle", op |-> "none", key |-> None, value |-> None,
         file |-> 0,      \* put: the file it has created
         unique |-> 0,    \* put: the number in the name of its temporary file
         result |-> "none"]

Pcs == {"idle", "create", "write", "sync", "rename", "is_file", "read", "exists", "remove",
        "stat"}

\* The Rust backend numbers its temporary files; the others add ".tmp" to the name.
Numbered == kind = "rust"

\* The Rust backend syncs a file before it renames it.
Syncs == kind = "rust"

\* get and delete test before they act, and fail when the file has gone meanwhile;
\* in Go they act at once and take a missing file for an answer.
Tests == kind \in {"rust", "python"}

Busy(t)        == call[t].pc # "idle"
Become(t, r)   == call' = [call EXCEPT ![t] = r]
Goto(t, label) == Become(t, [call[t] EXCEPT !.pc = label])
Return(t, res, v) == Become(t, [Idle EXCEPT !.op = call[t].op, !.key = call[t].key,
                                            !.value = v, !.result = res])

\* What the key's name shows; 0 is no file.
Shown(i)   == IF i = 0 THEN None ELSE files[i].data
Visible(k) == Shown(link[k])

Empty == [data |-> Torn, synced |-> FALSE]

\* The key's name stands for file i from now on. Nothing syncs the directory, so
\* after a power loss it may again stand for what it did before.
Relink(k, i) == /\ link' = [link EXCEPT ![k] = i]
                /\ past' = [past EXCEPT ![k] = @ \cup {link[k]}]
===============================================================================
