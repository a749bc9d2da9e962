------------------------------- MODULE FsBackend -------------------------------
(* The operations of the filesystem backends. Each action is one system call,   *)
(* between which another thread or process, an error, a crash or a power loss   *)
(* can come in. Directories are left out: a key is a plain name, and no key is  *)
(* the name of another's temporary file.                                        *)
EXTENDS FsState

-------------------------------------------------------------------------------
(* Plausible bugs: wrong forms of the definitions below that their comments     *)
(* name; PROJECT.json says which property of which run notices each. No         *)
(* definition uses them.                                                        *)

\* NextUnique: the number is read, and never moves on.
NextUniqueStuck(p) == counter[p]

\* PutWrite: sync_all is left out.
PutWriteUnsynced(t) ==
  /\ call[t].pc = "write"
  /\ files' = [files EXCEPT ![call[t].file] = [data |-> call[t].value, synced |-> FALSE]]
  /\ Goto(t, "rename")
  /\ UNCHANGED <<kind, names, counter, mishaps, bounds>>

\* PutRename: the new name is linked and the temporary one is left.
PutRenameLink(t) ==
  LET k == call[t].key IN
  /\ call[t].pc = "rename"
  /\ Relink(k, tmp[<<k, call[t].unique>>])
  /\ Return(t, "ok", None)
  /\ UNCHANGED <<kind, files, tmp, counter, mishaps, bounds>>

\* DeleteExists: the condition is inverted.
DeleteExistsInverted(t) ==
  /\ call[t].pc = "exists"
  /\ IF link[call[t].key] # 0 THEN Return(t, "ok", None) ELSE Goto(t, "remove")
  /\ UNCHANGED <<kind, files, names, counter, mishaps, bounds>>

-------------------------------------------------------------------------------
(* put: write_atomic                                                            *)

\* WRITE_TMP_COUNTER.fetch_add, a counter of the process.
NextUnique(p) == counter[p] + 1

\* Another put has the temporary file open that a put of k opens now.
Clashes(t, k) ==
  ~Numbered /\ \E u \in Threads \ {t} : call[u].pc \in {"write", "rename"} /\ call[u].key = k

\* File::create empties the file if the name is taken; os.WriteFile and write_bytes
\* begin in the same way.
PutCreate(t) ==
  LET k == call[t].key
      n == IF Numbered THEN counter[ProcOf[t]] ELSE 0
      i == IF tmp[<<k, n>>] = 0 THEN Len(files) + 1 ELSE tmp[<<k, n>>]
  IN
  /\ call[t].pc = "create"
  /\ counter' = IF Numbered THEN [counter EXCEPT ![ProcOf[t]] = NextUnique(ProcOf[t])]
                            ELSE counter
  /\ files' = IF tmp[<<k, n>>] = 0 THEN Append(files, Empty) ELSE [files EXCEPT ![i] = Empty]
  /\ tmp' = [tmp EXCEPT ![<<k, n>>] = i]
  /\ Become(t, [call[t] EXCEPT !.pc = "write", !.file = i, !.unique = n])
  /\ mishaps' = IF Clashes(t, k) THEN mishaps \cup {"clash"} ELSE mishaps
  /\ UNCHANGED <<kind, link, past, bounds>>

PutWrite(t) ==
  /\ call[t].pc = "write"
  /\ files' = [files EXCEPT ![call[t].file] = [data |-> call[t].value, synced |-> FALSE]]
  /\ Goto(t, IF Syncs THEN "sync" ELSE "rename")
  /\ UNCHANGED <<kind, names, counter, mishaps, bounds>>

PutSync(t) ==
  /\ call[t].pc = "sync"
  /\ files' = [files EXCEPT ![call[t].file].synced = TRUE]
  /\ Goto(t, "rename")
  /\ UNCHANGED <<kind, names, counter, mishaps, bounds>>

\* rename moves whatever file has the temporary name by now, and fails if none has.
PutRename(t) ==
  LET k == call[t].key
      n == call[t].unique
  IN
  /\ call[t].pc = "rename"
  /\ IF tmp[<<k, n>>] = 0
       THEN /\ Return(t, "err", None)
            /\ UNCHANGED names
       ELSE /\ Relink(k, tmp[<<k, n>>])
            /\ tmp' = [tmp EXCEPT ![<<k, n>>] = 0]
            /\ Return(t, "ok", None)
  /\ UNCHANGED <<kind, files, counter, mishaps, bounds>>

-------------------------------------------------------------------------------
(* get and delete: a test, then the call that may find the file gone            *)

\* What becomes of a get or a delete whose file is not there when it acts.
Missing == IF Tests THEN "err" ELSE "ok"

GetIsFile(t) ==
  /\ call[t].pc = "is_file"
  /\ IF link[call[t].key] = 0 THEN Return(t, "ok", None) ELSE Goto(t, "read")
  /\ UNCHANGED <<kind, files, names, counter, mishaps, bounds>>

GetRead(t) ==
  /\ call[t].pc = "read"
  /\ IF link[call[t].key] = 0 THEN Return(t, Missing, None)
                              ELSE Return(t, "ok", Visible(call[t].key))
  /\ UNCHANGED <<kind, files, names, counter, mishaps, bounds>>

DeleteExists(t) ==
  /\ call[t].pc = "exists"
  /\ IF link[call[t].key] = 0 THEN Return(t, "ok", None) ELSE Goto(t, "remove")
  /\ UNCHANGED <<kind, files, names, counter, mishaps, bounds>>

DeleteRemove(t) ==
  /\ call[t].pc = "remove"
  /\ IF link[call[t].key] = 0
       THEN Return(t, Missing, None) /\ UNCHANGED names
       ELSE /\ Relink(call[t].key, 0)
            /\ Return(t, "ok", None)
            /\ UNCHANGED tmp
  /\ UNCHANGED <<kind, files, counter, mishaps, bounds>>

Exists(t) ==
  /\ call[t].pc = "stat"
  /\ Return(t, "ok", IF link[call[t].key] = 0 THEN None ELSE Present)
  /\ UNCHANGED <<kind, files, names, counter, mishaps, bounds>>

-------------------------------------------------------------------------------
(* Calls begin, fail, and are cut short                                         *)

Begin(t, op, k, v, label) ==
  /\ ~Busy(t) /\ calls < MaxCalls
  /\ Become(t, [Idle EXCEPT !.pc = label, !.op = op, !.key = k, !.value = v])
  /\ calls' = calls + 1
  /\ UNCHANGED <<kind, files, names, counter, mishaps, faults, crashes>>

BeginCall(t) ==
  \E k \in Keys : \/ \E v \in Values : Begin(t, "put", k, v, "create")
                  \/ Begin(t, "get", k, None, IF Tests THEN "is_file" ELSE "read")
                  \/ Begin(t, "delete", k, None, IF Tests THEN "exists" ELSE "remove")
                  \/ Begin(t, "exists", k, None, "stat")

\* A system call fails without effect. put leaves its temporary file. is_file()
\* and exists() do not fail, they say FALSE; os.Stat does.
FsFail(t) ==
  LET p == ProcOf[t] IN
  /\ \/ call[t].pc \in {"create", "write", "sync", "rename", "read", "remove"}
     \/ call[t].pc = "stat" /\ kind = "go"
  /\ faults < MaxFaults
  /\ Return(t, "err", None)
  /\ counter' = IF Numbered /\ call[t].pc = "create"
                THEN [counter EXCEPT ![p] = NextUnique(p)] ELSE counter
  /\ faults' = faults + 1
  /\ UNCHANGED <<kind, files, names, mishaps, calls, crashes>>

\* A process dies and is started again: it counts from 0.
FsCrash(p) ==
  /\ crashes < MaxCrashes
  /\ counter' = [counter EXCEPT ![p] = 0]
  /\ call' = [t \in Threads |-> IF ProcOf[t] = p THEN Idle ELSE call[t]]
  /\ crashes' = crashes + 1
  /\ UNCHANGED <<kind, files, names, mishaps, calls, faults>>

\* The machine loses power. What was not synced may be torn, and a name may stand
\* for what it stood for before.
PowerLoss ==
  /\ crashes < MaxCrashes
  /\ \E torn \in SUBSET {i \in DOMAIN files : ~files[i].synced} :
       /\ mishaps' = IF Syncs \/ torn = {} THEN mishaps ELSE mishaps \cup {"power"}
       /\ files' = [i \in DOMAIN files |->
                      [data |-> IF i \in torn THEN Torn ELSE files[i].data, synced |-> TRUE]]
  /\ link' \in [Keys -> 0 .. Len(files)]
  /\ \A k \in Keys : link'[k] \in past[k] \cup {link[k]}
  /\ past' = [k \in Keys |-> {}]
  /\ \E gone \in SUBSET {x \in Keys \X TmpNumbers : tmp[x] # 0} :
       tmp' = [x \in Keys \X TmpNumbers |-> IF x \in gone THEN 0 ELSE tmp[x]]
  /\ counter' = [p \in Procs |-> 0]
  /\ call' = [t \in Threads |-> Idle]
  /\ crashes' = crashes + 1
  /\ UNCHANGED <<kind, calls, faults>>

-------------------------------------------------------------------------------

FsInit ==
  /\ kind \in Kinds
  /\ files = <<>>
  /\ link = [k \in Keys |-> 0]
  /\ tmp = [x \in Keys \X TmpNumbers |-> 0]
  /\ past = [k \in Keys |-> {}]
  /\ counter = [p \in Procs |-> 0]
  /\ call = [t \in Threads |-> Idle]
  /\ mishaps = {}
  /\ calls = 0 /\ faults = 0 /\ crashes = 0

FsStep(t) ==
  \/ PutCreate(t) \/ PutWrite(t) \/ PutSync(t) \/ PutRename(t)
  \/ GetIsFile(t) \/ GetRead(t) \/ DeleteExists(t) \/ DeleteRemove(t)
  \/ Exists(t)

Rest == (\A t \in Threads : ~Busy(t)) /\ UNCHANGED vars

FsNext ==
  \/ \E t \in Threads : BeginCall(t) \/ FsStep(t) \/ FsFail(t)
  \/ \E p \in Procs : FsCrash(p)
  \/ PowerLoss
  \/ Rest

FsSpec == FsInit /\ [][FsNext]_vars
===============================================================================
