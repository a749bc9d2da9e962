------------------------------- MODULE FsProofs -------------------------------
(* Theorems about the filesystem backends for every number of processes and      *)
(* threads, every set of keys and values and every value of the bounds.          *)
EXTENDS FsProperties, FiniteSetTheorems, TLAPS

OpenPcs == {"write", "sync", "rename"}

-------------------------------------------------------------------------------
(* What is known of a call from the step it is at, and of the numbers of puts.   *)

FsWellFormed(c) ==
  /\ c.pc # "idle" => c.key \in Keys /\ c.result = "none"
  /\ c.pc \in OpenPcs \cup {"create"} => c.op = "put" /\ c.value \in Values
  /\ c.pc \in {"is_file", "read"} => c.op = "get"
  /\ c.pc \in {"exists", "remove"} => c.op = "delete"
  /\ c.pc = "stat" => c.op = "exists"

Creating(p) == {t \in Threads : ProcOf[t] = p /\ call[t].pc = "create"}

\* Every number that a process has handed out, or will hand out to a put that has
\* begun, was asked for by a call: the numbers never run out.
Counted ==
  /\ calls <= MaxCalls
  /\ Numbered => \A p \in Procs : counter[p] + Cardinality(Creating(p)) <= calls

FsInv ==
  /\ FsTypeOK /\ Counted
  /\ \A t \in Threads : FsWellFormed(call[t]) /\ (call[t].pc = "sync" => Syncs)

-------------------------------------------------------------------------------
(* What a put in progress and the temporary files have to do with each other.    *)

Open(t) == call[t].pc \in OpenPcs
Temp(t) == <<call[t].key, call[t].unique>>

\* A temporary file that no put has open was left by a failure.
Attended ==
  faults = 0 /\ crashes = 0 =>
    \A x \in Keys \X TmpNumbers : tmp[x] # 0 => \E t \in Threads : Open(t) /\ Temp(t) = x

-------------------------------------------------------------------------------
(* Types                                                                         *)

Held(c, p) ==
  /\ c.pc \in OpenPcs => c.file \in DOMAIN files /\ (Numbered => c.unique < counter[p])
  /\ c.pc = "sync" => Syncs

CallsOK == /\ call \in [Threads -> FsRecords]
           /\ \A t \in Threads : FsWellFormed(call[t]) /\ Held(call[t], ProcOf[t])

\* The variables other than call and counter.
PlacesOK ==
  /\ kind \in Kinds
  /\ mishaps \subseteq (IF Numbered THEN {} ELSE {"clash", "power"})
  /\ files \in Seq([data : Values \cup {Torn}, synced : BOOLEAN])
  /\ link \in [Keys -> 0 .. Len(files)]
  /\ tmp \in [Keys \X TmpNumbers -> 0 .. Len(files)]
  /\ past \in [Keys -> SUBSET (0 .. Len(files))]
  /\ calls \in Nat /\ faults \in Nat /\ crashes \in Nat

NumbersOK == CallsOK /\ counter \in [Procs -> TmpNumbers] /\ Counted

LEMMA FsInvParts == FsInv <=> CallsOK /\ NumbersOK /\ PlacesOK
BY DEF FsInv, FsTypeOK, CallsOK, NumbersOK, PlacesOK, Held, OpenPcs

LEMMA IdleType == Idle \in FsRecords /\ FsWellFormed(Idle) /\ Idle.pc = "idle"
BY FsAssumption DEF Idle, FsRecords, FsWellFormed, Pcs, TmpNumbers, OpenPcs

LEMMA CreatingFinite ==
  ASSUME NEW p PROVE IsFiniteSet(Creating(p)) /\ Cardinality(Creating(p)) \in Nat
<1>1. Creating(p) \subseteq Threads
  BY DEF Creating
<1> QED BY <1>1, FsAssumption, FS_Subset, FS_CardinalityType

\* A call that moves on within its put, or ends it, asks for no further number;
\* one that asked for its number is no longer among those that will.
LEMMA Asked ==
  ASSUME FsInv, NEW t \in Threads, NEW r \in FsRecords, Become(t, r), r.pc # "create",
         NEW p \in Procs
  PROVE  /\ Cardinality(Creating(p))' <= Cardinality(Creating(p))
         /\ call[t].pc = "create" /\ ProcOf[t] = p =>
              Cardinality(Creating(p))' + 1 = Cardinality(Creating(p))
<1>1. Creating(p)' = Creating(p) \ {t}
  BY DEF Creating, Become, FsInv, FsTypeOK
<1>2. Cardinality(Creating(p) \ {t}) <= Cardinality(Creating(p))
  BY CreatingFinite, FS_Subset, Creating(p) \ {t} \subseteq Creating(p)
<1>3. ASSUME call[t].pc = "create", ProcOf[t] = p
      PROVE  Cardinality(Creating(p) \ {t}) + 1 = Cardinality(Creating(p))
  <2>1. t \in Creating(p)
    BY <1>3 DEF Creating
  <2>2. Cardinality(Creating(p) \ {t}) = Cardinality(Creating(p)) - 1
    BY <2>1, CreatingFinite, FS_RemoveElement
  <2> QED BY <2>2, CreatingFinite
<1> QED BY <1>1, <1>2, <1>3

\* A call moves on or returns, and hands out no number.
LEMMA Moves ==
  ASSUME FsInv, NEW t \in Threads, NEW r \in FsRecords, FsWellFormed(r), Become(t, r),
         r.pc # "create", Held(r, ProcOf[t]), UNCHANGED <<kind, counter, calls>>,
         DOMAIN files' = DOMAIN files
  PROVE  NumbersOK'
<1>1. CallsOK'
  BY FsInvParts DEF CallsOK, Become, Held, Numbered, Syncs
<1>2. Counted'
  <2>1. SUFFICES ASSUME Numbered, NEW p \in Procs
                 PROVE  counter[p] + Cardinality(Creating(p))' <= calls
    BY DEF Counted, FsInv, Numbered
  <2>2. Cardinality(Creating(p))' <= Cardinality(Creating(p))
    BY Asked
  <2>3. Cardinality(Creating(p))' \in Nat
    <3>1. Creating(p)' \subseteq Threads
      BY DEF Creating
    <3> QED BY <3>1, FsAssumption, FS_Subset, FS_CardinalityType
  <2>4. counter[p] \in Nat /\ calls \in Nat /\ counter[p] + Cardinality(Creating(p)) <= calls
    BY <2>1 DEF FsInv, FsTypeOK, Counted, TmpNumbers
  <2> QED BY <2>2, <2>3, <2>4, CreatingFinite
<1> QED BY <1>1, <1>2 DEF FsInv, FsTypeOK, NumbersOK

LEMMA MovesTo ==
  ASSUME FsInv, NEW t \in Threads, NEW label \in Pcs \ {"create"}, Goto(t, label),
         FsWellFormed([call[t] EXCEPT !.pc = label]),
         label \in OpenPcs => call[t].pc \in OpenPcs /\ (label = "sync" => Syncs),
         UNCHANGED <<kind, counter, calls>>, DOMAIN files' = DOMAIN files
  PROVE  NumbersOK'
<1> DEFINE r == [call[t] EXCEPT !.pc = label]
<1>1. call[t] \in FsRecords /\ Held(call[t], ProcOf[t])
  BY FsInvParts DEF CallsOK
<1>2. r \in FsRecords /\ r.pc = label /\ r.file = call[t].file /\ r.unique = call[t].unique
  BY <1>1 DEF FsRecords
<1>3. Held(r, ProcOf[t])
  BY <1>1, <1>2 DEF Held, OpenPcs
<1> QED BY <1>2, <1>3, Moves DEF Goto

LEMMA ReturnType ==
  ASSUME FsInv, NEW t \in Threads, NEW res \in {"ok", "err"},
         NEW v \in Values \cup {None, Torn, Present}, Return(t, res, v)
  PROVE  \E r \in FsRecords : FsWellFormed(r) /\ Become(t, r) /\ r.pc = "idle"
<1> DEFINE r == [Idle EXCEPT !.op = call[t].op, !.key = call[t].key, !.value = v,
                             !.result = res]
<1>1. call[t] \in FsRecords
  BY FsInvParts DEF CallsOK
<1>2. r \in FsRecords /\ r.pc = "idle"
  BY <1>1, IdleType DEF FsRecords
<1>3. FsWellFormed(r)
  BY <1>2 DEF FsWellFormed, OpenPcs
<1> QED BY <1>2, <1>3 DEF Return

LEMMA Ends ==
  ASSUME FsInv, NEW t \in Threads, NEW res \in {"ok", "err"},
         NEW v \in Values \cup {None, Torn, Present}, Return(t, res, v),
         UNCHANGED <<kind, counter, calls>>, DOMAIN files' = DOMAIN files
  PROVE  NumbersOK'
<1>1. PICK r \in FsRecords : FsWellFormed(r) /\ Become(t, r) /\ r.pc = "idle"
  BY ReturnType
<1>2. Held(r, ProcOf[t])
  BY <1>1 DEF Held, OpenPcs
<1> QED BY <1>1, <1>2, Moves

LEMMA RelinkType ==
  ASSUME PlacesOK, NEW k \in Keys, NEW i \in 0 .. Len(files), Relink(k, i)
  PROVE  /\ link' \in [Keys -> 0 .. Len(files)]
         /\ past' \in [Keys -> SUBSET (0 .. Len(files))]
BY DEF PlacesOK, Relink

LEMMA Member == ASSUME NEW S, NEW s \in Seq(S), NEW i \in DOMAIN s PROVE s[i] \in S
OBVIOUS

LEMMA IsSeq == ASSUME NEW S, NEW n \in Nat, NEW s \in [1 .. n -> S]
               PROVE  s \in Seq(S) /\ Len(s) = n
OBVIOUS

LEMMA FileType ==
  ASSUME PlacesOK, NEW i \in DOMAIN files
  PROVE  files[i] \in [data : Values \cup {Torn}, synced : BOOLEAN]
BY Member DEF PlacesOK

LEMMA VisibleType ==
  ASSUME PlacesOK, NEW k \in Keys
  PROVE  Visible(k) \in Values \cup {None, Torn}
<1>1. link[k] = 0 \/ link[k] \in DOMAIN files
  BY DEF PlacesOK
<1> QED BY <1>1, FileType DEF Visible, Shown

LEMMA CreateType ==
  ASSUME FsInv, NEW t \in Threads, PutCreate(t)
  PROVE  NumbersOK' /\ PlacesOK'
<1> DEFINE c == call[t]
           k == c.key
           n == IF Numbered THEN counter[ProcOf[t]] ELSE 0
           x == <<k, n>>
           i == IF tmp[x] = 0 THEN Len(files) + 1 ELSE tmp[x]
           r == [c EXCEPT !.pc = "write", !.file = i, !.unique = n]
<1>1. /\ c \in FsRecords /\ c.pc = "create" /\ k \in Keys /\ c.op = "put"
      /\ c.value \in Values /\ c.result = "none"
      /\ NumbersOK /\ PlacesOK /\ CallsOK /\ Counted
  BY FsInvParts DEF CallsOK, FsWellFormed, PutCreate, NumbersOK
<1>2. n \in TmpNumbers /\ x \in Keys \X TmpNumbers
  BY <1>1, FsAssumption DEF NumbersOK, TmpNumbers
<1>3. i \in 1 .. Len(files) + 1 /\ (tmp[x] = 0 => i = Len(files) + 1)
      /\ (tmp[x] # 0 => i = tmp[x] /\ i \in 1 .. Len(files))
  BY <1>1, <1>2 DEF PlacesOK
<1>4. Become(t, r) /\ tmp' = [tmp EXCEPT ![x] = i]
      /\ files' = IF tmp[x] = 0 THEN Append(files, Empty) ELSE [files EXCEPT ![i] = Empty]
  BY DEF PutCreate
<1> HIDE DEF n, x, i
<1>5. r \in FsRecords /\ FsWellFormed(r)
  <2>1. i \in Nat
    BY <1>1, <1>3 DEF PlacesOK
  <2>2. r \in FsRecords /\ r.pc = "write" /\ r.key = k /\ r.value = c.value /\ r.op = c.op
        /\ r.result = c.result
    BY <1>1, <1>2, <2>1 DEF FsRecords, Pcs
  <2> QED BY <1>1, <2>2 DEF FsWellFormed, OpenPcs
<1>6. /\ files' \in Seq([data : Values \cup {Torn}, synced : BOOLEAN])
      /\ Len(files') >= Len(files) /\ Len(files') \in Nat /\ i \in 1 .. Len(files')
  <2>1. Empty \in [data : Values \cup {Torn}, synced : BOOLEAN]
    BY DEF Empty
  <2>2. files \in Seq([data : Values \cup {Torn}, synced : BOOLEAN]) /\ Len(files) \in Nat
    BY <1>1 DEF PlacesOK
  <2>3. CASE tmp[x] = 0
    BY <1>3, <1>4, <2>1, <2>2, <2>3
  <2>4. CASE tmp[x] # 0
    <3>1. files' = [files EXCEPT ![i] = Empty]
      BY <1>4, <2>4
    <3> QED BY <1>3, <2>1, <2>2, <2>4, <3>1
  <2> QED BY <2>3, <2>4
<1>7. counter' \in [Procs -> TmpNumbers] /\ Counted'
      /\ (Numbered => counter' = [counter EXCEPT ![ProcOf[t]] = @ + 1] /\ n = counter[ProcOf[t]])
      /\ (~Numbered => counter' = counter)
  <2>1. CASE Numbered
    <3> DEFINE p == ProcOf[t]
    <3>1. p \in Procs /\ counter' = [counter EXCEPT ![p] = counter[p] + 1] /\ n = counter[p]
          /\ calls' = calls /\ kind' = kind
      BY <2>1, FsAssumption DEF PutCreate, NextUnique, n, bounds
    <3>2. /\ counter[p] \in Nat /\ calls \in Nat /\ calls <= MaxCalls
          /\ \A q \in Procs : counter[q] \in Nat /\ counter[q] + Cardinality(Creating(q)) <= calls
      BY <1>1, <2>1, <3>1, FsAssumption DEF NumbersOK, Counted, PlacesOK, TmpNumbers
    <3>3. \A q \in Procs : /\ Cardinality(Creating(q))' <= Cardinality(Creating(q))
                           /\ q = p => Cardinality(Creating(q))' + 1 = Cardinality(Creating(q))
      <4>1. r.pc # "create" /\ r \in FsRecords /\ c.pc = "create"
        BY <1>1, <1>5 DEF FsRecords
      <4> HIDE DEF r
      <4> QED BY <1>4, <4>1, Asked
    <3>4. \A q \in Procs : Cardinality(Creating(q)) \in Nat /\ Cardinality(Creating(q))' \in Nat
      <4>1. \A q \in Procs : Creating(q)' \subseteq Threads
        BY DEF Creating
      <4> QED BY <4>1, CreatingFinite, FsAssumption, FS_Subset, FS_CardinalityType
    <3>5. counter[p] + 1 <= calls
      BY <3>1, <3>2, <3>3, <3>4
    <3>6. counter' \in [Procs -> TmpNumbers]
      BY <1>1, <3>1, <3>2, <3>5, FsAssumption DEF NumbersOK, TmpNumbers
    <3>7. \A q \in Procs : counter'[q] + Cardinality(Creating(q))' <= calls
      BY <1>1, <3>1, <3>2, <3>3, <3>4 DEF NumbersOK
    <3> QED BY <2>1, <3>1, <3>2, <3>6, <3>7 DEF Counted
  <2>2. CASE ~Numbered
    BY <1>1, <2>2 DEF PutCreate, NumbersOK, Counted, Numbered, bounds
  <2> QED BY <2>1, <2>2
<1>8. CallsOK'
  <2>1. kind' = kind
    BY DEF PutCreate
  <2>2. ASSUME NEW u \in Threads PROVE FsWellFormed(call[u])' /\ Held(call[u], ProcOf[u])'
    <3>1. CASE u = t
      <4>1. Numbered => n < counter'[ProcOf[t]]
        BY <1>1, <1>2, <1>7, FsAssumption DEF NumbersOK, TmpNumbers
      <4>2. call'[u] = r
        BY <1>1, <1>4, <3>1 DEF Become, CallsOK
      <4>3. r.file \in DOMAIN files' /\ r.unique = n /\ r.pc = "write"
        BY <1>1, <1>6 DEF FsRecords
      <4> QED BY <1>5, <2>1, <3>1, <4>1, <4>2, <4>3 DEF Held, Numbered, Syncs
    <3>2. CASE u # t
      <4>1. call'[u] = call[u] /\ call[u] \in FsRecords
        BY <1>1, <1>4, <3>2 DEF Become, CallsOK
      <4>2. DOMAIN files \subseteq DOMAIN files'
        BY <1>1, <1>6 DEF PlacesOK
      <4>3. \A p \in Procs : counter[p] <= counter'[p]
                             /\ counter[p] \in Nat /\ counter'[p] \in Nat
        BY <1>1, <1>7 DEF NumbersOK, TmpNumbers
      <4>4. Held(call[u], ProcOf[u]) /\ FsWellFormed(call[u]) /\ ProcOf[u] \in Procs
        BY <1>1, FsAssumption DEF CallsOK
      <4>5. call[u].unique \in Nat
        BY <4>1 DEF FsRecords, TmpNumbers
      <4> QED BY <2>1, <4>1, <4>2, <4>3, <4>4, <4>5 DEF Held, Numbered, Syncs
    <3> QED BY <3>1, <3>2
  <2>3. call' \in [Threads -> FsRecords]
    BY <1>1, <1>4, <1>5 DEF CallsOK, Become
  <2> QED BY <2>2, <2>3 DEF CallsOK
<1>9. PlacesOK'
  <2>1. UNCHANGED <<kind, link, past, calls, faults, crashes>>
    BY DEF PutCreate, bounds
  <2>2. mishaps' \subseteq (IF Numbered THEN {} ELSE {"clash", "power"})
    BY <1>1 DEF PutCreate, Clashes, PlacesOK
  <2>3. tmp' \in [Keys \X TmpNumbers -> 0 .. Len(files')]
    BY <1>1, <1>2, <1>4, <1>6 DEF PlacesOK
  <2>4. link' \in [Keys -> 0 .. Len(files')] /\ past' \in [Keys -> SUBSET (0 .. Len(files'))]
    BY <1>1, <1>6, <2>1 DEF PlacesOK
  <2> QED BY <1>1, <1>6, <2>1, <2>2, <2>3, <2>4 DEF PlacesOK, Numbered
<1> QED BY <1>7, <1>8, <1>9 DEF NumbersOK

LEMMA PutType ==
  ASSUME FsInv, NEW t \in Threads, PutWrite(t) \/ PutSync(t) \/ PutRename(t)
  PROVE  NumbersOK' /\ PlacesOK'
<1> DEFINE c == call[t]
<1>1. /\ c \in FsRecords /\ FsWellFormed(c) /\ Held(c, ProcOf[t])
      /\ NumbersOK /\ PlacesOK
  BY FsInvParts DEF CallsOK
<1>2. ASSUME NEW label \in Pcs
      PROVE  /\ [c EXCEPT !.pc = label].pc = label /\ [c EXCEPT !.pc = label].key = c.key
             /\ [c EXCEPT !.pc = label].op = c.op /\ [c EXCEPT !.pc = label].value = c.value
             /\ [c EXCEPT !.pc = label].result = c.result
  BY <1>1 DEF FsRecords
<1>3. ASSUME NEW f \in [data : Values \cup {Torn}, synced : BOOLEAN], c.file \in DOMAIN files,
             files' = [files EXCEPT ![c.file] = f],
             UNCHANGED <<kind, names, counter, mishaps, bounds>>
      PROVE  PlacesOK' /\ DOMAIN files' = DOMAIN files
  <2>1. files' \in Seq([data : Values \cup {Torn}, synced : BOOLEAN])
        /\ Len(files') = Len(files) /\ DOMAIN files' = DOMAIN files
    BY <1>1, <1>3 DEF PlacesOK
  <2> QED BY <1>1, <1>3, <2>1 DEF PlacesOK, names, bounds, Numbered
<1>4. CASE PutWrite(t)
  <2> DEFINE label == IF Syncs THEN "sync" ELSE "rename"
  <2>1. c.pc = "write" /\ c.file \in DOMAIN files /\ c.value \in Values
    BY <1>1, <1>4 DEF PutWrite, Held, FsWellFormed, OpenPcs
  <2>2. label \in Pcs \ {"create"} /\ label \in OpenPcs /\ (label = "sync" => Syncs)
    BY DEF Pcs, OpenPcs
  <2>3. Goto(t, label)
    BY <1>4 DEF PutWrite
  <2> HIDE DEF label
  <2>4. FsWellFormed([c EXCEPT !.pc = label])
    BY <1>1, <1>2, <2>1, <2>2 DEF FsWellFormed, OpenPcs
  <2>5. PlacesOK' /\ DOMAIN files' = DOMAIN files
    BY <1>3, <1>4, <2>1 DEF PutWrite
  <2>6. UNCHANGED <<kind, counter, calls>>
    BY <1>4 DEF PutWrite, bounds
  <2>7. c.pc \in OpenPcs
    BY <2>1 DEF OpenPcs
  <2>8. NumbersOK'
    BY <2>2, <2>3, <2>4, <2>5, <2>6, <2>7, MovesTo
  <2> QED BY <2>5, <2>8
<1>5. CASE PutSync(t)
  <2>1. c.pc = "sync" /\ c.pc \in OpenPcs /\ c.file \in DOMAIN files
    BY <1>1, <1>5 DEF PutSync, Held, FsWellFormed, OpenPcs
  <2>2. FsWellFormed([c EXCEPT !.pc = "rename"])
    BY <1>1, <1>2, <2>1 DEF FsWellFormed, OpenPcs, Pcs
  <2> DEFINE f == [files[c.file] EXCEPT !.synced = TRUE]
  <2>3. f \in [data : Values \cup {Torn}, synced : BOOLEAN]
    <3>1. files[c.file] \in [data : Values \cup {Torn}, synced : BOOLEAN]
      BY <1>1, <2>1, FileType
    <3> QED BY <3>1
  <2>4. files' = [files EXCEPT ![c.file] = f]
    BY <1>5 DEF PutSync
  <2> HIDE DEF f
  <2>5. PlacesOK' /\ DOMAIN files' = DOMAIN files
    BY <1>3, <1>5, <2>1, <2>3, <2>4 DEF PutSync
  <2>6. Goto(t, "rename") /\ UNCHANGED <<kind, counter, calls>>
    BY <1>5 DEF PutSync, bounds
  <2>7. NumbersOK'
    BY <2>1, <2>2, <2>5, <2>6, MovesTo DEF Pcs
  <2> QED BY <2>5, <2>7
<1>6. CASE PutRename(t)
  <2> DEFINE x == <<c.key, c.unique>>
  <2>1. c.key \in Keys /\ x \in Keys \X TmpNumbers /\ 0 \in TmpNumbers
    BY <1>1, <1>6, FsAssumption DEF PutRename, FsWellFormed, FsRecords, TmpNumbers
  <2>2. UNCHANGED <<kind, files, counter, calls, faults, crashes, mishaps>>
    BY <1>6 DEF PutRename, bounds
  <2>3. CASE tmp[x] = 0
    <3>1. Return(t, "err", None) /\ UNCHANGED names
      BY <1>6, <2>3 DEF PutRename
    <3>2. NumbersOK'
      BY <2>2, <3>1, Ends
    <3> QED BY <1>1, <2>2, <3>1, <3>2 DEF PlacesOK, names, Numbered
  <2>4. CASE tmp[x] # 0
    <3>1. /\ Return(t, "ok", None) /\ Relink(c.key, tmp[x])
          /\ tmp' = [tmp EXCEPT ![x] = 0]
      BY <1>6, <2>4 DEF PutRename
    <3>2. NumbersOK'
      BY <2>2, <3>1, Ends
    <3>3. tmp[x] \in 0 .. Len(files) /\ tmp' \in [Keys \X TmpNumbers -> 0 .. Len(files)]
      BY <1>1, <2>1, <3>1 DEF PlacesOK
    <3>4. link' \in [Keys -> 0 .. Len(files)] /\ past' \in [Keys -> SUBSET (0 .. Len(files))]
      BY <1>1, <2>1, <3>1, <3>3, RelinkType
    <3> QED BY <1>1, <2>2, <3>2, <3>3, <3>4 DEF PlacesOK, Numbered
  <2> QED BY <2>3, <2>4
<1> QED BY <1>4, <1>5, <1>6

LEMMA OtherOperationsType ==
  ASSUME FsInv, NEW t \in Threads,
         GetIsFile(t) \/ GetRead(t) \/ DeleteExists(t) \/ DeleteRemove(t) \/ Exists(t)
  PROVE  NumbersOK' /\ PlacesOK'
<1> DEFINE c == call[t]
<1>1. c \in FsRecords /\ FsWellFormed(c) /\ NumbersOK /\ PlacesOK
  BY FsInvParts DEF CallsOK
<1>2. UNCHANGED <<kind, files, tmp, counter, mishaps, calls, faults, crashes>>
  BY DEF GetIsFile, GetRead, DeleteExists, DeleteRemove, Exists, names, bounds
<1>3. ASSUME c.pc \in {"is_file", "exists"}, NEW label \in {"read", "remove"}, Goto(t, label),
             c.pc = "is_file" <=> label = "read"
      PROVE  NumbersOK'
  <2>1. FsWellFormed([c EXCEPT !.pc = label])
    <3>1. /\ [c EXCEPT !.pc = label].pc = label /\ [c EXCEPT !.pc = label].key = c.key
          /\ [c EXCEPT !.pc = label].op = c.op /\ [c EXCEPT !.pc = label].result = c.result
      BY <1>1 DEF FsRecords
    <3> QED BY <1>1, <1>3, <3>1 DEF FsWellFormed, OpenPcs
  <2> QED BY <1>2, <1>3, <2>1, MovesTo DEF Pcs, OpenPcs
<1>4. ASSUME NEW v \in Values \cup {None, Torn, Present}, NEW res \in {"ok", "err"}, Return(t, res, v)
      PROVE  NumbersOK'
  BY <1>2, <1>4, Ends
<1>5. Missing \in {"ok", "err"}
  BY DEF Missing
<1>6. CASE GetIsFile(t)
  <2>1. NumbersOK'
    BY <1>3, <1>4, <1>6 DEF GetIsFile
  <2> QED BY <1>1, <1>2, <1>6, <2>1 DEF GetIsFile, PlacesOK, names, Numbered
<1>7. CASE GetRead(t)
  <2>1. c.key \in Keys
    BY <1>1, <1>7 DEF FsWellFormed, GetRead
  <2>2. NumbersOK'
    BY <1>1, <1>4, <1>5, <1>7, <2>1, VisibleType DEF GetRead
  <2> QED BY <1>1, <1>2, <1>7, <2>2 DEF GetRead, PlacesOK, names, Numbered
<1>8. CASE DeleteExists(t)
  <2>1. NumbersOK'
    BY <1>3, <1>4, <1>8 DEF DeleteExists
  <2> QED BY <1>1, <1>2, <1>8, <2>1 DEF DeleteExists, PlacesOK, names, Numbered
<1>9. CASE DeleteRemove(t)
  <2>1. c.key \in Keys
    BY <1>1, <1>9 DEF FsWellFormed, DeleteRemove
  <2>2. NumbersOK'
    BY <1>4, <1>5, <1>9 DEF DeleteRemove
  <2>3. link' \in [Keys -> 0 .. Len(files)] /\ past' \in [Keys -> SUBSET (0 .. Len(files))]
    <3>1. 0 \in 0 .. Len(files)
      BY <1>1 DEF PlacesOK
    <3> QED BY <1>1, <1>9, <2>1, <3>1, RelinkType DEF DeleteRemove, PlacesOK, names
  <2> QED BY <1>1, <1>2, <2>2, <2>3 DEF PlacesOK, Numbered
<1>10. CASE Exists(t)
  <2>1. NumbersOK'
    BY <1>4, <1>10 DEF Exists
  <2> QED BY <1>1, <1>2, <1>10, <2>1 DEF Exists, PlacesOK, names, Numbered
<1> QED BY <1>6, <1>7, <1>8, <1>9, <1>10

\* What a call that begins is about, and where it begins.
Asks(op, v, label) == \/ op = "put" /\ label = "create" /\ v \in Values
                      \/ op = "get" /\ label \in {"is_file", "read"}
                      \/ op = "delete" /\ label \in {"exists", "remove"}
                      \/ op = "exists" /\ label = "stat"

LEMMA BeginCases ==
  ASSUME NEW t \in Threads, BeginCall(t)
  PROVE  \E op \in {"put", "get", "delete", "exists"}, k \in Keys, v \in Values \cup {None},
            label \in Pcs : Begin(t, op, k, v, label) /\ Asks(op, v, label)
<1>1. PICK k \in Keys : \/ \E v \in Values : Begin(t, "put", k, v, "create")
                        \/ Begin(t, "get", k, None, IF Tests THEN "is_file" ELSE "read")
                        \/ Begin(t, "delete", k, None, IF Tests THEN "exists" ELSE "remove")
                        \/ Begin(t, "exists", k, None, "stat")
  BY DEF BeginCall
<1> DEFINE look == IF Tests THEN "is_file" ELSE "read"
           test == IF Tests THEN "exists" ELSE "remove"
<1>2. look \in {"is_file", "read"} /\ test \in {"exists", "remove"}
  OBVIOUS
<1>3. ASSUME NEW op \in {"put", "get", "delete", "exists"}, NEW v \in Values \cup {None},
             NEW label \in Pcs, Begin(t, op, k, v, label), Asks(op, v, label)
      PROVE  \E o \in {"put", "get", "delete", "exists"}, j \in Keys, w \in Values \cup {None},
                l \in Pcs : Begin(t, o, j, w, l) /\ Asks(o, w, l)
  BY <1>3
<1>4. CASE \E v \in Values : Begin(t, "put", k, v, "create")
  BY <1>3, <1>4 DEF Asks, Pcs
<1>5. CASE Begin(t, "get", k, None, look)
  BY <1>2, <1>3, <1>5 DEF Asks, Pcs
<1>6. CASE Begin(t, "delete", k, None, test)
  BY <1>2, <1>3, <1>6 DEF Asks, Pcs
<1>7. CASE Begin(t, "exists", k, None, "stat")
  BY <1>3, <1>7 DEF Asks, Pcs
<1> QED BY <1>1, <1>4, <1>5, <1>6, <1>7

LEMMA BeginType ==
  ASSUME FsInv, NEW t \in Threads, BeginCall(t)
  PROVE  NumbersOK' /\ PlacesOK'
<1> USE DEF names, bounds
<1>1. CallsOK /\ NumbersOK /\ PlacesOK /\ Counted
  BY FsInvParts DEF NumbersOK
<1>2. PICK op \in {"put", "get", "delete", "exists"}, k \in Keys, v \in Values \cup {None},
           label \in Pcs : Begin(t, op, k, v, label) /\ Asks(op, v, label)
  BY BeginCases
<1> DEFINE r == [Idle EXCEPT !.pc = label, !.op = op, !.key = k, !.value = v]
<1>3. /\ Become(t, r) /\ calls' = calls + 1 /\ calls < MaxCalls /\ call[t].pc = "idle"
      /\ UNCHANGED <<kind, files, link, tmp, past, counter, mishaps, faults, crashes>>
  BY <1>2 DEF Begin, Busy
<1>4. /\ r \in FsRecords /\ r.pc = label /\ r.key = k /\ r.op = op /\ r.value = v
      /\ r.result = "none"
  BY <1>2, IdleType DEF FsRecords, Pcs, Idle
<1>5. FsWellFormed(r)
  BY <1>2, <1>4 DEF FsWellFormed, OpenPcs, Asks
<1> HIDE DEF r
<1>6. CallsOK'
  BY <1>1, <1>2, <1>3, <1>4, <1>5 DEF CallsOK, Become, Held, Numbered, Syncs, OpenPcs, Asks
<1>7. Counted'
  <2>1. calls + 1 <= MaxCalls
    BY <1>1, <1>3, FsAssumption DEF PlacesOK
  <2>2. ASSUME Numbered, NEW p \in Procs
        PROVE  counter[p] + Cardinality(Creating(p))' <= calls + 1
    <3>1. Creating(p)' \subseteq Creating(p) \cup {t}
      BY <1>1, <1>3 DEF Creating, Become, CallsOK
    <3>2. t \notin Creating(p)
      BY <1>3 DEF Creating
    <3>3. /\ Cardinality(Creating(p) \cup {t}) = Cardinality(Creating(p)) + 1
          /\ IsFiniteSet(Creating(p) \cup {t})
      BY <3>2, CreatingFinite, FS_AddElement
    <3>4. /\ Cardinality(Creating(p))' <= Cardinality(Creating(p)) + 1
          /\ Cardinality(Creating(p))' \in Nat
      BY <3>1, <3>3, FS_Subset, FS_CardinalityType
    <3>5. counter[p] \in Nat /\ calls \in Nat /\ counter[p] + Cardinality(Creating(p)) <= calls
      BY <1>1, <2>2 DEF NumbersOK, Counted, PlacesOK, TmpNumbers
    <3> QED BY <3>4, <3>5, CreatingFinite
  <2> QED BY <1>3, <2>1, <2>2 DEF Counted, Numbered
<1>8. PlacesOK'
  <2>1. calls' \in Nat
    BY <1>1, <1>3 DEF PlacesOK
  <2> QED BY <1>1, <1>3, <2>1 DEF PlacesOK, Numbered
<1> QED BY <1>1, <1>3, <1>6, <1>7, <1>8 DEF NumbersOK

LEMMA FailType ==
  ASSUME FsInv, NEW t \in Threads, FsFail(t)
  PROVE  NumbersOK' /\ PlacesOK'
<1> USE DEF names, bounds
<1> DEFINE p == ProcOf[t]
<1>1. CallsOK /\ NumbersOK /\ PlacesOK /\ Counted /\ p \in Procs
  BY FsInvParts, FsAssumption DEF NumbersOK
<1>2. PlacesOK'
  <2>1. faults' \in Nat
    BY <1>1 DEF FsFail, PlacesOK
  <2> QED BY <1>1, <2>1 DEF FsFail, PlacesOK, Numbered
<1>3. CASE Numbered /\ call[t].pc = "create"
  <2>1. PICK r \in FsRecords : FsWellFormed(r) /\ Become(t, r) /\ r.pc = "idle"
    BY ReturnType DEF FsFail
  <2>2. counter' = [counter EXCEPT ![p] = counter[p] + 1] /\ UNCHANGED <<kind, files, calls>>
    BY <1>3 DEF FsFail, NextUnique
  <2>3. \A q \in Procs : /\ counter[q] \in Nat /\ calls \in Nat /\ calls <= MaxCalls
                         /\ counter[q] + Cardinality(Creating(q)) <= calls
    BY <1>1, <1>3 DEF NumbersOK, Counted, PlacesOK, TmpNumbers
  <2>4. \A q \in Procs : /\ Cardinality(Creating(q))' <= Cardinality(Creating(q))
                         /\ q = p => Cardinality(Creating(q))' + 1 = Cardinality(Creating(q))
    BY <1>3, <2>1, Asked
  <2>5. \A q \in Procs : Cardinality(Creating(q)) \in Nat /\ Cardinality(Creating(q))' \in Nat
    <3>1. \A q \in Procs : Creating(q)' \subseteq Threads
      BY DEF Creating
    <3> QED BY <3>1, CreatingFinite, FsAssumption, FS_Subset, FS_CardinalityType
  <2>6. counter[p] + 1 <= calls
    BY <1>1, <2>3, <2>4, <2>5
  <2>7. counter' \in [Procs -> TmpNumbers]
    BY <1>1, <2>2, <2>3, <2>6, FsAssumption DEF NumbersOK, TmpNumbers
  <2>8. Counted'
    BY <1>1, <2>2, <2>3, <2>4, <2>5 DEF NumbersOK, Counted
  <2>9. \A q \in Procs : counter[q] \in Nat /\ counter'[q] \in Nat /\ counter[q] <= counter'[q]
    BY <1>1, <2>2, <2>3 DEF NumbersOK
  <2>10. CallsOK'
    <3>1. ASSUME NEW u \in Threads PROVE FsWellFormed(call'[u]) /\ Held(call[u], ProcOf[u])'
      <4>1. CASE u = t
        BY <1>1, <2>1, <4>1 DEF CallsOK, Become, Held, OpenPcs
      <4>2. CASE u # t
        <5>1. call'[u] = call[u] /\ call[u] \in FsRecords /\ ProcOf[u] \in Procs
              /\ FsWellFormed(call[u]) /\ Held(call[u], ProcOf[u])
          BY <1>1, <2>1, <4>2, FsAssumption DEF CallsOK, Become
        <5>2. call[u].unique \in Nat
          BY <5>1 DEF FsRecords, TmpNumbers
        <5> QED BY <2>2, <2>9, <5>1, <5>2 DEF Held, Numbered, Syncs
      <4> QED BY <4>1, <4>2
    <3>2. call' \in [Threads -> FsRecords]
      BY <1>1, <2>1 DEF CallsOK, Become
    <3> QED BY <3>1, <3>2 DEF CallsOK
  <2> QED BY <1>2, <2>7, <2>8, <2>10 DEF NumbersOK
<1>4. CASE ~(Numbered /\ call[t].pc = "create")
  BY <1>2, <1>4, Ends DEF FsFail
<1> QED BY <1>3, <1>4

LEMMA CrashType ==
  ASSUME FsInv, (\E p \in Procs : FsCrash(p)) \/ PowerLoss
  PROVE  NumbersOK' /\ PlacesOK'
<1> USE DEF names, bounds
<1>1. CallsOK /\ NumbersOK /\ PlacesOK /\ Counted
  BY FsInvParts DEF NumbersOK
<1>2. 0 \in TmpNumbers
  BY FsAssumption DEF TmpNumbers
<1>3. ASSUME NEW p, \A t \in Threads : ProcOf[t] = p => call'[t].pc = "idle"
      PROVE  Cardinality(Creating(p))' = 0
  <2>1. Creating(p)' = {}
    BY <1>3 DEF Creating
  <2> QED BY <2>1, FS_EmptySet
<1>4. CASE \E p \in Procs : FsCrash(p)
  <2>1. PICK p \in Procs : FsCrash(p)
    BY <1>4
  <2>2. /\ counter' = [counter EXCEPT ![p] = 0]
        /\ call' = [t \in Threads |-> IF ProcOf[t] = p THEN Idle ELSE call[t]]
        /\ UNCHANGED <<kind, files, link, tmp, past, mishaps, calls, faults>>
        /\ crashes' = crashes + 1
    BY <2>1 DEF FsCrash
  <2>3. CallsOK'
    BY <1>1, <2>2, IdleType DEF CallsOK, Held, Numbered, Syncs, OpenPcs, NumbersOK
  <2>4. counter' \in [Procs -> TmpNumbers]
    BY <1>1, <1>2, <2>2 DEF NumbersOK
  <2>5. Counted'
    <3>1. SUFFICES ASSUME Numbered, NEW q \in Procs
                   PROVE  counter'[q] + Cardinality(Creating(q))' <= calls
      BY <1>1, <2>2 DEF Counted, Numbered
    <3>2. counter[q] \in Nat /\ calls \in Nat /\ counter[q] + Cardinality(Creating(q)) <= calls
      BY <1>1, <3>1 DEF NumbersOK, Counted, PlacesOK, TmpNumbers
    <3>3. CASE q = p
      <4>1. Cardinality(Creating(q))' = 0
        BY <1>3, <2>2, <3>3, IdleType
      <4> QED BY <1>1, <2>2, <3>2, <3>3, <4>1 DEF NumbersOK
    <3>4. CASE q # p
      <4>1. Creating(q)' = Creating(q)
        BY <2>2, <3>4 DEF Creating
      <4> QED BY <1>1, <2>2, <3>2, <3>4, <4>1 DEF NumbersOK
    <3> QED BY <3>3, <3>4
  <2>6. PlacesOK'
    <3>1. crashes' \in Nat
      BY <1>1, <2>2 DEF PlacesOK
    <3> QED BY <1>1, <2>2, <3>1 DEF PlacesOK, Numbered
  <2> QED BY <2>3, <2>4, <2>5, <2>6 DEF NumbersOK
<1>5. CASE PowerLoss
  <2>1. /\ counter' = [p \in Procs |-> 0] /\ call' = [t \in Threads |-> Idle]
        /\ crashes' = crashes + 1 /\ UNCHANGED <<kind, calls, faults>>
        /\ link' \in [Keys -> 0 .. Len(files)] /\ past' = [k \in Keys |-> {}]
    BY <1>5 DEF PowerLoss
  <2>2. PICK torn \in SUBSET {i \in DOMAIN files : ~files[i].synced} :
          /\ mishaps' = IF Syncs \/ torn = {} THEN mishaps ELSE mishaps \cup {"power"}
          /\ files' = [i \in DOMAIN files |->
                         [data |-> IF i \in torn THEN Torn ELSE files[i].data, synced |-> TRUE]]
    BY <1>5 DEF PowerLoss
  <2>3. PICK gone \in SUBSET {x \in Keys \X TmpNumbers : tmp[x] # 0} :
          tmp' = [x \in Keys \X TmpNumbers |-> IF x \in gone THEN 0 ELSE tmp[x]]
    BY <1>5 DEF PowerLoss
  <2>4. /\ files' \in Seq([data : Values \cup {Torn}, synced : BOOLEAN])
        /\ Len(files') = Len(files)
    <3>1. Len(files) \in Nat /\ DOMAIN files = 1 .. Len(files)
      BY <1>1 DEF PlacesOK
    <3>2. files' \in [1 .. Len(files) -> [data : Values \cup {Torn}, synced : BOOLEAN]]
      <4>1. \A i \in DOMAIN files : files[i].data \in Values \cup {Torn}
        BY <1>1, FileType
      <4> QED BY <2>2, <3>1, <4>1
    <3> QED BY <3>1, <3>2, IsSeq
  <2>5. CallsOK'
    BY <2>1, IdleType DEF CallsOK, Held, OpenPcs
  <2>6. counter' \in [Procs -> TmpNumbers] /\ Counted'
    <3>1. \A p \in Procs : Cardinality(Creating(p))' = 0
      BY <1>3, <2>1, IdleType
    <3> QED BY <1>1, <1>2, <2>1, <3>1 DEF Counted, PlacesOK
  <2>7. mishaps' \subseteq (IF Numbered THEN {} ELSE {"clash", "power"})
    BY <1>1, <2>2 DEF PlacesOK, Numbered, Syncs
  <2>8. tmp' \in [Keys \X TmpNumbers -> 0 .. Len(files')]
    BY <1>1, <2>3, <2>4 DEF PlacesOK
  <2>9. crashes' \in Nat
    BY <1>1, <2>1 DEF PlacesOK
  <2>10. PlacesOK'
    BY <1>1, <2>1, <2>4, <2>7, <2>8, <2>9 DEF PlacesOK, Numbered
  <2> QED BY <2>5, <2>6, <2>10 DEF NumbersOK
<1> QED BY <1>4, <1>5

LEMMA FsInvInit == FsInit => FsInv
<1> SUFFICES ASSUME FsInit PROVE FsInv
  OBVIOUS
<1>1. /\ kind \in Kinds /\ files = <<>> /\ mishaps = {} /\ calls = 0 /\ faults = 0 /\ crashes = 0
      /\ link = [k \in Keys |-> 0] /\ past = [k \in Keys |-> {}]
      /\ tmp = [x \in Keys \X TmpNumbers |-> 0]
      /\ counter = [p \in Procs |-> 0] /\ call = [t \in Threads |-> Idle]
  BY DEF FsInit
<1>2. CallsOK
  BY <1>1, IdleType DEF CallsOK, Held, OpenPcs
<1>3. counter \in [Procs -> TmpNumbers] /\ Counted
  <2>1. \A p \in Procs : Cardinality(Creating(p)) = 0
    <3>1. \A p \in Procs : Creating(p) = {}
      BY <1>1, IdleType DEF Creating
    <3> QED BY <3>1, FS_EmptySet
  <2> QED BY <1>1, <2>1, FsAssumption DEF Counted, TmpNumbers
<1>4. PlacesOK
  <2>1. files \in Seq([data : Values \cup {Torn}, synced : BOOLEAN]) /\ Len(files) = 0
    BY <1>1
  <2> QED BY <1>1, <2>1 DEF PlacesOK
<1> QED BY <1>2, <1>3, <1>4, FsInvParts DEF NumbersOK

LEMMA FsInvStep ==
  ASSUME FsInv, [FsNext]_vars
  PROVE  FsInv'
<1>1. ASSUME UNCHANGED vars PROVE NumbersOK' /\ PlacesOK'
  BY <1>1, FsInvParts DEF vars, names, bounds, NumbersOK, PlacesOK, CallsOK, Counted, Creating,
                          Held, Numbered, Syncs
<1>2. NumbersOK' /\ PlacesOK'
  BY <1>1, CreateType, PutType, OtherOperationsType, BeginType, FailType, CrashType
     DEF FsNext, FsStep, Rest
<1> QED BY <1>2 DEF FsInv, FsTypeOK, CallsOK, NumbersOK, PlacesOK, Held, OpenPcs

\* The state of a directory keeps its types, and a put that has its temporary file
\* open has taken its number from the counter; WRITE_TMP_COUNTER counts no further
\* than the puts that were called.
THEOREM FsTypeCorrect == FsSpec => []FsTypeOK
<1>1. FsInv => FsTypeOK
  BY DEF FsInv
<1> QED BY <1>1, FsInvInit, FsInvStep, PTL DEF FsSpec
-------------------------------------------------------------------------------
(* No temporary files are left                                                   *)

\* A call that is over, or was never a put, leaves the temporary files to others.
LEMMA OthersAttend ==
  ASSUME FsInv, Attended, NEW t \in Threads, NEW r \in FsRecords, Become(t, r),
         UNCHANGED <<faults, crashes>>,
         \A x \in Keys \X TmpNumbers : tmp'[x] # 0 => tmp[x] # 0,
         \/ ~Open(t)
         \/ Open(t) /\ r.pc \in OpenPcs /\ r.key = call[t].key /\ r.unique = call[t].unique
         \/ Open(t) /\ tmp'[Temp(t)] = 0
  PROVE  Attended'
<1>1. SUFFICES ASSUME faults = 0, crashes = 0, NEW x \in Keys \X TmpNumbers, tmp'[x] # 0
               PROVE  \E u \in Threads : Open(u)' /\ Temp(u)' = x
  BY DEF Attended
<1>2. PICK u \in Threads : Open(u) /\ Temp(u) = x
  BY <1>1 DEF Attended
<1>3. call \in [Threads -> FsRecords]
  BY FsInvParts DEF CallsOK
<1>4. CASE u = t
  BY <1>1, <1>2, <1>3, <1>4 DEF Become, Open, Temp
<1>5. CASE u # t
  BY <1>2, <1>3, <1>5 DEF Become, Open, Temp
<1> QED BY <1>4, <1>5

LEMMA AttendedStep ==
  ASSUME FsInv, Attended, [FsNext]_vars
  PROVE  Attended'
<1> USE DEF names, bounds
<1>1. /\ call \in [Threads -> FsRecords] /\ \A t \in Threads : FsWellFormed(call[t])
      /\ faults \in Nat /\ crashes \in Nat /\ PlacesOK
  BY FsInvParts DEF CallsOK, PlacesOK
<1>2. ASSUME NEW t \in Threads, ~Open(t), UNCHANGED <<tmp, faults, crashes>>,
             NEW r \in FsRecords, Become(t, r)
      PROVE  Attended'
  BY <1>2, OthersAttend
<1>3. ASSUME NEW t \in Threads, PutCreate(t) PROVE Attended'
  <2> DEFINE x == <<call[t].key, IF Numbered THEN counter[ProcOf[t]] ELSE 0>>
  <2>1. PICK i : /\ tmp' = [tmp EXCEPT ![x] = i]
                 /\ Become(t, [call[t] EXCEPT !.pc = "write", !.file = i, !.unique = x[2]])
    BY <1>3 DEF PutCreate
  <2>2. call[t] \in FsRecords /\ ~Open(t)
    BY <1>1, <1>3 DEF PutCreate, Open, OpenPcs
  <2>3. SUFFICES ASSUME faults = 0, crashes = 0, NEW y \in Keys \X TmpNumbers, tmp'[y] # 0
                 PROVE  \E u \in Threads : Open(u)' /\ Temp(u)' = y
    BY <1>3 DEF Attended, PutCreate
  <2>4. CASE y = x
    <3>1. call'[t].pc = "write" /\ call'[t].key = x[1] /\ call'[t].unique = x[2]
      BY <1>1, <2>1, <2>2 DEF Become, FsRecords
    <3> QED BY <2>4, <3>1 DEF Open, Temp, OpenPcs
  <2>5. CASE y # x
    <3>1. tmp[y] # 0
      BY <1>1, <2>1, <2>3, <2>5 DEF PlacesOK
    <3>2. PICK u \in Threads : Open(u) /\ Temp(u) = y
      BY <2>3, <3>1 DEF Attended
    <3> QED BY <1>1, <2>1, <2>2, <3>2 DEF Become, Open, Temp
  <2> QED BY <2>4, <2>5
<1>4. ASSUME NEW t \in Threads, PutWrite(t) \/ PutSync(t) PROVE Attended'
  <2>1. PICK label \in OpenPcs : Goto(t, label)
    BY <1>4 DEF PutWrite, PutSync, OpenPcs
  <2> DEFINE r == [call[t] EXCEPT !.pc = label]
  <2>2. r \in FsRecords /\ r.pc = label /\ r.key = call[t].key /\ r.unique = call[t].unique
    BY <1>1, <2>1 DEF FsRecords, OpenPcs, Pcs
  <2>3. Become(t, r)
    BY <2>1 DEF Goto
  <2>4. Open(t) /\ UNCHANGED <<tmp, faults, crashes>>
    BY <1>4 DEF PutWrite, PutSync, Open, OpenPcs
  <2> HIDE DEF r
  <2> QED BY <2>2, <2>3, <2>4, OthersAttend
<1>5. ASSUME NEW t \in Threads, PutRename(t) PROVE Attended'
  <2>1. PICK r \in FsRecords : Become(t, r)
    BY <1>5, ReturnType DEF PutRename
  <2>2. Temp(t) \in Keys \X TmpNumbers /\ Open(t)
    BY <1>1, <1>5 DEF Temp, PutRename, FsWellFormed, FsRecords, Open, OpenPcs
  <2>3. tmp'[Temp(t)] = 0 /\ \A x \in Keys \X TmpNumbers : tmp'[x] # 0 => tmp[x] # 0
    BY <1>1, <1>5, <2>2 DEF PutRename, Temp, PlacesOK
  <2>4. UNCHANGED <<faults, crashes>>
    BY <1>5 DEF PutRename
  <2> QED BY <2>1, <2>2, <2>3, <2>4, OthersAttend
<1>6. ASSUME NEW t \in Threads,
             GetIsFile(t) \/ GetRead(t) \/ DeleteExists(t) \/ DeleteRemove(t) \/ Exists(t)
      PROVE  Attended'
  <2>1. ~Open(t) /\ UNCHANGED <<tmp, faults, crashes>>
    BY <1>6 DEF GetIsFile, GetRead, DeleteExists, DeleteRemove, Exists, Open, OpenPcs
  <2>2. call[t] \in FsRecords /\ (call[t].pc # "idle" => call[t].key \in Keys)
    BY <1>1 DEF FsWellFormed
  <2>3. \/ \E label \in Pcs : Goto(t, label)
        \/ \E res \in {"ok", "err"}, v \in Values \cup {None, Torn, Present} : Return(t, res, v)
    BY <1>1, <1>6, <2>2, VisibleType
       DEF GetIsFile, GetRead, DeleteExists, DeleteRemove, Exists, Pcs, Missing
  <2>4. \A label \in Pcs : [call[t] EXCEPT !.pc = label] \in FsRecords
    BY <2>2 DEF FsRecords
  <2> QED BY <1>2, <2>1, <2>3, <2>4, ReturnType DEF Goto
<1>7. ASSUME NEW t \in Threads, BeginCall(t) PROVE Attended'
  <2>1. PICK op \in {"put", "get", "delete", "exists"}, k \in Keys, v \in Values \cup {None},
             label \in Pcs : Begin(t, op, k, v, label)
    BY <1>7, BeginCases
  <2>2. [Idle EXCEPT !.pc = label, !.op = op, !.key = k, !.value = v] \in FsRecords
    BY IdleType DEF FsRecords
  <2> QED BY <1>2, <2>1, <2>2 DEF Begin, Busy, Open, OpenPcs
<1>8. ASSUME (\E t \in Threads : FsFail(t)) \/ (\E p \in Procs : FsCrash(p)) \/ PowerLoss
      PROVE  Attended'
  BY <1>1, <1>8 DEF FsFail, FsCrash, PowerLoss, Attended
<1>9. ASSUME UNCHANGED vars PROVE Attended'
  BY <1>9 DEF vars, Attended, Open, Temp
<1> QED BY <1>3, <1>4, <1>5, <1>6, <1>7, <1>8, <1>9 DEF FsNext, FsStep, Rest

\* A put that runs to its end takes its temporary file with it, whatever the other
\* threads and processes do; only an error or a crash leaves one behind.
THEOREM LeavesNothing == FsSpec => []NoLeftovers
<1>1. FsInit => Attended
  BY DEF FsInit, Attended
<1>2. Attended => NoLeftovers
  BY DEF Attended, NoLeftovers, Open, Busy, OpenPcs
<1> QED BY <1>1, <1>2, FsInvInit, FsInvStep, AttendedStep, PTL DEF FsSpec

-------------------------------------------------------------------------------
(* The files of the puts in progress and of the keys                             *)

\* The threads that use the Rust backend share one counter: they are in one process.
\* Two processes would hand out the same names.
OneCounter == "rust" \in Kinds => \A t, u \in Threads : ProcOf[t] = ProcOf[u]

\* Each put in progress has the temporary file it created, and has it alone.
OwnTemp ==
  /\ \A t \in Threads : Open(t) => tmp[Temp(t)] = call[t].file
  /\ \A t, u \in Threads : Open(t) /\ Open(u) /\ Temp(t) = Temp(u) => t = u

\* A file has one name.
OneName ==
  \A x \in Keys \X TmpNumbers : tmp[x] # 0 =>
    /\ \A y \in Keys \X TmpNumbers : tmp[y] = tmp[x] => y = x
    /\ \A k \in Keys : tmp[x] \notin {link[k]} \cup past[k]

\* What of its file a put has done.
Written == \A t \in Threads : call[t].pc \in {"sync", "rename"} =>
             /\ files[call[t].file].data = call[t].value
             /\ call[t].pc = "rename" /\ Syncs => files[call[t].file].synced

\* A file that a key's name stands for, or may stand for after a power loss, is
\* written in full, and is on the disk when the backend syncs.
LinkedWhole ==
  \A k \in Keys : \A i \in {link[k]} \cup past[k] : i # 0 =>
    files[i].data # Torn /\ (Syncs => files[i].synced)

HalfDone == mishaps = {} => OwnTemp /\ OneName /\ Written /\ LinkedWhole

\* WholeInv is not inductive without OneName: that the file a put writes to is no
\* key's is what makes writing safe.
WholeInv == FsInv /\ HalfDone

LEMMA WholeFacts ==
  ASSUME FsInv
  PROVE  /\ call \in [Threads -> FsRecords] /\ PlacesOK /\ Len(files) \in Nat
         /\ \A t \in Threads : /\ call[t] \in FsRecords /\ FsWellFormed(call[t])
                               /\ Held(call[t], ProcOf[t])
         /\ \A t \in Threads : Open(t) =>
              /\ Temp(t) \in Keys \X TmpNumbers /\ call[t].key \in Keys
              /\ call[t].value \in Values /\ call[t].op = "put"
              /\ call[t].file \in 1 .. Len(files) /\ call[t].file \in DOMAIN files
<1>1. call \in [Threads -> FsRecords] /\ PlacesOK /\ Len(files) \in Nat
      /\ DOMAIN files = 1 .. Len(files)
  BY FsInvParts DEF CallsOK, PlacesOK
<1>2. ASSUME NEW t \in Threads
      PROVE  call[t] \in FsRecords /\ FsWellFormed(call[t]) /\ Held(call[t], ProcOf[t])
  BY FsInvParts DEF CallsOK
<1>3. ASSUME NEW t \in Threads, Open(t)
      PROVE  /\ Temp(t) \in Keys \X TmpNumbers /\ call[t].key \in Keys
             /\ call[t].value \in Values /\ call[t].op = "put"
             /\ call[t].file \in 1 .. Len(files) /\ call[t].file \in DOMAIN files
  <2>1. call[t].unique \in TmpNumbers
    BY <1>2 DEF FsRecords
  <2> QED BY <1>1, <1>2, <1>3, <2>1 DEF Open, Temp, Held, FsWellFormed, OpenPcs
<1> QED BY <1>1, <1>2, <1>3

\* The file a put has open is no key's, and no other put's.
LEMMA Apart ==
  ASSUME WholeInv, mishaps = {}, NEW t \in Threads, Open(t)
  PROVE  /\ tmp[Temp(t)] = call[t].file /\ call[t].file # 0
         /\ \A u \in Threads : Open(u) /\ u # t => call[u].file # call[t].file
         /\ \A k \in Keys : call[t].file \notin {link[k]} \cup past[k]
<1>1. OwnTemp /\ OneName /\ Temp(t) \in Keys \X TmpNumbers /\ call[t].file \in 1 .. Len(files)
      /\ Len(files) \in Nat /\ FsInv
  BY WholeFacts DEF WholeInv, HalfDone
<1>2. tmp[Temp(t)] = call[t].file /\ call[t].file # 0
  BY <1>1 DEF OwnTemp
<1>3. ASSUME NEW u \in Threads, Open(u), u # t PROVE call[u].file # call[t].file
  <2>1. Temp(u) \in Keys \X TmpNumbers /\ tmp[Temp(u)] = call[u].file /\ Temp(u) # Temp(t)
    BY <1>1, <1>3, WholeFacts DEF OwnTemp
  <2> QED BY <1>1, <1>2, <2>1 DEF OneName
<1>4. \A k \in Keys : call[t].file \notin {link[k]} \cup past[k]
  BY <1>1, <1>2 DEF OneName
<1> QED BY <1>2, <1>3, <1>4

\* Steps that touch no file and no name: a call begins, tests, reads, or fails.
LEMMA QuietHalf ==
  ASSUME WholeInv, NEW t \in Threads, NEW r \in FsRecords, Become(t, r), r.pc \notin OpenPcs,
         UNCHANGED <<kind, files, names, mishaps>>
  PROVE  HalfDone'
<1>1. call \in [Threads -> FsRecords]
  BY WholeFacts DEF WholeInv
<1>2. SUFFICES ASSUME mishaps = {} PROVE (OwnTemp /\ OneName /\ Written /\ LinkedWhole)'
  BY DEF HalfDone
<1>3. OwnTemp /\ OneName /\ Written /\ LinkedWhole
  BY <1>2 DEF WholeInv, HalfDone
<1>4. \A u \in Threads : (u # t => call'[u] = call[u]) /\ (u = t => call'[u].pc \notin OpenPcs)
  BY <1>1 DEF Become
<1>5. OwnTemp'
  BY <1>3, <1>4 DEF OwnTemp, Open, Temp, names
<1>6. Written'
  BY <1>3, <1>4 DEF Written, OpenPcs, Syncs
<1>7. OneName' /\ LinkedWhole'
  BY <1>3 DEF OneName, LinkedWhole, names, Syncs
<1> QED BY <1>5, <1>6, <1>7

\* The file that a put creates is new, or was left by a put that failed: it is no
\* key's, and no put in progress has it open.
LEMMA Fresh ==
  ASSUME WholeInv, OneCounter, NEW t \in Threads, PutCreate(t), mishaps' = {}
  PROVE  \E n \in TmpNumbers, i \in 1 .. Len(files) + 1 :
           LET x == <<call[t].key, n>> IN
           /\ call[t].pc = "create" /\ mishaps = {} /\ x \in Keys \X TmpNumbers
           /\ files' = IF i = Len(files) + 1 THEN Append(files, Empty)
                                             ELSE [files EXCEPT ![i] = Empty]
           /\ tmp' = [tmp EXCEPT ![x] = i]
           /\ Become(t, [call[t] EXCEPT !.pc = "write", !.file = i, !.unique = n])
           /\ UNCHANGED <<kind, link, past>>
           /\ \A k \in Keys : i \notin {link[k]} \cup past[k]
           /\ \A y \in Keys \X TmpNumbers : y # x => tmp[y] # i
           /\ \A u \in Threads : Open(u) => Temp(u) # x /\ call[u].file # i
<1> DEFINE k == call[t].key
           n == IF Numbered THEN counter[ProcOf[t]] ELSE 0
           x == <<k, n>>
           i == IF tmp[x] = 0 THEN Len(files) + 1 ELSE tmp[x]
<1>1. /\ call[t].pc = "create" /\ UNCHANGED <<kind, link, past>>
      /\ files' = IF tmp[x] = 0 THEN Append(files, Empty) ELSE [files EXCEPT ![i] = Empty]
      /\ tmp' = [tmp EXCEPT ![x] = i]
      /\ Become(t, [call[t] EXCEPT !.pc = "write", !.file = i, !.unique = n])
      /\ mishaps = {} /\ ~Clashes(t, k)
  BY DEF PutCreate
<1>2. n \in TmpNumbers /\ x \in Keys \X TmpNumbers
  <2>1. counter \in [Procs -> TmpNumbers] /\ 0 \in TmpNumbers /\ ProcOf[t] \in Procs
    BY FsAssumption DEF WholeInv, FsInv, FsTypeOK, TmpNumbers
  <2>2. k \in Keys
    BY <1>1, WholeFacts DEF WholeInv, FsWellFormed
  <2> QED BY <2>1, <2>2
<1>3. OwnTemp /\ OneName /\ PlacesOK /\ FsInv /\ Len(files) \in Nat
  BY <1>1, WholeFacts DEF WholeInv, HalfDone
<1>4. ASSUME NEW u \in Threads, Open(u) PROVE Temp(u) # x
  <2>1. u # t
    BY <1>1, <1>4 DEF Open, OpenPcs
  <2>2. CASE Numbered
    <3>1. call[u].unique < counter[ProcOf[u]] /\ ProcOf[u] = ProcOf[t] /\ call[u].unique \in Nat
      <4>1. "rust" \in Kinds
        BY <1>3, <2>2 DEF Numbered, PlacesOK
      <4>2. Held(call[u], ProcOf[u]) /\ call[u] \in FsRecords
        BY <1>3, WholeFacts
      <4> QED BY <1>4, <2>2, <4>1, <4>2 DEF Held, Open, OneCounter, FsRecords, TmpNumbers
    <3>2. counter[ProcOf[t]] \in Nat
      BY <1>2, <2>2 DEF TmpNumbers
    <3> QED BY <2>2, <3>1, <3>2 DEF Temp
  <2>3. CASE ~Numbered
    <3>1. call[u].pc \in {"write", "rename"}
      <4>1. Held(call[u], ProcOf[u])
        BY <1>3, WholeFacts
      <4> QED BY <1>4, <2>3, <4>1 DEF Held, Open, OpenPcs, Syncs, Numbered
    <3> QED BY <1>1, <2>1, <2>3, <3>1 DEF Clashes, Temp
  <2> QED BY <2>2, <2>3
<1> HIDE DEF n, x
<1>5. i \in 1 .. Len(files) + 1 /\ (tmp[x] = 0 <=> i = Len(files) + 1) /\ (tmp[x] # 0 => i = tmp[x])
  BY <1>2, <1>3 DEF PlacesOK
<1>6. /\ \A j \in Keys : i \notin {link[j]} \cup past[j]
      /\ \A y \in Keys \X TmpNumbers : y # x => tmp[y] # i
  <2>1. CASE tmp[x] # 0
    BY <1>2, <1>3, <1>5, <2>1 DEF OneName
  <2>2. CASE tmp[x] = 0
    <3>1. i = Len(files) + 1 /\ \A y \in Keys \X TmpNumbers : tmp[y] \in 0 .. Len(files)
      BY <1>3, <1>5, <2>2 DEF PlacesOK
    <3>2. \A j \in Keys : link[j] \in 0 .. Len(files) /\ past[j] \subseteq 0 .. Len(files)
      BY <1>3 DEF PlacesOK
    <3> QED BY <1>3, <3>1, <3>2
  <2> QED BY <2>1, <2>2
<1> HIDE DEF i
<1>7. ASSUME NEW u \in Threads, Open(u) PROVE call[u].file # i
  <2>1. Temp(u) \in Keys \X TmpNumbers /\ tmp[Temp(u)] = call[u].file
    BY <1>3, <1>7, WholeFacts DEF OwnTemp
  <2> QED BY <1>4, <1>6, <1>7, <2>1
<1>8. files' = IF i = Len(files) + 1 THEN Append(files, Empty) ELSE [files EXCEPT ![i] = Empty]
  BY <1>1, <1>5
<1>9. /\ call[t].pc = "create" /\ mishaps = {} /\ x \in Keys \X TmpNumbers
      /\ tmp' = [tmp EXCEPT ![x] = i]
      /\ Become(t, [call[t] EXCEPT !.pc = "write", !.file = i, !.unique = n])
      /\ UNCHANGED <<kind, link, past>>
  BY <1>1, <1>2
<1> QED BY <1>2, <1>4, <1>5, <1>6, <1>7, <1>8, <1>9 DEF x

\* What is at the other numbers, when a file is created or written to.
LEMMA Elsewhere ==
  ASSUME NEW S, NEW s \in Seq(S), NEW e \in S, NEW i \in 1 .. Len(s) + 1, NEW s2,
         s2 = IF i = Len(s) + 1 THEN Append(s, e) ELSE [s EXCEPT ![i] = e]
  PROVE  /\ \A j \in 1 .. Len(s) : j # i => s2[j] = s[j]
         /\ s2[i] = e
<1>1. CASE i = Len(s) + 1
  BY <1>1
<1>2. CASE i # Len(s) + 1
  <2>1. s2 = [s EXCEPT ![i] = e] /\ i \in 1 .. Len(s)
    BY <1>2
  <2> QED BY <2>1
<1> QED BY <1>1, <1>2

LEMMA CreateHalf ==
  ASSUME WholeInv, OneCounter, NEW t \in Threads, PutCreate(t)
  PROVE  HalfDone'
<1>1. SUFFICES ASSUME mishaps' = {} PROVE (OwnTemp /\ OneName /\ Written /\ LinkedWhole)'
  BY DEF HalfDone
<1>2. PICK n \in TmpNumbers, i \in 1 .. Len(files) + 1 :
           LET x == <<call[t].key, n>> IN
           /\ call[t].pc = "create" /\ mishaps = {} /\ x \in Keys \X TmpNumbers
           /\ files' = IF i = Len(files) + 1 THEN Append(files, Empty)
                                             ELSE [files EXCEPT ![i] = Empty]
           /\ tmp' = [tmp EXCEPT ![x] = i]
           /\ Become(t, [call[t] EXCEPT !.pc = "write", !.file = i, !.unique = n])
           /\ UNCHANGED <<kind, link, past>>
           /\ \A k \in Keys : i \notin {link[k]} \cup past[k]
           /\ \A y \in Keys \X TmpNumbers : y # x => tmp[y] # i
           /\ \A u \in Threads : Open(u) => Temp(u) # x /\ call[u].file # i
  BY <1>1, Fresh
<1> DEFINE x == <<call[t].key, n>>
           r == [call[t] EXCEPT !.pc = "write", !.file = i, !.unique = n]
<1>3. /\ OwnTemp /\ OneName /\ Written /\ LinkedWhole
      /\ PlacesOK /\ FsInv /\ Len(files) \in Nat /\ i # 0
      /\ call \in [Threads -> FsRecords] /\ call[t] \in FsRecords
  BY <1>2, WholeFacts DEF WholeInv, HalfDone
<1>4. \A j \in 1 .. Len(files) : j # i => files'[j] = files[j]
  <2>1. Empty \in [data : Values \cup {Torn}, synced : BOOLEAN]
        /\ files \in Seq([data : Values \cup {Torn}, synced : BOOLEAN])
    BY <1>3 DEF Empty, PlacesOK
  <2> QED BY <1>2, <2>1, Elsewhere
<1>5. r.pc = "write" /\ r.file = i /\ <<r.key, r.unique>> = x
  BY <1>3 DEF FsRecords
<1>6. call'[t] = r /\ \A u \in Threads \ {t} : call'[u] = call[u]
  BY <1>2, <1>3 DEF Become
<1>7. ~Open(t)
  BY <1>2 DEF Open, OpenPcs
<1> HIDE DEF r
<1>8. tmp'[x] = i /\ \A y \in Keys \X TmpNumbers : y # x => tmp'[y] = tmp[y]
  BY <1>2, <1>3 DEF PlacesOK
<1>9. \A u \in Threads : Open(u) => Temp(u) # x /\ Temp(u) \in Keys \X TmpNumbers
  BY <1>2, <1>3, WholeFacts
<1>10. \A u \in Threads : /\ u = t => Temp(u)' = x /\ Open(u)'
                          /\ u # t => Temp(u)' = Temp(u) /\ (Open(u)' <=> Open(u))
  BY <1>5, <1>6 DEF Temp, Open, OpenPcs
<1>11. OwnTemp'
  <2>1. ASSUME NEW u \in Threads, Open(u)' PROVE tmp'[Temp(u)'] = call'[u].file
    BY <1>3, <1>5, <1>6, <1>8, <1>9, <1>10, <2>1 DEF OwnTemp
  <2>2. ASSUME NEW u \in Threads, NEW v \in Threads, Open(u)', Open(v)', Temp(u)' = Temp(v)'
        PROVE  u = v
    BY <1>3, <1>9, <1>10, <2>2 DEF OwnTemp
  <2> QED BY <2>1, <2>2 DEF OwnTemp
<1>12. OneName'
  <2>1. SUFFICES ASSUME NEW z \in Keys \X TmpNumbers, tmp'[z] # 0
                 PROVE  /\ \A y \in Keys \X TmpNumbers : tmp'[y] = tmp'[z] => y = z
                        /\ \A k \in Keys : tmp'[z] \notin {link[k]} \cup past[k]
    BY <1>2 DEF OneName
  <2> QED BY <1>2, <1>3, <1>8, <2>1 DEF OneName
<1>13. Written'
  <2>1. SUFFICES ASSUME NEW u \in Threads, call'[u].pc \in {"sync", "rename"}
                 PROVE  /\ files'[call'[u].file].data = call'[u].value
                        /\ call'[u].pc = "rename" /\ Syncs => files'[call'[u].file].synced
    BY <1>2 DEF Written, Syncs
  <2>2. u # t /\ call'[u] = call[u]
    BY <1>5, <1>6, <2>1
  <2>3. Open(u) /\ call[u].file \in 1 .. Len(files) /\ call[u].file # i
    BY <1>2, <1>3, <2>1, <2>2, WholeFacts DEF Open, OpenPcs
  <2> QED BY <1>3, <1>4, <2>1, <2>2, <2>3 DEF Written
<1>14. LinkedWhole'
  <2>1. SUFFICES ASSUME NEW k \in Keys, NEW j \in {link[k]} \cup past[k], j # 0
                 PROVE  files'[j].data # Torn /\ (Syncs => files'[j].synced)
    BY <1>2 DEF LinkedWhole, Syncs
  <2>2. j \in 1 .. Len(files) /\ j # i
    <3>1. link[k] \in 0 .. Len(files) /\ past[k] \subseteq 0 .. Len(files)
      BY <1>3 DEF PlacesOK
    <3> QED BY <1>2, <1>3, <2>1, <3>1
  <2> QED BY <1>3, <1>4, <2>1, <2>2 DEF LinkedWhole
<1> QED BY <1>11, <1>12, <1>13, <1>14

LEMMA WriteHalf ==
  ASSUME WholeInv, NEW t \in Threads, PutWrite(t) \/ PutSync(t)
  PROVE  HalfDone'
<1> DEFINE c == call[t]
           f == files'[c.file]
<1>1. SUFFICES ASSUME mishaps' = {} PROVE (OwnTemp /\ OneName /\ Written /\ LinkedWhole)'
  BY DEF HalfDone
<1>2. UNCHANGED <<kind, link, tmp, past, mishaps>> /\ Open(t)
  BY DEF PutWrite, PutSync, names, Open, OpenPcs
<1>3. /\ OwnTemp /\ OneName /\ Written /\ LinkedWhole /\ PlacesOK
      /\ call \in [Threads -> FsRecords] /\ c \in FsRecords
      /\ c.file \in DOMAIN files /\ DOMAIN files = 1 .. Len(files)
  BY <1>1, <1>2, WholeFacts DEF WholeInv, HalfDone, PlacesOK
<1>4. PICK label \in {"sync", "rename"} :
        /\ Goto(t, label) /\ f.data = c.value
        /\ label = "rename" /\ Syncs => f.synced
        /\ \A j \in DOMAIN files : j # c.file => files'[j] = files[j]
  <2>1. CASE PutWrite(t)
    <3>1. files' = [files EXCEPT ![c.file] = [data |-> c.value, synced |-> FALSE]]
          /\ Goto(t, IF Syncs THEN "sync" ELSE "rename")
      BY <2>1 DEF PutWrite
    <3>2. f = [data |-> c.value, synced |-> FALSE]
          /\ \A j \in DOMAIN files : j # c.file => files'[j] = files[j]
      BY <1>3, <3>1
    <3>3. CASE Syncs
      BY <3>1, <3>2, <3>3
    <3>4. CASE ~Syncs
      BY <3>1, <3>2, <3>4
    <3> QED BY <3>3, <3>4
  <2>2. CASE PutSync(t)
    <3>1. c.pc = "sync" /\ Goto(t, "rename")
          /\ files' = [files EXCEPT ![c.file] = [files[c.file] EXCEPT !.synced = TRUE]]
      BY <2>2 DEF PutSync
    <3>2. files[c.file].data = c.value
          /\ files[c.file] \in [data : Values \cup {Torn}, synced : BOOLEAN]
      BY <1>3, <3>1, FileType DEF Written
    <3> QED BY <1>3, <3>1, <3>2
  <2> QED BY <2>1, <2>2
<1> HIDE DEF f
<1>5. /\ \A u \in Threads \ {t} : call'[u] = call[u]
      /\ call'[t].pc = label /\ call'[t].file = c.file /\ call'[t].value = c.value
      /\ call'[t].key = c.key /\ call'[t].unique = c.unique
  BY <1>3, <1>4 DEF Goto, Become, FsRecords
<1>6. \A u \in Threads : (Open(u)' <=> Open(u)) /\ Temp(u)' = Temp(u) /\ call'[u].file = call[u].file
  BY <1>2, <1>5 DEF Open, Temp, OpenPcs
<1>7. OwnTemp'
  BY <1>2, <1>3, <1>6 DEF OwnTemp
<1>8. OneName'
  BY <1>2, <1>3 DEF OneName
<1>9. Written'
  <2>1. SUFFICES ASSUME NEW u \in Threads, call'[u].pc \in {"sync", "rename"}
                 PROVE  /\ files'[call'[u].file].data = call'[u].value
                        /\ call'[u].pc = "rename" /\ Syncs => files'[call'[u].file].synced
    BY <1>2 DEF Written, Syncs
  <2>2. CASE u = t
    BY <1>4, <1>5, <2>2 DEF f
  <2>3. CASE u # t
    <3>1. Open(u) /\ call'[u] = call[u]
      BY <1>5, <2>1, <2>3 DEF Open, OpenPcs
    <3>2. call[u].file # c.file /\ call[u].file \in DOMAIN files
      BY <1>1, <1>2, <2>3, <3>1, Apart, WholeFacts DEF WholeInv
    <3> QED BY <1>3, <1>4, <2>1, <3>1, <3>2 DEF Written
  <2> QED BY <2>2, <2>3
<1>10. LinkedWhole'
  <2>1. SUFFICES ASSUME NEW k \in Keys, NEW j \in {link[k]} \cup past[k], j # 0
                 PROVE  files'[j].data # Torn /\ (Syncs => files'[j].synced)
    BY <1>2 DEF LinkedWhole, Syncs
  <2>2. j \in DOMAIN files /\ j # c.file
    <3>1. link[k] \in 0 .. Len(files) /\ past[k] \subseteq 0 .. Len(files)
      BY <1>3 DEF PlacesOK
    <3>2. c.file \notin {link[k]} \cup past[k]
      BY <1>1, <1>2, Apart
    <3> QED BY <1>3, <2>1, <3>1, <3>2
  <2> QED BY <1>3, <1>4, <2>1, <2>2 DEF LinkedWhole
<1> QED BY <1>7, <1>8, <1>9, <1>10

LEMMA RenameHalf ==
  ASSUME WholeInv, NEW t \in Threads, PutRename(t)
  PROVE  HalfDone'
<1> DEFINE c == call[t]
           x == Temp(t)
<1>1. SUFFICES ASSUME mishaps' = {} PROVE (OwnTemp /\ OneName /\ Written /\ LinkedWhole)'
  BY DEF HalfDone
<1>2. UNCHANGED <<kind, files, mishaps>> /\ Open(t) /\ c.pc = "rename"
  BY DEF PutRename, Open, OpenPcs
<1>3. /\ OwnTemp /\ OneName /\ Written /\ LinkedWhole /\ PlacesOK
      /\ call \in [Threads -> FsRecords] /\ x \in Keys \X TmpNumbers /\ c.key \in Keys
      /\ c.value \in Values /\ tmp[x] = c.file /\ c.file # 0
  BY <1>1, <1>2, WholeFacts, Apart DEF WholeInv, HalfDone
<1>4. /\ link' = [link EXCEPT ![c.key] = c.file]
      /\ past' = [past EXCEPT ![c.key] = @ \cup {link[c.key]}]
      /\ tmp' = [tmp EXCEPT ![x] = 0]
      /\ Return(t, "ok", None)
  BY <1>3 DEF PutRename, Relink, Temp
<1>5. PICK r \in FsRecords : Become(t, r) /\ r.pc = "idle"
  BY <1>4, ReturnType DEF WholeInv
<1>6. /\ \A u \in Threads \ {t} : call'[u] = call[u]
      /\ call'[t].pc \notin OpenPcs
  BY <1>3, <1>5 DEF Become, OpenPcs
<1>7. \A u \in Threads : Open(u)' => u # t /\ Open(u) /\ call'[u] = call[u] /\ Temp(u)' = Temp(u)
                                     /\ Temp(u) # x /\ Temp(u) \in Keys \X TmpNumbers
  <2>1. SUFFICES ASSUME NEW u \in Threads, Open(u)'
                 PROVE  u # t /\ Open(u) /\ call'[u] = call[u] /\ Temp(u)' = Temp(u)
                        /\ Temp(u) # x /\ Temp(u) \in Keys \X TmpNumbers
    OBVIOUS
  <2>2. u # t /\ call'[u] = call[u]
    BY <1>6, <2>1 DEF Open
  <2>3. Open(u) /\ Temp(u)' = Temp(u)
    BY <2>1, <2>2 DEF Open, Temp
  <2> QED BY <1>2, <1>3, <2>2, <2>3, WholeFacts DEF OwnTemp, WholeInv
<1>8. OwnTemp'
  <2>1. ASSUME NEW u \in Threads, Open(u)' PROVE tmp'[Temp(u)'] = call'[u].file
    BY <1>3, <1>4, <1>7, <2>1 DEF OwnTemp, PlacesOK
  <2>2. ASSUME NEW u \in Threads, NEW v \in Threads, Open(u)', Open(v)', Temp(u)' = Temp(v)'
        PROVE  u = v
    BY <1>3, <1>7, <2>2 DEF OwnTemp
  <2> QED BY <2>1, <2>2 DEF OwnTemp
<1>9. OneName'
  <2>1. SUFFICES ASSUME NEW z \in Keys \X TmpNumbers, tmp'[z] # 0
                 PROVE  /\ \A y \in Keys \X TmpNumbers : tmp'[y] = tmp'[z] => y = z
                        /\ \A k \in Keys : tmp'[z] \notin {link'[k]} \cup past'[k]
    BY DEF OneName
  <2>2. z # x /\ tmp'[z] = tmp[z] /\ tmp[z] # c.file
    BY <1>3, <1>4, <2>1 DEF OneName, PlacesOK
  <2>3. \A y \in Keys \X TmpNumbers : tmp'[y] = tmp'[z] => y = z
    BY <1>3, <1>4, <2>1, <2>2 DEF OneName, PlacesOK
  <2>4. \A k \in Keys : {link'[k]} \cup past'[k] \subseteq {link[k], c.file} \cup past[k]
    BY <1>3, <1>4 DEF PlacesOK
  <2> QED BY <1>3, <2>1, <2>2, <2>3, <2>4 DEF OneName
<1>10. Written'
  BY <1>2, <1>3, <1>6 DEF Written, OpenPcs, Syncs
<1>11. LinkedWhole'
  <2>1. files[c.file].data # Torn /\ (Syncs => files[c.file].synced)
    BY <1>2, <1>3, FsAssumption DEF Written
  <2>2. \A k \in Keys : {link'[k]} \cup past'[k] \subseteq {link[k], c.file} \cup past[k]
    BY <1>3, <1>4 DEF PlacesOK
  <2> QED BY <1>2, <1>3, <2>1, <2>2 DEF LinkedWhole, Syncs
<1> QED BY <1>8, <1>9, <1>10, <1>11

LEMMA RemoveHalf ==
  ASSUME WholeInv, NEW t \in Threads, DeleteRemove(t)
  PROVE  HalfDone'
<1> DEFINE c == call[t]
<1>1. c.key \in Keys /\ call \in [Threads -> FsRecords] /\ PlacesOK
  BY WholeFacts DEF WholeInv, DeleteRemove, FsWellFormed
<1>2. UNCHANGED <<kind, files, tmp, mishaps>>
  BY DEF DeleteRemove, names
<1>3. PICK r \in FsRecords : Become(t, r) /\ r.pc = "idle"
  BY ReturnType DEF WholeInv, DeleteRemove, Missing
<1>4. CASE link[c.key] = 0
  BY <1>2, <1>3, <1>4, QuietHalf DEF DeleteRemove, OpenPcs
<1>5. CASE link[c.key] # 0
  <2>1. SUFFICES ASSUME mishaps = {} PROVE (OwnTemp /\ OneName /\ Written /\ LinkedWhole)'
    BY <1>2 DEF HalfDone
  <2>2. OwnTemp /\ OneName /\ Written /\ LinkedWhole
    BY <2>1 DEF WholeInv, HalfDone
  <2>3. \A u \in Threads : (u # t => call'[u] = call[u]) /\ (u = t => call'[u].pc \notin OpenPcs)
    BY <1>1, <1>3 DEF Become, OpenPcs
  <2>4. \A k \in Keys : {link'[k]} \cup past'[k] \subseteq {link[k], 0} \cup past[k]
    BY <1>1, <1>5 DEF DeleteRemove, Relink, PlacesOK
  <2>5. OwnTemp'
    BY <1>2, <2>2, <2>3 DEF OwnTemp, Open, Temp
  <2>6. OneName'
    BY <1>2, <2>2, <2>4 DEF OneName
  <2>7. Written'
    BY <1>2, <2>2, <2>3 DEF Written, OpenPcs, Syncs
  <2>8. LinkedWhole'
    BY <1>2, <2>2, <2>4 DEF LinkedWhole, Syncs
  <2> QED BY <2>5, <2>6, <2>7, <2>8
<1> QED BY <1>4, <1>5

\* Of the files that a key may show after a power loss the disk has every byte.
LEMMA PowerKeeps ==
  ASSUME WholeInv, PowerLoss, mishaps' = {}, NEW k \in Keys, NEW i \in {link[k]} \cup past[k],
         i # 0
  PROVE  i \in DOMAIN files /\ files'[i].data = files[i].data /\ files'[i].synced
<1>1. PICK torn \in SUBSET {j \in DOMAIN files : ~files[j].synced} :
          /\ mishaps' = IF Syncs \/ torn = {} THEN mishaps ELSE mishaps \cup {"power"}
          /\ files' = [j \in DOMAIN files |->
                         [data |-> IF j \in torn THEN Torn ELSE files[j].data, synced |-> TRUE]]
  BY DEF PowerLoss
<1>2. mishaps = {} /\ (Syncs \/ torn = {})
  BY <1>1
<1>3. LinkedWhole /\ PlacesOK /\ Len(files) \in Nat
  BY <1>2, WholeFacts DEF WholeInv, HalfDone
<1>4. i \in DOMAIN files /\ i \notin torn
  <2>1. link[k] \in 0 .. Len(files) /\ past[k] \subseteq 0 .. Len(files)
    BY <1>3 DEF PlacesOK
  <2>2. i \in DOMAIN files
    BY <1>3, <2>1 DEF PlacesOK
  <2> QED BY <1>2, <1>3, <2>2 DEF LinkedWhole
<1> QED BY <1>1, <1>4

LEMMA CrashHalf ==
  ASSUME WholeInv, (\E p \in Procs : FsCrash(p)) \/ PowerLoss
  PROVE  HalfDone'
<1>1. SUFFICES ASSUME mishaps' = {} PROVE (OwnTemp /\ OneName /\ Written /\ LinkedWhole)'
  BY DEF HalfDone
<1>2. mishaps = {} /\ kind' = kind
  BY <1>1 DEF FsCrash, PowerLoss
<1>3. OwnTemp /\ OneName /\ Written /\ LinkedWhole /\ PlacesOK
  BY <1>2, WholeFacts DEF WholeInv, HalfDone
<1>4. CASE \E p \in Procs : FsCrash(p)
  <2>1. PICK p \in Procs : FsCrash(p)
    BY <1>4
  <2>2. UNCHANGED <<files, link, tmp, past>>
        /\ \A u \in Threads : call'[u] = call[u] \/ call'[u].pc = "idle"
    BY <2>1, IdleType DEF FsCrash, names
  <2>3. OwnTemp'
    <3>1. \A u \in Threads : Open(u)' => Open(u) /\ call'[u] = call[u] /\ Temp(u)' = Temp(u)
      BY <2>2 DEF Open, OpenPcs, Temp
    <3> QED BY <1>3, <2>2, <3>1 DEF OwnTemp
  <2>4. OneName'
    BY <1>3, <2>2 DEF OneName
  <2>5. Written'
    BY <1>2, <1>3, <2>2 DEF Written, Syncs
  <2>6. LinkedWhole'
    BY <1>2, <1>3, <2>2 DEF LinkedWhole, Syncs
  <2> QED BY <2>3, <2>4, <2>5, <2>6
<1>5. CASE PowerLoss
  <2>1. /\ \A u \in Threads : call'[u].pc = "idle"
        /\ \A k \in Keys : link'[k] \in past[k] \cup {link[k]} /\ past'[k] = {}
    BY <1>5, IdleType DEF PowerLoss
  <2>2. \A x \in Keys \X TmpNumbers : tmp'[x] = 0 \/ tmp'[x] = tmp[x]
    BY <1>5 DEF PowerLoss
  <2>3. OwnTemp' /\ Written'
    BY <2>1 DEF OwnTemp, Written, Open, OpenPcs
  <2>4. OneName'
    <3>1. SUFFICES ASSUME NEW z \in Keys \X TmpNumbers, tmp'[z] # 0
                   PROVE  /\ \A y \in Keys \X TmpNumbers : tmp'[y] = tmp'[z] => y = z
                          /\ \A k \in Keys : tmp'[z] \notin {link'[k]} \cup past'[k]
      BY DEF OneName
    <3> QED BY <1>3, <2>1, <2>2, <3>1 DEF OneName
  <2>5. LinkedWhole'
    <3>1. SUFFICES ASSUME NEW k \in Keys, link'[k] # 0
                   PROVE  files'[link'[k]].data # Torn /\ (Syncs => files'[link'[k]].synced)
      BY <1>2, <2>1 DEF LinkedWhole, Syncs
    <3> QED BY <1>1, <1>3, <1>5, <2>1, <3>1, PowerKeeps DEF LinkedWhole
  <2> QED BY <2>3, <2>4, <2>5
<1> QED BY <1>4, <1>5

LEMMA WholeStep ==
  ASSUME WholeInv, OneCounter, [FsNext]_vars
  PROVE  WholeInv'
<1>1. FsInv'
  BY FsInvStep DEF WholeInv
<1>2. ASSUME NEW t \in Threads, GetIsFile(t) \/ GetRead(t) \/ DeleteExists(t) \/ Exists(t)
      PROVE  HalfDone'
  <2>1. call[t] \in FsRecords /\ (call[t].pc # "idle" => call[t].key \in Keys) /\ PlacesOK
    BY WholeFacts DEF WholeInv, FsWellFormed
  <2>2. UNCHANGED <<kind, files, names, mishaps>>
    BY <1>2 DEF GetIsFile, GetRead, DeleteExists, Exists
  <2>3. \/ \E label \in {"read", "remove"} : Goto(t, label)
        \/ \E res \in {"ok", "err"}, v \in Values \cup {None, Torn, Present} : Return(t, res, v)
    BY <1>2, <2>1, VisibleType DEF GetIsFile, GetRead, DeleteExists, Exists, Missing
  <2>4. \A label \in {"read", "remove"} :
          /\ [call[t] EXCEPT !.pc = label] \in FsRecords
          /\ [call[t] EXCEPT !.pc = label].pc \notin OpenPcs
    BY <2>1 DEF FsRecords, Pcs, OpenPcs
  <2>5. PICK r \in FsRecords : Become(t, r) /\ r.pc \notin OpenPcs
    BY <2>3, <2>4, ReturnType DEF Goto, OpenPcs, WholeInv
  <2> QED BY <2>2, <2>5, QuietHalf
<1>3. ASSUME NEW t \in Threads, BeginCall(t) PROVE HalfDone'
  <2>1. PICK op \in {"put", "get", "delete", "exists"}, k \in Keys, v \in Values \cup {None},
             label \in Pcs : Begin(t, op, k, v, label) /\ Asks(op, v, label)
    BY <1>3, BeginCases
  <2> DEFINE r == [Idle EXCEPT !.pc = label, !.op = op, !.key = k, !.value = v]
  <2>2. r \in FsRecords /\ r.pc \notin OpenPcs
    BY <2>1, IdleType DEF FsRecords, Asks, OpenPcs
  <2>3. Become(t, r) /\ UNCHANGED <<kind, files, names, mishaps>>
    BY <2>1 DEF Begin
  <2> HIDE DEF r
  <2> QED BY <2>2, <2>3, QuietHalf
<1>4. ASSUME NEW t \in Threads, FsFail(t) PROVE HalfDone'
  <2>1. PICK r \in FsRecords : Become(t, r) /\ r.pc = "idle"
    BY <1>4, ReturnType DEF FsFail, WholeInv
  <2> QED BY <1>4, <2>1, QuietHalf DEF FsFail, OpenPcs
<1>5. ASSUME UNCHANGED vars PROVE HalfDone'
  BY <1>5 DEF vars, names, WholeInv, HalfDone, OwnTemp, OneName, Written, LinkedWhole, Open, Temp, Syncs
<1>6. HalfDone'
  BY <1>2, <1>3, <1>4, <1>5, CreateHalf, WriteHalf, RenameHalf, RemoveHalf, CrashHalf
     DEF FsNext, FsStep, Rest
<1> QED BY <1>1, <1>6 DEF WholeInv

LEMMA WholeInit == FsInit => WholeInv
<1>1. FsInit => HalfDone
  BY IdleType DEF FsInit, HalfDone, OwnTemp, OneName, Written, LinkedWhole, Open, OpenPcs
<1> QED BY <1>1, FsInvInit DEF WholeInv

\* A key never shows a half-written file, as long as one process has the directory
\* open; for the backends that do not number their temporary files, as long as no
\* two puts of a key overlap and no power loss tears a file.
THEOREM KeysStayWhole ==
  ASSUME OneCounter
  PROVE  FsSpec => []KeysWhole
<1>1. WholeInv => KeysWhole
  <2>1. ASSUME WholeInv, mishaps = {}, NEW k \in Keys PROVE Visible(k) # Torn
    <3>1. LinkedWhole
      BY <2>1 DEF WholeInv, HalfDone
    <3> QED BY <3>1, FsAssumption DEF LinkedWhole, Visible, Shown
  <2> QED BY <2>1 DEF KeysWhole
<1>2. WholeInv /\ [FsNext]_vars => WholeInv'
  BY WholeStep
<1> QED BY <1>1, <1>2, WholeInit, PTL DEF FsSpec
-------------------------------------------------------------------------------
(* The refinement: what each step is on the map                                  *)

TheMap  == [k \in Keys |-> Visible(k)]
ThePast == [k \in Keys |-> {Shown(i) : i \in past[k]}]
TheReq  == [t \in Threads |-> RequestOf(t)]

\* Steps that the map does not see.
LEMMA Stutters ==
  ASSUME UNCHANGED <<TheMap, ThePast, TheReq>>
  PROVE  Map!KVStep
BY DEF Map!KVStep, TheMap, ThePast, TheReq

\* A step that leaves every name, and every file that a name stands for or stood for.
LEMMA SameMap ==
  ASSUME UNCHANGED <<link, past>>,
         \A k \in Keys : \A i \in {link[k]} \cup past[k] : i # 0 => files'[i].data = files[i].data
  PROVE  UNCHANGED <<TheMap, ThePast>>
<1>1. \A k \in Keys : \A i \in {link[k]} \cup past[k] : Shown(i)' = Shown(i)
  BY DEF Shown
<1>2. \A k \in Keys : Visible(k)' = Visible(k)
  BY <1>1 DEF Visible
<1>3. \A k \in Keys : {Shown(i) : i \in past[k]}' = {Shown(i) : i \in past[k]}
  BY <1>1
<1> QED BY <1>2, <1>3 DEF TheMap, ThePast

\* A call that moves on is still the same call.
LEMMA SameRequest ==
  ASSUME FsInv, NEW t \in Threads, NEW r \in FsRecords, Become(t, r),
         call[t].pc # "idle", r.pc # "idle", r.op = call[t].op, r.key = call[t].key,
         r.value = call[t].value, r.result = call[t].result
  PROVE  UNCHANGED TheReq
<1>1. call \in [Threads -> FsRecords]
  BY FsInvParts DEF CallsOK
<1>2. \A u \in Threads : RequestOf(u)' = RequestOf(u)
  BY <1>1 DEF RequestOf, Busy, Become
<1> QED BY <1>2 DEF TheReq

LEMMA Answers ==
  ASSUME FsInv, NEW t \in Threads, NEW res, NEW v, Return(t, res, v), call[t].pc # "idle"
  PROVE  Map!Answer(t, res, v)
<1>1. call \in [Threads -> FsRecords]
  BY FsInvParts DEF CallsOK
<1> DEFINE r == [Idle EXCEPT !.op = call[t].op, !.key = call[t].key, !.value = v, !.result = res]
<1>2. /\ r.pc = "idle" /\ r.op = call[t].op /\ r.key = call[t].key /\ r.value = v /\ r.result = res
      /\ Become(t, r)
  BY DEF Idle, Return
<1> HIDE DEF r
<1>3. call'[t] = r /\ \A u \in Threads \ {t} : call'[u] = call[u]
  BY <1>1, <1>2 DEF Become
<1>4. TheReq[t].phase = "called"
  BY DEF TheReq, RequestOf, Busy
<1>5. TheReq' = [TheReq EXCEPT ![t].phase = "answered", ![t].result = res, ![t].value = v]
  <2>1. \A u \in Threads \ {t} : RequestOf(u)' = RequestOf(u)
    BY <1>3 DEF RequestOf, Busy
  <2>2. RequestOf(t)' = [RequestOf(t) EXCEPT !.phase = "answered", !.result = res, !.value = v]
    <3>1. RequestOf(t) = [op |-> call[t].op, key |-> call[t].key, value |-> call[t].value,
                          phase |-> "called", result |-> call[t].result]
      BY DEF RequestOf, Busy
    <3>2. RequestOf(t)' = [op |-> call[t].op, key |-> call[t].key, value |-> v,
                           phase |-> "answered", result |-> res]
      BY <1>2, <1>3 DEF RequestOf, Busy
    <3> DEFINE q == RequestOf(t)
    <3>3. q = [op |-> call[t].op, key |-> call[t].key, value |-> call[t].value,
               phase |-> "called", result |-> call[t].result]
      BY <3>1
    <3> HIDE DEF q
    <3> DEFINE a == [q EXCEPT !.phase = "answered", !.result = res, !.value = v]
    <3>4. /\ a \in [op : {call[t].op}, key : {call[t].key}, value : {call[t].value, v},
                     phase : {"called", "answered"}, result : {call[t].result, res}]
          /\ a.value = v /\ a.phase = "answered" /\ a.result = res
      BY <3>3
    <3> HIDE DEF a
    <3>5. a = [op |-> call[t].op, key |-> call[t].key, value |-> v, phase |-> "answered",
               result |-> res]
      BY <3>4
    <3> QED BY <3>2, <3>5 DEF a, q
  <2> QED BY <2>1, <2>2 DEF TheReq
<1> QED BY <1>4, <1>5 DEF Map!Answer, TheReq

LEMMA FailsOnMap ==
  ASSUME FsInv, NEW t \in Threads, Return(t, "err", None), call[t].pc # "idle",
         UNCHANGED <<files, names>>
  PROVE  Map!KVStep
<1>1. UNCHANGED <<TheMap, ThePast>>
  BY SameMap DEF names
<1>2. Map!Failed(t)
  BY <1>1, Answers DEF Map!Failed, TheMap, ThePast
<1> QED BY <1>2 DEF Map!KVStep, Map!KVNext

\* The steps of a put before the rename, and the tests of get and delete.
LEMMA CreateIsStutter ==
  ASSUME WholeInv, OneCounter, NEW t \in Threads, PutCreate(t), mishaps' = {}
  PROVE  Map!KVStep
<1>1. PICK n \in TmpNumbers, i \in 1 .. Len(files) + 1 :
           /\ call[t].pc = "create"
           /\ files' = IF i = Len(files) + 1 THEN Append(files, Empty)
                                             ELSE [files EXCEPT ![i] = Empty]
           /\ Become(t, [call[t] EXCEPT !.pc = "write", !.file = i, !.unique = n])
           /\ UNCHANGED <<kind, link, past>>
           /\ \A k \in Keys : i \notin {link[k]} \cup past[k]
  BY Fresh
<1>2. FsInv /\ PlacesOK /\ Len(files) \in Nat /\ call[t] \in FsRecords
  BY WholeFacts DEF WholeInv
<1>3. \A j \in 1 .. Len(files) : j # i => files'[j] = files[j]
  <2>1. Empty \in [data : Values \cup {Torn}, synced : BOOLEAN]
        /\ files \in Seq([data : Values \cup {Torn}, synced : BOOLEAN])
    BY <1>2 DEF Empty, PlacesOK
  <2> QED BY <1>1, <1>2, <2>1, Elsewhere
<1>4. UNCHANGED <<TheMap, ThePast>>
  <2>1. \A k \in Keys : link[k] \in 0 .. Len(files) /\ past[k] \subseteq 0 .. Len(files)
    BY <1>2 DEF PlacesOK
  <2> QED BY <1>1, <1>2, <1>3, <2>1, SameMap
<1> DEFINE r == [call[t] EXCEPT !.pc = "write", !.file = i, !.unique = n]
<1>5. r \in FsRecords /\ r.pc = "write" /\ r.op = call[t].op /\ r.key = call[t].key
      /\ r.value = call[t].value /\ r.result = call[t].result
  <2>1. i \in Nat
    BY <1>2
  <2> QED BY <1>2, <2>1 DEF FsRecords, Pcs
<1>6. Become(t, r)
  BY <1>1
<1> HIDE DEF r
<1>7. UNCHANGED TheReq
  BY <1>1, <1>2, <1>5, <1>6, SameRequest
<1> QED BY <1>4, <1>7, Stutters

LEMMA GotoIsStutter ==
  ASSUME FsInv, NEW t \in Threads, NEW label \in Pcs \ {"idle"}, Goto(t, label),
         call[t].pc # "idle"
  PROVE  UNCHANGED TheReq
<1> DEFINE r == [call[t] EXCEPT !.pc = label]
<1>1. call[t] \in FsRecords
  BY FsInvParts DEF CallsOK
<1>2. r \in FsRecords /\ r.pc = label /\ r.op = call[t].op /\ r.key = call[t].key
      /\ r.value = call[t].value /\ r.result = call[t].result
  BY <1>1 DEF FsRecords
<1>3. Become(t, r)
  BY DEF Goto
<1> HIDE DEF r
<1> QED BY <1>2, <1>3, SameRequest

LEMMA WriteIsStutter ==
  ASSUME WholeInv, NEW t \in Threads, PutWrite(t) \/ PutSync(t), mishaps' = {}
  PROVE  Map!KVStep
<1>1. /\ Open(t) /\ mishaps = {} /\ UNCHANGED <<link, past>> /\ call[t].pc # "idle"
      /\ \E label \in {"sync", "rename"} : Goto(t, label)
  BY DEF PutWrite, PutSync, Open, OpenPcs, names
<1>2. UNCHANGED TheReq
  BY <1>1, GotoIsStutter DEF Pcs, WholeInv
<1>3. PlacesOK /\ call[t].file \in DOMAIN files
  BY <1>1, WholeFacts DEF WholeInv
<1>4. \A j \in DOMAIN files : j # call[t].file => files'[j] = files[j]
  BY DEF PutWrite, PutSync
<1>5. \A k \in Keys : \A i \in {link[k]} \cup past[k] :
        i # 0 => i \in DOMAIN files /\ i # call[t].file
  BY <1>1, <1>3, Apart DEF PlacesOK
<1>6. UNCHANGED <<TheMap, ThePast>>
  BY <1>1, <1>4, <1>5, SameMap
<1> QED BY <1>2, <1>6, Stutters

\* A key's name stands for another file, or for none: the map changes at the key, and
\* remembers what it held.
LEMMA RelinkIsSet ==
  ASSUME PlacesOK, NEW k \in Keys, NEW i \in 0 .. Len(files), Relink(k, i), UNCHANGED files,
         NEW v, v = Shown(i)
  PROVE  Map!Set(k, v)
<1>1. link' = [link EXCEPT ![k] = i] /\ past' = [past EXCEPT ![k] = @ \cup {link[k]}]
  BY DEF Relink
<1>2. \A j : Shown(j)' = Shown(j)
  BY DEF Shown
<1>3. TheMap' = [TheMap EXCEPT ![k] = Shown(i)]
  <2>1. \A h \in Keys : Visible(h)' = IF h = k THEN Shown(i) ELSE Visible(h)
    BY <1>1, <1>2 DEF Visible, PlacesOK
  <2> QED BY <2>1 DEF TheMap
<1>4. ThePast' = [ThePast EXCEPT ![k] = @ \cup {TheMap[k]}]
  <2>1. ASSUME NEW h \in Keys
        PROVE  {Shown(j) : j \in past[h]}' = {Shown(j) : j \in past'[h]}
    BY <1>2
  <2>2. {Shown(j) : j \in past'[k]} = {Shown(j) : j \in past[k]} \cup {Shown(link[k])}
    <3>1. past'[k] = past[k] \cup {link[k]}
      BY <1>1 DEF PlacesOK
    <3> QED BY <3>1
  <2>3. \A h \in Keys \ {k} : past'[h] = past[h]
    BY <1>1 DEF PlacesOK
  <2>4. \A h \in Keys : {Shown(j) : j \in past[h]}' =
          IF h = k THEN {Shown(j) : j \in past[h]} \cup {TheMap[k]} ELSE {Shown(j) : j \in past[h]}
    BY <2>1, <2>2, <2>3 DEF TheMap, Visible
  <2> QED BY <2>4 DEF ThePast
<1> QED BY <1>3, <1>4 DEF Map!Set, TheMap, ThePast

LEMMA RenameIsPut ==
  ASSUME WholeInv, NEW t \in Threads, PutRename(t), mishaps' = {}
  PROVE  Map!KVStep
<1> DEFINE c == call[t]
<1>1. Open(t) /\ mishaps = {} /\ c.pc = "rename" /\ UNCHANGED files
  BY DEF PutRename, Open, OpenPcs
<1>2. /\ tmp[Temp(t)] = c.file /\ c.file # 0 /\ PlacesOK /\ FsInv /\ Len(files) \in Nat
      /\ c.key \in Keys /\ c.op = "put" /\ c.file \in 1 .. Len(files)
      /\ files[c.file].data = c.value
  BY <1>1, Apart, WholeFacts DEF WholeInv, HalfDone, Written
<1>3. Relink(c.key, c.file) /\ Return(t, "ok", None)
  BY <1>2 DEF PutRename, Temp
<1>4. Map!Set(c.key, c.value)
  <2>1. Shown(c.file) = c.value /\ c.file \in 0 .. Len(files)
    BY <1>2 DEF Shown
  <2>2. UNCHANGED files /\ PlacesOK /\ FsInv /\ c.key \in Keys /\ Relink(c.key, c.file)
    BY <1>1, <1>2, <1>3
  <2> DEFINE k == c.key
             i == c.file
             v == c.value
  <2> HIDE DEF c
  <2>3. /\ PlacesOK /\ k \in Keys /\ i \in 0 .. Len(files) /\ Relink(k, i) /\ UNCHANGED files
        /\ v = Shown(i)
    BY <2>1, <2>2
  <2> HIDE DEF k, i, v
  <2>4. Map!Set(k, v)
    BY <2>3, RelinkIsSet DEF Map!Set
  <2> QED BY <2>4 DEF k, v
<1>5. Map!Answer(t, "ok", None)
  BY <1>1, <1>2, <1>3, Answers
<1>6. TheReq[t].op = "put" /\ TheReq[t].key = c.key /\ TheReq[t].value = c.value
  BY <1>2 DEF TheReq, RequestOf
<1>7. Map!PutDone(t)
  BY <1>4, <1>5, <1>6 DEF Map!PutDone, Map!Set, TheReq
<1> QED BY <1>7 DEF Map!KVStep, Map!KVNext

LEMMA TestIsStep ==
  ASSUME WholeInv, NEW t \in Threads,
         GetIsFile(t) \/ GetRead(t) \/ DeleteExists(t) \/ Exists(t)
  PROVE  Map!KVStep
<1> DEFINE c == call[t]
           k == c.key
<1>1. /\ FsInv /\ PlacesOK /\ c.pc # "idle" /\ k \in Keys /\ UNCHANGED <<files, link, past>>
      /\ c.pc \in {"is_file", "read"} => c.op = "get"
      /\ c.pc = "exists" => c.op = "delete"
      /\ c.pc = "stat" => c.op = "exists"
  BY WholeFacts DEF WholeInv, FsWellFormed, GetIsFile, GetRead, DeleteExists, Exists, names
<1>2. UNCHANGED <<TheMap, ThePast>>
  BY <1>1, SameMap
<1>3. /\ TheReq[t].op = c.op /\ TheReq[t].key = k /\ TheMap[k] = Visible(k)
      /\ Visible(k) = None <=> link[k] = 0
  <2>1. link[k] # 0 => Visible(k) # None
    <3>1. link[k] # 0 => link[k] \in DOMAIN files
      BY <1>1 DEF PlacesOK
    <3>2. link[k] # 0 => Visible(k) \in Values \cup {Torn}
      BY <1>1, <3>1, FileType DEF Visible, Shown
    <3> QED BY <3>2, FsAssumption
  <2>2. link[k] = 0 => Visible(k) = None
    BY DEF Visible, Shown
  <2> QED BY <1>1, <2>1, <2>2 DEF TheReq, RequestOf, TheMap
<1>4. ASSUME NEW label \in {"read", "remove"}, Goto(t, label) PROVE Map!KVStep
  BY <1>1, <1>2, <1>4, GotoIsStutter, Stutters DEF Pcs
<1>5. ASSUME c.op = "get", NEW v, v = Visible(k), Return(t, "ok", v) PROVE Map!KVStep
  <2>1. Map!Answer(t, "ok", v)
    BY <1>1, <1>5, Answers
  <2>2. Map!GetDone(t)
    BY <1>2, <1>3, <1>5, <2>1 DEF Map!GetDone, Map!Answer, TheReq, TheMap, ThePast
  <2> QED BY <2>2 DEF Map!KVStep, Map!KVNext
<1>6. ASSUME Return(t, "err", None) PROVE Map!KVStep
  <2>1. UNCHANGED <<files, names>>
    BY <1>1 DEF names, GetIsFile, GetRead, DeleteExists, Exists
  <2> QED BY <1>1, <1>6, <2>1, FailsOnMap
<1>7. ASSUME c.op = "delete", link[k] = 0, Return(t, "ok", None) PROVE Map!KVStep
  <2>1. Map!Answer(t, "ok", None)
    BY <1>1, <1>7, Answers
  <2>2. Map!NothingToDelete(t)
    BY <1>2, <1>3, <1>7, <2>1 DEF Map!NothingToDelete, TheReq, TheMap, ThePast
  <2> QED BY <2>2 DEF Map!KVStep, Map!KVNext
<1>8. CASE GetIsFile(t)
  BY <1>1, <1>3, <1>4, <1>5, <1>8 DEF GetIsFile
<1>9. CASE GetRead(t)
  <2>1. Missing = "err" \/ Missing = "ok"
    BY DEF Missing
  <2> QED BY <1>1, <1>3, <1>5, <1>6, <1>9, <2>1 DEF GetRead
<1>10. CASE DeleteExists(t)
  BY <1>1, <1>4, <1>7, <1>10 DEF DeleteExists
<1>11. CASE Exists(t)
  <2>1. ASSUME NEW v, v = (IF link[k] = 0 THEN None ELSE Present), Return(t, "ok", v)
        PROVE  Map!KVStep
    <3>1. Map!Answer(t, "ok", v)
      BY <1>1, <2>1, Answers
    <3>2. v = (IF TheMap[k] = None THEN None ELSE Present) /\ TheReq[t].op = "exists"
      BY <1>1, <1>3, <1>11, <2>1 DEF Exists
    <3>3. Map!ExistsDone(t)
      BY <1>2, <1>3, <3>1, <3>2 DEF Map!ExistsDone, Map!Answer, TheReq, TheMap, ThePast
    <3> QED BY <3>3 DEF Map!KVStep, Map!KVNext
  <2> QED BY <1>11, <2>1 DEF Exists
<1> QED BY <1>8, <1>9, <1>10, <1>11

LEMMA RemoveIsDelete ==
  ASSUME WholeInv, NEW t \in Threads, DeleteRemove(t)
  PROVE  Map!KVStep
<1> DEFINE c == call[t]
           k == c.key
<1>1. /\ FsInv /\ PlacesOK /\ c.pc # "idle" /\ k \in Keys /\ c.op = "delete" /\ UNCHANGED files
      /\ TheReq[t].op = "delete" /\ TheReq[t].key = k /\ Len(files) \in Nat
  BY WholeFacts DEF WholeInv, FsWellFormed, DeleteRemove, TheReq, RequestOf
<1>2. CASE link[k] = 0 /\ Missing = "err"
  BY <1>1, <1>2, FailsOnMap DEF DeleteRemove
<1>3. CASE link[k] = 0 /\ Missing = "ok"
  <2>1. Map!Answer(t, "ok", None)
    BY <1>1, <1>3, Answers DEF DeleteRemove
  <2>2. UNCHANGED <<TheMap, ThePast>>
    BY <1>1, <1>3, SameMap DEF DeleteRemove, names
  <2>3. TheMap[k] = None
    BY <1>1, <1>3 DEF TheMap, Visible, Shown
  <2>4. Map!NothingToDelete(t)
    BY <1>1, <2>1, <2>2, <2>3 DEF Map!NothingToDelete, TheReq, TheMap, ThePast
  <2> QED BY <2>4 DEF Map!KVStep, Map!KVNext
<1>4. CASE link[k] # 0
  <2>1. Relink(k, 0) /\ Return(t, "ok", None)
    BY <1>4 DEF DeleteRemove
  <2>2. Map!Set(k, None)
    <3>1. 0 \in 0 .. Len(files) /\ Shown(0) = None
      BY <1>1 DEF Shown
    <3> QED BY <1>1, <2>1, <3>1, RelinkIsSet DEF Map!Set
  <2>3. Map!Answer(t, "ok", None)
    BY <1>1, <2>1, Answers
  <2>4. Map!DeleteDone(t)
    BY <1>1, <2>2, <2>3 DEF Map!DeleteDone, Map!Set, TheReq
  <2> QED BY <2>4 DEF Map!KVStep, Map!KVNext
<1> QED BY <1>2, <1>3, <1>4 DEF Missing

LEMMA BeginIsInvoke ==
  ASSUME WholeInv, NEW t \in Threads, BeginCall(t)
  PROVE  Map!KVStep
<1>1. PICK op \in {"put", "get", "delete", "exists"}, k \in Keys, v \in Values \cup {None},
           label \in Pcs : Begin(t, op, k, v, label) /\ Asks(op, v, label)
  BY BeginCases
<1> DEFINE r == [Idle EXCEPT !.pc = label, !.op = op, !.key = k, !.value = v]
           q == [op |-> op, key |-> k, value |-> v, phase |-> "called", result |-> "none"]
<1>2. r.pc # "idle" /\ r.op = op /\ r.key = k /\ r.value = v /\ r.result = "none"
  BY <1>1 DEF Idle, Asks
<1>3. Become(t, r) /\ call[t].pc = "idle" /\ UNCHANGED <<files, names>>
  BY <1>1 DEF Begin, Busy
<1> HIDE DEF r
<1>4. call'[t] = r /\ \A u \in Threads \ {t} : call'[u] = call[u]
  BY <1>3, WholeFacts DEF Become, WholeInv
<1>5. RequestOf(t)' = q /\ \A u \in Threads \ {t} : RequestOf(u)' = RequestOf(u)
  BY <1>2, <1>4 DEF RequestOf, Busy
<1>6. TheReq' = [TheReq EXCEPT ![t] = q] /\ TheReq[t].phase = "answered"
  BY <1>3, <1>5 DEF TheReq, RequestOf, Busy
<1>7. UNCHANGED <<TheMap, ThePast>>
  BY <1>3, SameMap DEF names
<1>8. Map!Invoke(t)
  BY <1>6, <1>7 DEF Map!Invoke, TheMap, ThePast, TheReq
<1> QED BY <1>8 DEF Map!KVStep, Map!KVNext

LEMMA IdleIsNoRequest ==
  ASSUME NEW t \in Threads, call'[t] = Idle
  PROVE  RequestOf(t)' = Map!NoRequest
BY DEF RequestOf, Busy, Idle, Map!NoRequest

LEMMA CrashIsKill ==
  ASSUME WholeInv, NEW p \in Procs, FsCrash(p)
  PROVE  Map!KVStep
<1> DEFINE dead == {t \in Threads : ProcOf[t] = p}
<1>1. UNCHANGED <<TheMap, ThePast>>
  BY SameMap DEF FsCrash, names
<1>2. \A t \in Threads : call'[t] = IF t \in dead THEN Idle ELSE call[t]
  BY DEF FsCrash
<1>3. \A t \in Threads : RequestOf(t)' = IF t \in dead THEN Map!NoRequest ELSE RequestOf(t)
  <2>1. ASSUME NEW t \in dead PROVE RequestOf(t)' = Map!NoRequest
    BY <1>2, IdleIsNoRequest
  <2>2. ASSUME NEW t \in Threads \ dead PROVE RequestOf(t)' = RequestOf(t)
    BY <1>2 DEF RequestOf, Busy
  <2> QED BY <2>1, <2>2
<1>4. TheReq' = [t \in Threads |-> IF t \in dead THEN Map!NoRequest ELSE TheReq[t]]
  BY <1>3 DEF TheReq
<1>5. Map!KilledAll(dead)
  BY <1>1, <1>4 DEF Map!KilledAll, TheMap, ThePast, TheReq
<1>6. dead \in SUBSET Threads
  OBVIOUS
<1> QED BY <1>5, <1>6 DEF Map!KVStep, Map!KVNext

LEMMA PowerIsLost ==
  ASSUME WholeInv, PowerLoss, mishaps' = {}
  PROVE  Map!KVStep
<1>1. /\ call' = [t \in Threads |-> Idle] /\ past' = [k \in Keys |-> {}]
      /\ \A k \in Keys : link'[k] \in past[k] \cup {link[k]}
      /\ PlacesOK /\ mishaps = {}
  BY WholeFacts DEF PowerLoss, WholeInv
<1>2. TheReq' = [t \in Threads |-> Map!NoRequest]
  BY <1>1, IdleIsNoRequest DEF TheReq
<1>3. ThePast' = [k \in Keys |-> {}]
  BY <1>1 DEF ThePast
<1>4. ASSUME NEW k \in Keys
      PROVE  Visible(k)' \in ThePast[k] \cup {TheMap[k]} /\ Visible(k)' \in Values \cup {None}
  <2>1. PICK i : i = link'[k] /\ i \in past[k] \cup {link[k]}
    BY <1>1
  <2>2. Visible(k)' = Shown(i)
    <3>1. CASE i = 0
      BY <2>1, <3>1 DEF Visible, Shown
    <3>2. CASE i # 0
      <4>1. files'[i].data = files[i].data
        BY <2>1, <3>2, PowerKeeps
      <4> QED BY <2>1, <3>2, <4>1 DEF Visible, Shown
    <3> QED BY <3>1, <3>2
  <2>3. Shown(i) \in Values \cup {None}
    <3>1. CASE i = 0
      BY <3>1 DEF Shown
    <3>2. CASE i # 0
      <4>1. i \in DOMAIN files /\ files[i].data # Torn
        BY <1>1, <2>1, <3>2, PowerKeeps DEF WholeInv, HalfDone, LinkedWhole
      <4> QED BY <1>1, <3>2, <4>1, FileType DEF Shown
    <3> QED BY <3>1, <3>2
  <2>4. Shown(i) \in ThePast[k] \cup {TheMap[k]}
    BY <2>1 DEF ThePast, TheMap, Visible
  <2> QED BY <2>2, <2>3, <2>4
<1>5. TheMap' \in [Keys -> Values \cup {None}] /\ \A k \in Keys : TheMap'[k] \in ThePast[k] \cup {TheMap[k]}
  BY <1>4 DEF TheMap
<1>6. Map!Lost
  BY <1>2, <1>3, <1>5 DEF Map!Lost, TheMap, ThePast, TheReq
<1> QED BY <1>6 DEF Map!KVStep, Map!KVNext

LEMMA StepIsMapStep ==
  ASSUME WholeInv, OneCounter, [FsNext]_vars, mishaps' = {}
  PROVE  Map!KVStep
<1>1. ASSUME NEW t \in Threads, FsFail(t) PROVE Map!KVStep
  BY <1>1, FailsOnMap DEF FsFail, WholeInv
<1>2. ASSUME UNCHANGED vars PROVE Map!KVStep
  <2>1. UNCHANGED <<TheMap, ThePast>>
    BY <1>2, SameMap DEF vars, names
  <2>2. UNCHANGED TheReq
    BY <1>2 DEF vars, TheReq, RequestOf, Busy
  <2> QED BY <2>1, <2>2, Stutters
<1> QED BY <1>1, <1>2, CreateIsStutter, WriteIsStutter, RenameIsPut, TestIsStep,
           RemoveIsDelete, BeginIsInvoke, CrashIsKill, PowerIsLost
        DEF FsNext, FsStep, Rest

LEMMA InitIsMapInit == FsInit => Map!KVInit
<1> SUFFICES ASSUME FsInit PROVE Map!KVInit
  OBVIOUS
<1>1. /\ link = [k \in Keys |-> 0] /\ past = [k \in Keys |-> {}]
      /\ call = [t \in Threads |-> Idle]
  BY DEF FsInit
<1>2. TheMap = [k \in Keys |-> None] /\ ThePast = [k \in Keys |-> {}]
  BY <1>1 DEF TheMap, ThePast, Visible, Shown
<1>3. TheReq = [t \in Threads |-> Map!NoRequest]
  BY <1>1 DEF TheReq, RequestOf, Busy, Idle, Map!NoRequest
<1> QED BY <1>2, <1>3 DEF Map!KVInit, TheMap, ThePast, TheReq

\* A backend is a linearizable map of keys to values: every step of the file system
\* is a step of KeyValue or invisible there, a put taking effect at its rename. One
\* process has the directory open; in Go and Python puts of a key do not overlap
\* and no power loss tears a file.
THEOREM BackendIsMap ==
  ASSUME OneCounter
  PROVE  FsSpec => FsIsMap
<1>1. WholeInv /\ [FsNext]_vars => (mishaps' = {} => Map!KVStep)
  BY StepIsMapStep
<1>2. WholeInv /\ [FsNext]_vars => WholeInv'
  BY WholeStep
<1> QED BY <1>1, <1>2, WholeInit, InitIsMapInit, PTL DEF FsSpec, FsIsMap
===============================================================================
