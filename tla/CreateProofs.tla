----------------------------- MODULE CreateProofs -----------------------------
(* A store whose callers only create files and read them, as the backup example *)
(* does: nothing is ever released, so any number of threads may call at once.   *)
(* Whatever calls fail and wherever the process dies, files stay readable and   *)
(* the counts on the backend cover them; while nothing fails, the statistics are *)
(* exact between calls.                                                          *)
EXTENDS DurableProofs

USE DEF StorePcs, CommitPcs, DeletePcs, ReleasePcs, ReadPcs, RepairPcs, BackendPcs

-------------------------------------------------------------------------------
(* Chunks: what a file or a call in progress names is there, since no blob goes. *)

\* The file of a create is new until the call enters it, and the chunks that the
\* call has counted are stored. The index it writes back may be out of date, but
\* lists only files that are there.
Creating(t) ==
  LET c == call[t] IN
  /\ c.pc \in {"idle"} \cup StorePcs \cup CommitPcs \cup ReadPcs
  /\ c.released = 0 /\ c.old = <<>>
  /\ c.pc \in StorePcs \cup {"peek", "insert"} => manifest[c.file] = None
  /\ c.pc \in WrittenPcs => manifest[c.file] = c.new /\ c.done = Len(c.new)
  /\ c.pc \in {"man_index_get", "man_index_put"} => mrec[c.file] = c.new
  /\ c.pc = "man_index_put" => \A f \in c.seen : mrec[f] = manifest[f] /\ manifest[f] # None
  /\ c.pc \in StorePcs \cup CommitPcs => \A i \in 1 .. c.done : c.new[i] \in blobs
  /\ c.pc = "increment" => Chunk(t) \in blobs

FileStored(f) ==
  /\ Needed(manifest[f]) \subseteq blobs /\ Needed(mrec[f]) \subseteq blobs
  /\ up /\ f \in midx => mrec[f] = manifest[f] /\ manifest[f] # None

CreateInv == /\ WritersInv /\ Down
             /\ \A t \in Threads : Creating(t)
             /\ \A f \in Files : FileStored(f)

\* What a step of t leaves to the other threads: it writes its own file only, once.
Respects(t) ==
  /\ blobs \subseteq blobs'
  /\ \A f \in Files :
       /\ manifest'[f] # manifest[f] => manifest[f] = None /\ Writing(t) /\ call[t].file = f
       /\ mrec'[f] # mrec[f] => mrec'[f] = manifest'[f] /\ Writing(t) /\ call[t].file = f

LEMMA OthersCreate ==
  ASSUME WritersInv, NEW t \in Threads, Respects(t), OthersStay(t),
         NEW u \in Threads \ {t}, Creating(u)
  PROVE  Creating(u)'
<1> DEFINE c == call[u]
<1>1. c \in Records /\ WellFormed(c) /\ call'[u] = c /\ Chunk(u)' = Chunk(u)
  BY DEF WritersInv, TypeInv, TypeOK, OthersStay, Chunk
<1>2. ASSUME c.pc \in StorePcs \cup CommitPcs
      PROVE  /\ c.file \in Files /\ c.new \in Contents
             /\ manifest'[c.file] = manifest[c.file] /\ mrec'[c.file] = mrec[c.file]
  <2>1. c.file \in Files /\ c.op = "ingest" /\ c.new \in Contents /\ Writing(u)
    BY <1>1, <1>2 DEF Creating, WellFormed, Writing, Busy
  <2>2. ~(Writing(t) /\ call[t].file = c.file)
    BY <2>1 DEF WritersInv, Exclusive
  <2> QED BY <2>1, <2>2 DEF Respects
<1>3. ASSUME c.pc = "man_index_put", NEW f \in c.seen
      PROVE  mrec'[f] = manifest'[f] /\ manifest'[f] # None
  <2>1. f \in Files /\ mrec[f] = manifest[f] /\ manifest[f] # None
    BY <1>1, <1>3 DEF WellFormed, Creating
  <2> QED BY <2>1 DEF Respects
<1> QED BY <1>1, <1>2, <1>3 DEF Creating, Respects, WrittenPcs

\* A step that leaves the files alone.
LEMMA FilesStayStored ==
  ASSUME NEW t \in Threads, blobs \subseteq blobs', UNCHANGED <<manifest, mrec, midx, up>>,
         \A f \in Files : FileStored(f)
  PROVE  Respects(t) /\ \A f \in Files : FileStored(f)'
BY DEF FileStored, Respects, Needed, ChunksOf

\* Only these steps are open to a create or a read.
LEMMA CreateSteps ==
  ASSUME NEW t \in Threads, Creating(t), Step(t)
  PROVE  \/ StoreExists(t) \/ StorePut(t) \/ Increment(t)
         \/ SaveRefcount(t) \/ RefIndexGet(t) \/ RefIndexPut(t)
         \/ Peek(t) \/ Insert(t) \/ SaveManifest(t) \/ ManIndexGet(t) \/ ManIndexPut(t)
         \/ Lookup(t) \/ Fetch(t)
BY DEF Creating, Step, Remove, RemoveManifest, RmIndexGet, RmIndexPut, Size, Decrement, GcBlob,
   GcRefcount, GcIndexGet, GcIndexPut, FsckLive, FsckList, FsckUnlink

LEMMA ReturnCreates ==
  ASSUME TypeInv, NEW t \in Threads, NEW res, Return(t, res)
  PROVE  Creating(t)'
<1> DEFINE r == Returned(t, res)
<1>1. r.pc = "idle" /\ r.released = 0 /\ r.old = <<>>
  BY DEF Returned, Idle
<1>2. call'[t] = r
  BY GoesOn DEF Return
<1> HIDE DEF r
<1> QED BY <1>1, <1>2 DEF Creating, WrittenPcs

\* Nothing to release: the call is over.
LEMMA ReleaseRestCreates ==
  ASSUME TypeInv, NEW t \in Threads, Creating(t), ReleaseRest(t)
  PROVE  Creating(t)' /\ call'[t].pc = "idle"
<1>1. ~(call[t].released < Len(call[t].old))
  BY DEF Creating
<1> QED BY <1>1, ReturnCreates, ReturnIdle DEF ReleaseRest

LEMMA StoreCreates ==
  ASSUME TypeInv, NEW t \in Threads, Creating(t), \A f \in Files : FileStored(f),
         StoreExists(t) \/ StorePut(t) \/ Increment(t)
  PROVE  Creating(t)' /\ Respects(t) /\ \A f \in Files : FileStored(f)'
<1> DEFINE c == call[t]
<1>1. c \in Records /\ WellFormed(c) /\ Chunk(t) \in Digests /\ c.done \in Nat
  BY ChunkType DEF TypeInv, TypeOK, StoreExists, StorePut, Increment, Records
<1>2. UNCHANGED <<manifest, mrec, midx, up>> /\ blobs \subseteq blobs'
  BY DEF StoreExists, StorePut, Increment, backend, memory
<1>3. Respects(t) /\ \A f \in Files : FileStored(f)'
  BY <1>2, FilesStayStored
<1>4. CASE StoreExists(t)
  <2>1. PICK p \in {"increment", "put"}, x \in BOOLEAN :
               /\ Become(t, [c EXCEPT !.pc = p, !.existed = x])
               /\ p = "increment" => Chunk(t) \in blobs
    BY <1>4 DEF StoreExists
  <2>2. call'[t] = [c EXCEPT !.pc = p, !.existed = x] /\ c.pc = "exists"
    BY <1>4, <2>1, GoesOn DEF StoreExists
  <2>3. call'[t].pc = p /\ Keeps(t) /\ Chunk(t)' = Chunk(t)
    BY <1>1, <2>2 DEF Keeps, Records, Chunk
  <2>4. Creating(t)'
    BY <1>2, <2>1, <2>2, <2>3 DEF Creating, Keeps, WrittenPcs
  <2> QED BY <1>3, <2>4
<1>5. CASE StorePut(t)
  <2>1. /\ Keeps(t) /\ call'[t].pc = "increment" /\ c.pc = "put"
        /\ blobs' = blobs \cup {Chunk(t)}
    BY <1>5, GotoKeeps DEF StorePut
  <2>2. Chunk(t)' = Chunk(t)
    BY <2>1 DEF Chunk, Keeps
  <2>3. Creating(t)'
    BY <1>2, <2>1, <2>2 DEF Creating, Keeps, WrittenPcs
  <2> QED BY <1>3, <2>3
<1>6. CASE Increment(t)
  <2> DEFINE D == Chunk(t)
             r == [c EXCEPT !.pc = "save_refcount", !.done = @ + 1,
                            !.cur = D, !.count = Incremented(D)]
  <2>1. c.pc = "increment" /\ call'[t] = r
    BY <1>6, GoesOn DEF Increment
  <2>2. /\ call'[t].pc = "save_refcount" /\ call'[t].done = c.done + 1
        /\ call'[t].new = c.new /\ call'[t].released = c.released /\ call'[t].old = c.old
        /\ call'[t].file = c.file
    BY <1>1, <2>1 DEF Records
  <2> HIDE DEF r
  <2>3. ASSUME NEW i \in 1 .. c.done + 1 PROVE c.new[i] \in blobs'
    <3>1. CASE i = c.done + 1
      <4>1. c.new[i] = Chunk(t)
        BY <3>1 DEF Chunk
      <4> QED BY <1>2, <2>1, <4>1 DEF Creating
    <3>2. CASE i # c.done + 1
      <4>1. i \in 1 .. c.done
        BY <1>1, <3>2
      <4> QED BY <1>2, <2>1, <4>1 DEF Creating
    <3> QED BY <3>1, <3>2
  <2> HIDE DEF D
  <2>4. Creating(t)'
    BY <1>2, <2>1, <2>2, <2>3 DEF Creating, WrittenPcs
  <2> QED BY <1>3, <2>4
<1> QED BY <1>4, <1>5, <1>6

LEMMA SaveCreates ==
  ASSUME TypeInv, NEW t \in Threads, Creating(t), \A f \in Files : FileStored(f),
         SaveRefcount(t) \/ RefIndexGet(t) \/ RefIndexPut(t)
  PROVE  Creating(t)' /\ Respects(t) /\ \A f \in Files : FileStored(f)'
<1> DEFINE c == call[t]
<1>1. c \in Records /\ WellFormed(c)
  BY DEF TypeInv, TypeOK
<1>2. UNCHANGED <<blobs, manifest, mrec, midx, up>> /\ c.pc \in SavingPcs
  BY DEF SaveRefcount, RefIndexGet, RefIndexPut, backend, memory, SavingPcs
<1>3. Respects(t) /\ \A f \in Files : FileStored(f)'
  BY <1>2, FilesStayStored
<1>4. ASSUME Keeps(t), call'[t].pc \in SavingPcs \cup {"exists", "peek"}
      PROVE  Creating(t)'
  BY <1>2, <1>4 DEF Creating, Keeps, SavingPcs, WrittenPcs
<1>5. RefcountSaved(t) => Keeps(t) /\ call'[t].pc \in {"exists", "peek"}
  BY GotoKeeps DEF Creating, RefcountSaved, Releasing
<1>6. CASE SaveRefcount(t)
  BY <1>3, <1>4, <1>6, GotoKeeps DEF SaveRefcount, SavingPcs
<1>7. CASE RefIndexGet(t)
  BY <1>3, <1>4, <1>5, <1>7, SeenKeeps DEF RefIndexGet, SavingPcs
<1>8. CASE RefIndexPut(t)
  BY <1>3, <1>4, <1>5, <1>8 DEF RefIndexPut
<1> QED BY <1>6, <1>7, <1>8

\* The chunks of a content all of whose positions are stored.
LEMMA AllStored ==
  ASSUME NEW c \in Contents, NEW B, \A i \in 1 .. Len(c) : c[i] \in B
  PROVE  Needed(c) \subseteq B
<1>1. c \in Seq(Digests) /\ c # None
  BY StoreAssumption
<1> QED BY <1>1 DEF Needed, ChunksOf

LEMMA CommitCreates ==
  ASSUME TypeInv, up, NEW t \in Threads, Creating(t), \A f \in Files : FileStored(f),
         Peek(t) \/ Insert(t) \/ SaveManifest(t) \/ ManIndexGet(t) \/ ManIndexPut(t)
  PROVE  Creating(t)' /\ Respects(t) /\ \A f \in Files : FileStored(f)'
<1> DEFINE c == call[t]
           f == call[t].file
<1>1. /\ c \in Records /\ WellFormed(c)
      /\ manifest \in [Files -> Contents \cup {None}]
      /\ mrec \in [Files -> Contents \cup {None}]
  BY DEF TypeInv, TypeOK
<1>2. /\ c.pc \in CommitPcs /\ c.op = "ingest" /\ Writing(t)
      /\ f \in Files /\ c.new \in Contents /\ c.done = Len(c.new)
  BY <1>1 DEF WellFormed, Peek, Insert, SaveManifest, ManIndexGet, ManIndexPut, Writing, Busy,
     Creating, WrittenPcs
<1>3. blobs' = blobs /\ up' = up
  BY DEF Peek, Insert, SaveManifest, ManIndexGet, ManIndexPut, backend, memory
<1>4. Needed(c.new) \subseteq blobs /\ c.new # None
  BY <1>2, AllStored, StoreAssumption DEF Creating
<1>5. CASE Peek(t)
  <2>1. UNCHANGED <<manifest, mrec, midx>> /\ c.pc = "peek"
    BY <1>5 DEF Peek, backend, memory
  <2>2. manifest[f] = None
    BY <2>1 DEF Creating
  <2>3. call'[t] = [c EXCEPT !.pc = "insert", !.old = <<>>]
    BY <1>5, <2>2, GoesOn DEF Peek
  <2>4. /\ call'[t].pc = "insert" /\ call'[t].old = <<>> /\ call'[t].released = c.released
        /\ call'[t].done = c.done /\ call'[t].new = c.new /\ call'[t].file = f
    BY <1>1, <2>3 DEF Records
  <2>5. Creating(t)'
    BY <1>3, <2>1, <2>4 DEF Creating, WrittenPcs
  <2> QED BY <1>3, <2>1, <2>5, FilesStayStored
<1>6. CASE Insert(t)
  <2>1. mrec' = mrec /\ midx' = midx /\ c.pc = "insert" /\ manifest[f] = None
    BY <1>6 DEF Insert, backend, Creating
  <2>2. CASE f \in EmptyIds
    <3>1. Return(t, "err") /\ manifest' = manifest
      BY <1>6, <2>2 DEF Insert
    <3> QED BY <1>3, <2>1, <3>1, ReturnCreates, FilesStayStored
  <2>3. CASE f \notin EmptyIds
    <3>1. /\ Keeps(t) /\ call'[t].pc = "save_manifest"
          /\ manifest' = [manifest EXCEPT ![f] = c.new]
      BY <1>6, <2>3, GotoKeeps DEF Insert
    <3>2. Creating(t)'
      BY <1>1, <1>2, <1>3, <2>1, <3>1 DEF Creating, Keeps, WrittenPcs
    <3>3. Respects(t)
      BY <1>1, <1>2, <1>3, <2>1, <3>1 DEF Respects
    <3>4. ASSUME NEW g \in Files PROVE FileStored(g)'
      <4>1. CASE g = f
        BY <1>1, <1>3, <1>4, <2>1, <3>1, <4>1 DEF FileStored, Needed, ChunksOf
      <4>2. CASE g # f
        <5>1. manifest'[g] = manifest[g]
          BY <1>1, <3>1, <4>2
        <5> QED BY <1>3, <2>1, <5>1 DEF FileStored, Needed, ChunksOf
      <4> QED BY <4>1, <4>2
    <3> QED BY <3>2, <3>3, <3>4
  <2> QED BY <2>2, <2>3
<1>7. CASE SaveManifest(t)
  <2>1. /\ manifest' = manifest /\ midx' = midx /\ mrec' = [mrec EXCEPT ![f] = c.new]
        /\ c.pc = "save_manifest" /\ Keeps(t) /\ call'[t].pc = "man_index_get"
    BY <1>7, GotoKeeps DEF SaveManifest, memory
  <2>2. manifest[f] = c.new /\ mrec'[f] = c.new
    BY <1>1, <1>2, <2>1 DEF Creating, WrittenPcs
  <2>3. Creating(t)'
    BY <1>3, <2>1, <2>2 DEF Creating, Keeps, WrittenPcs
  <2>4. Respects(t)
    BY <1>1, <1>2, <1>3, <2>1, <2>2 DEF Respects
  <2>5. ASSUME NEW g \in Files PROVE FileStored(g)'
    <3>1. CASE g = f
      BY <1>3, <1>4, <2>1, <2>2, <3>1 DEF FileStored, Needed, ChunksOf
    <3>2. CASE g # f
      <4>1. mrec'[g] = mrec[g]
        BY <1>1, <2>1, <3>2
      <4> QED BY <1>3, <2>1, <4>1 DEF FileStored, Needed, ChunksOf
    <3> QED BY <3>1, <3>2
  <2> QED BY <2>3, <2>4, <2>5
<1>8. CASE ManIndexGet(t)
  <2>1. UNCHANGED <<manifest, mrec, midx>> /\ c.pc = "man_index_get"
    BY <1>8 DEF ManIndexGet, backend, memory
  <2>2. CASE f \in midx
    BY <1>3, <1>8, <2>1, <2>2, ReleaseRestCreates, FilesStayStored DEF ManIndexGet
  <2>3. CASE f \notin midx
    <3>1. Keeps(t) /\ call'[t].pc = "man_index_put" /\ call'[t].seen = midx
      BY <1>8, <2>3, SeenKeeps DEF ManIndexGet
    <3>2. \A g \in midx : mrec[g] = manifest[g] /\ manifest[g] # None
      BY DEF FileStored, TypeInv, TypeOK
    <3>3. Creating(t)'
      BY <1>3, <2>1, <3>1, <3>2 DEF Creating, Keeps, WrittenPcs
    <3> QED BY <1>3, <2>1, <3>3, FilesStayStored
  <2> QED BY <2>2, <2>3
<1>9. CASE ManIndexPut(t)
  <2>1. /\ manifest' = manifest /\ mrec' = mrec /\ midx' = c.seen \cup {f}
        /\ c.pc = "man_index_put" /\ ReleaseRest(t)
    BY <1>9 DEF ManIndexPut, memory, IndexWith
  <2>2. manifest[f] = c.new /\ mrec[f] = c.new
    BY <2>1 DEF Creating, WrittenPcs
  <2>3. \A g \in midx' : mrec[g] = manifest[g] /\ manifest[g] # None
    BY <1>4, <2>1, <2>2 DEF Creating
  <2>4. Creating(t)'
    BY <2>1, ReleaseRestCreates
  <2>5. \A g \in Files : FileStored(g)'
    BY <1>3, <2>1, <2>3 DEF FileStored, Needed, ChunksOf
  <2> QED BY <1>3, <2>1, <2>4, <2>5 DEF Respects
<1> QED BY <1>5, <1>6, <1>7, <1>8, <1>9

LEMMA ReadCreates ==
  ASSUME TypeInv, NEW t \in Threads, Creating(t), \A f \in Files : FileStored(f),
         Lookup(t) \/ Fetch(t)
  PROVE  Creating(t)' /\ Respects(t) /\ \A f \in Files : FileStored(f)'
<1> DEFINE c == call[t]
<1>1. c \in Records /\ WellFormed(c)
  BY DEF TypeInv, TypeOK
<1>2. UNCHANGED <<blobs, manifest, mrec, midx, up>>
  BY DEF Lookup, Fetch, backend, memory
<1>3. Respects(t) /\ \A f \in Files : FileStored(f)'
  BY <1>2, FilesStayStored
<1>4. ASSUME NEW n, call'[t] = [c EXCEPT !.pc = "fetch", !.new = n] PROVE Creating(t)'
  <2>1. /\ call'[t].pc = "fetch" /\ call'[t].released = c.released /\ call'[t].old = c.old
    BY <1>1, <1>4 DEF Records
  <2> QED BY <2>1 DEF Creating, WrittenPcs
<1>5. ASSUME c.pc = "fetch", call'[t] = [c EXCEPT !.done = @ + 1] PROVE Creating(t)'
  <2>1. /\ call'[t].pc = "fetch" /\ call'[t].released = c.released /\ call'[t].old = c.old
    BY <1>1, <1>5 DEF Records
  <2> QED BY <2>1 DEF Creating, WrittenPcs
<1>6. CASE Lookup(t)
  BY <1>3, <1>4, <1>6, ReturnCreates, GoesOn DEF Lookup
<1>7. CASE Fetch(t)
  BY <1>3, <1>5, <1>7, ReturnCreates, GoesOn DEF Fetch
<1> QED BY <1>6, <1>7

LEMMA BeginCreates ==
  ASSUME CreatesOnly, TypeInv, NEW t \in Threads, \A f \in Files : FileStored(f), BeginCall(t)
  PROVE  Creating(t)' /\ Respects(t) /\ \A f \in Files : FileStored(f)'
<1>1. UNCHANGED <<blobs, manifest, mrec, midx, up>>
  BY DEF BeginCall, BeginIngest, BeginDelete, BeginRead, BeginRepair, Begin, backend, memory
<1>2. ASSUME NEW op, NEW f, NEW x, NEW label, Begin(t, op, f, x, label),
             label \in {"peek", "exists", "lookup"},
             label # "lookup" => manifest[f] = None
      PROVE  Creating(t)'
  <2> DEFINE r == [Idle EXCEPT !.pc = label, !.op = op, !.file = f, !.new = x]
  <2>1. /\ r.pc = label /\ r.file = f /\ r.old = <<>> /\ r.done = 0 /\ r.released = 0
        /\ Become(t, r)
    BY <1>2 DEF Begin, Idle
  <2> HIDE DEF r
  <2>2. call'[t] = r
    BY <2>1, GoesOn
  <2> QED BY <1>1, <1>2, <2>1, <2>2 DEF Creating, WrittenPcs
<1>3. CASE \E f \in Files, x \in Contents : BeginIngest(t, f, x)
  <2>1. PICK f \in Files, x \in Contents : BeginIngest(t, f, x)
    BY <1>3
  <2>2. manifest[f] = None /\ \E label \in {"peek", "exists"} : Begin(t, "ingest", f, x, label)
    BY <2>1 DEF BeginIngest, CreatesOnly
  <2> QED BY <1>1, <1>2, <2>2, FilesStayStored
<1>4. CASE \E f \in Files : BeginRead(t, f)
  BY <1>1, <1>2, <1>4, FilesStayStored DEF BeginRead
<1>5. ~(\E f \in Files : BeginDelete(t, f)) /\ ~BeginRepair(t)
  BY DEF BeginDelete, BeginRepair, CreatesOnly
<1> QED BY <1>3, <1>4, <1>5 DEF BeginCall

LEMMA CreateThread ==
  ASSUME CreatesOnly, CreateInv, TypeInv', NEW t \in Threads, BeginCall(t) \/ Step(t) \/ Fail(t)
  PROVE  CreateInv' /\ up /\ up' /\ Respects(t) /\ \A d \in Digests : NoLoss(d)
<1>1. /\ TypeInv /\ WritersInv /\ Creating(t) /\ up
      /\ \A f \in Files : FileStored(f)
  BY RunsUp DEF CreateInv, WritersInv
<1>2. WritersInv' /\ up' = up /\ \A d \in Digests : NoLoss(d)
  BY <1>1, RunningThread DEF WritersApart
<1>3. Creating(t)' /\ Respects(t) /\ \A f \in Files : FileStored(f)'
  <2>1. CASE BeginCall(t)
    BY <1>1, <2>1, BeginCreates
  <2>2. CASE Step(t)
    BY <1>1, <2>2, CreateSteps, StoreCreates, SaveCreates, CommitCreates, ReadCreates
  <2>3. CASE Fail(t)
    <3>1. UNCHANGED <<blobs, manifest, mrec, midx, up>> /\ Return(t, "err")
      BY <2>3 DEF Fail, backend, memory
    <3> QED BY <1>1, <3>1, ReturnCreates, FilesStayStored
  <2> QED BY <2>1, <2>2, <2>3
<1>4. ASSUME NEW u \in Threads \ {t} PROVE Creating(u)'
  BY <1>1, <1>3, OthersCreate, OthersStayPut DEF CreateInv
<1> QED BY <1>1, <1>2, <1>3, <1>4 DEF CreateInv, Down

LEMMA CreateRest ==
  ASSUME CreateInv, TypeInv', Crash \/ Open \/ UNCHANGED vars
  PROVE  CreateInv'
<1> USE DEF backend, memory
<1>1. ASSUME NEW t \in Threads, call'[t] = Idle PROVE Creating(t)'
  BY <1>1 DEF Idle, Creating, WrittenPcs
<1>2. CASE Crash
  <2>1. /\ UNCHANGED <<blobs, mrec, midx>> /\ up' = FALSE /\ \A t \in Threads : call'[t] = Idle
        /\ manifest' = [f \in Files |-> None]
    BY <1>2 DEF Crash
  <2>2. \A f \in Files : FileStored(f)'
    BY <2>1 DEF CreateInv, FileStored, Needed, ChunksOf
  <2> QED BY <1>1, <2>1, <2>2, AllIdleAfter DEF CreateInv, Down
<1>3. CASE Open
  <2>1. /\ UNCHANGED <<blobs, mrec, midx>> /\ up' = TRUE /\ \A t \in Threads : call'[t] = Idle
        /\ manifest' = [f \in Files |-> LoadedFile(f)]
        /\ \A f \in midx : mrec[f] # None
    BY <1>3 DEF Open, CreateInv, Down, Openable
  <2>2. \A f \in Files : FileStored(f)'
    BY <2>1 DEF CreateInv, FileStored, Needed, ChunksOf, LoadedFile
  <2> QED BY <1>1, <2>1, <2>2, AllIdleAfter DEF CreateInv, Down
<1>4. CASE UNCHANGED vars
  <2>1. UNCHANGED <<blobs, mrec, midx, manifest, call, up>>
    BY <1>4 DEF vars
  <2>2. WritersInv'
    BY <2>1 DEF CreateInv, WritersInv, Exclusive, PeekedIsCurrent, ContentOf, Writing, Busy
  <2>3. (\A t \in Threads : Creating(t)') /\ \A f \in Files : FileStored(f)'
    BY <2>1 DEF CreateInv, FileStored, Needed, ChunksOf, Creating, Chunk
  <2> QED BY <2>1, <2>2, <2>3 DEF CreateInv, Down
<1> QED BY <1>2, <1>3, <1>4

LEMMA CreateInitially == Init => CreateInv
<1> SUFFICES ASSUME Init PROVE CreateInv
  OBVIOUS
<1>1. WritersInv /\ up /\ \A t \in Threads : call[t] = Idle
  BY WritersInit DEF Init
<1>2. \A t \in Threads : Creating(t)
  BY <1>1 DEF Idle, Creating, WrittenPcs
<1>3. \A f \in Files : FileStored(f)
  BY DEF Init, FileStored, Needed
<1> QED BY <1>1, <1>2, <1>3 DEF CreateInv, Down

LEMMA CreateAlways ==
  ASSUME CreatesOnly
  PROVE  Spec => []CreateInv
<1>1. ASSUME CreateInv, [Next]_vars PROVE CreateInv'
  <2>1. TypeInv'
    BY <1>1, TypeInvStep DEF CreateInv, WritersInv
  <2> QED BY <1>1, <2>1, CreateThread, CreateRest DEF Next, Rest
<1> QED BY <1>1, CreateInitially, PTL DEF Spec

\* However many threads create files and read them, every chunk of a file has its
\* blob, so that read finds it: whatever calls have failed and however often the
\* process has died.
THEOREM CreatesReadable ==
  ASSUME CreatesOnly
  PROVE  Spec => []FilesReadable
<1>1. CreateInv => FilesReadable
  BY DEF CreateInv, FileStored, FilesReadable, Referenced
<1> QED BY <1>1, CreateAlways, PTL

\* And so are the files that a reopened store would list: the record of a file is
\* written after all of its chunks, and stays as it is.
THEOREM CreatesSurvive ==
  ASSUME CreatesOnly
  PROVE  Spec => []DurableFilesIntact
<1>1. CreateInv => DurableFilesIntact
  BY DEF CreateInv, FileStored, DurableFilesIntact, LoadedFile, Needed
<1> QED BY <1>1, CreateAlways, PTL

-------------------------------------------------------------------------------
(* Linearizability: a file that is there stays as it is, so that a read streams *)
(* what it has looked up whoever else calls.                                    *)

CreateReadInv == CreateInv /\ up /\ \A t \in Threads : ReadCurrent(t)

LEMMA CreateReadStep ==
  ASSUME CreatesOnly, MaxCrashes = 0, CreateReadInv, [Next]_vars
  PROVE  CreateReadInv' /\ ~Crash /\ ~Open
<1>1. TypeInv /\ TypeInv' /\ CreateInv /\ up /\ crashes \in Nat
  BY TypeInvStep DEF CreateReadInv, CreateInv, WritersInv, TypeInv, TypeOK
<1>2. ~Crash /\ ~Open
  BY <1>1 DEF Crash, Open
<1> SUFFICES CreateReadInv'
  BY <1>2
<1>3. ASSUME NEW t \in Threads, BeginCall(t) \/ Step(t) \/ Fail(t)
      PROVE  CreateReadInv'
  <2>1. CreateInv' /\ up' /\ Respects(t) /\ OthersStay(t) /\ ReadCurrent(t)'
    BY <1>1, <1>3, CreateThread, OthersStayPut, ReadsCurrent DEF CreateReadInv
  <2>2. ASSUME NEW u \in Threads \ {t} PROVE ReadCurrent(u)'
    <3> DEFINE c == call[u]
               n == c.new
    <3>1. ReadCurrent(u) /\ call'[u] = c
      BY <2>1 DEF CreateReadInv, OthersStay
    <3>2. ASSUME c.pc = "fetch" PROVE manifest'[c.file] = manifest[c.file]
      <4>1. /\ c.file \in Files /\ n = manifest[c.file] /\ c.done < Len(n)
            /\ n \in Contents \cup {<<>>} /\ c.done \in Nat
        BY <1>1, <3>1, <3>2, StoreAssumption DEF TypeInv, TypeOK, Records, WellFormed, ReadCurrent
      <4> HIDE DEF n
      <4>2. n # None
        BY <4>1, StoreAssumption
      <4> QED BY <2>1, <4>1, <4>2 DEF Respects
    <3> QED BY <3>1, <3>2 DEF ReadCurrent
  <2> QED BY <2>1, <2>2 DEF CreateReadInv
<1>4. CASE UNCHANGED vars
  <2>1. UNCHANGED <<manifest, call, up>>
    BY <1>4 DEF vars, memory
  <2>2. CreateInv'
    BY <1>1, <1>4, CreateRest
  <2> QED BY <2>1, <2>2 DEF CreateReadInv, ReadCurrent
<1> QED BY <1>2, <1>3, <1>4 DEF Next, Rest

\* However many threads create files and read them, each call takes effect on the
\* whole file at one instant: no reader sees part of a file, and none fails on a
\* file that is there.
THEOREM CreatesLinearizable ==
  ASSUME CreatesOnly, MaxFaults = 0, MaxCrashes = 0
  PROVE  Spec => Linearizable
<1>1. ASSUME CreateReadInv, [Next]_vars PROVE CreateReadInv' /\ MemoryStep
  <2>1. CreateReadInv' /\ ~Crash /\ TypeInv /\ up /\ Down /\ FilesReadable
    BY <1>1, CreateReadStep DEF CreateReadInv, CreateInv, WritersInv, FileStored, FilesReadable,
       Referenced
  <2>2. ASSUME NEW t \in Threads PROVE NoError(t)
    <3>1. call[t].pc \notin {"size", "decrement"} /\ ReadCurrent(t)
      BY <1>1 DEF CreateReadInv, CreateInv, Creating
    <3>2. call[t].pc = "fetch" => Chunk(t) \in blobs
      BY <2>1, <3>1, ReadsFind
    <3> QED BY <3>1, <3>2 DEF NoError, ReadCurrent
  <2>3. ASSUME NEW t \in Threads PROVE ~Fail(t) /\ ~Unsized(t)
    <3>1. ~(faults < MaxFaults)
      BY <2>1 DEF TypeInv, TypeOK
    <3>2. call[t].pc # "size"
      BY <1>1 DEF CreateReadInv, CreateInv, Creating
    <3> QED BY <3>1, <3>2 DEF Fail, Unsized, Size
  <2> QED BY <1>1, <2>1, <2>2, <2>3, LinearStep
<1>2. Init => CreateReadInv
  BY CreateInitially DEF Init, Idle, CreateReadInv, ReadCurrent
<1> QED BY <1>1, <1>2, MemInit, PTL DEF Spec, Linearizable, InMemory!FSSpec, MemoryStep

-------------------------------------------------------------------------------
(* Counts: save_refcount runs under the refcount mutex, so that one thread at a *)
(* time writes counts to the backend, and what it writes is what memory counts. *)

Saves(t) ==
  LET c == call[t] IN
  /\ c.pc \in SavingPcs => /\ refLock = t /\ c.count = rc[c.cur]
                           /\ c.done > 0 /\ c.new[c.done] = c.cur
  /\ c.pc \in {"index_get", "index_put"} => rrec[c.cur] = c.count
  /\ c.pc = "index_put" => c.seen = ridx

Saving(d)  == \E t \in Threads : call[t].pc \in SavingPcs /\ call[t].cur = d
Unsaved(d) == IF Saving(d) THEN 1 ELSE 0

\* The backend's counts lag by at most the one reference whose count is on the way.
NearlySaved == \A d \in Digests : Cardinality(Refs(d)) <= LoadedCount(d) + Unsaved(d)

CountInv == /\ CreateInv
            /\ \A t \in Threads : Saves(t)
            /\ up => RefcountCovers /\ NearlySaved
            /\ DurableRefcountCovers
            /\ up /\ faults = 0 => CountsMatch

\* A step of t while another thread saves a count does not touch the counts.
Excludes(t) == \A u \in Threads \ {t} : refLock = u => UNCHANGED <<rc, rrec, ridx, refLock>>

LEMMA OthersSave ==
  ASSUME NEW t \in Threads, Excludes(t), OthersStay(t), NEW u \in Threads \ {t}, Saves(u)
  PROVE  Saves(u)'
<1>1. call'[u] = call[u]
  BY DEF OthersStay
<1>2. CASE call[u].pc \in SavingPcs
  <2>1. UNCHANGED <<rc, rrec, ridx, refLock>>
    BY <1>2 DEF Saves, Excludes
  <2> QED BY <1>1, <2>1 DEF Saves
<1>3. CASE call[u].pc \notin SavingPcs
  BY <1>1, <1>3 DEF Saves, SavingPcs
<1> QED BY <1>2, <1>3

\* The five things a step can do to the counts.
CountsRest(t)   == /\ call[t].pc \notin SavingPcs /\ call'[t].pc \notin SavingPcs
                   /\ rc' = rc /\ \A d \in Digests : LoadedCount(d)' = LoadedCount(d)
SaveBegins(t)   == /\ refLock = None /\ call[t].pc \notin SavingPcs
                   /\ call'[t].pc \in SavingPcs
                   /\ \A d \in Digests : /\ LoadedCount(d)' = LoadedCount(d)
                                         /\ d = call'[t].cur => rc'[d] = rc[d] + 1
                                         /\ d # call'[t].cur => rc'[d] = rc[d]
SaveGoesOn(t)   == /\ call[t].pc \in SavingPcs /\ call'[t].pc \in SavingPcs
                   /\ call'[t].cur = call[t].cur /\ rc' = rc
                   /\ \A d \in Digests : \/ LoadedCount(d)' = LoadedCount(d)
                                         \/ d = call[t].cur /\ LoadedCount(d)' = rc[d]
SaveEnds(t)     == /\ call[t].pc \in SavingPcs /\ call'[t].pc \notin SavingPcs /\ rc' = rc
                   /\ \A d \in Digests : \/ d = call[t].cur /\ LoadedCount(d)' = rc[d]
                                         \/ d # call[t].cur /\ LoadedCount(d)' = LoadedCount(d)
SaveIsCut(t)    == /\ call[t].pc \in SavingPcs /\ Fail(t) /\ rc' = rc
                   /\ \A d \in Digests : LoadedCount(d)' = LoadedCount(d)

CountEffect(t) == /\ Saves(t)' /\ Excludes(t)
                  /\ \/ CountsRest(t) \/ SaveBegins(t) \/ SaveGoesOn(t) \/ SaveEnds(t)
                     \/ SaveIsCut(t)

LEMMA IncrementEffect ==
  ASSUME TypeInv, NEW t \in Threads, Creating(t), Increment(t)
  PROVE  CountEffect(t)
<1> DEFINE c == call[t]
           D == Chunk(t)
           r == [c EXCEPT !.pc = "save_refcount", !.done = @ + 1,
                          !.cur = D, !.count = Incremented(D)]
<1>1. /\ c \in Records /\ rc \in [Digests -> Nat] /\ D \in Digests /\ c.done \in Nat
      /\ call \in [Threads -> Records]
  <2>1. /\ rc \in [Digests -> Nat] /\ call \in [Threads -> Records] /\ c \in Records
    BY DEF TypeInv, TypeOK
  <2>2. D \in Digests
    BY ChunkType DEF Increment
  <2>3. c.done \in Nat
    BY <2>1 DEF Records
  <2> QED BY <2>1, <2>2, <2>3
<1>2. /\ c.pc = "increment" /\ refLock = None /\ refLock' = t
      /\ rc' = [rc EXCEPT ![D] = @ + 1] /\ rrec' = rrec /\ ridx' = ridx
  BY DEF Increment, backend
<1>3. call'[t] = r
  BY GoesOn DEF Increment
<1>4. /\ call'[t].pc = "save_refcount" /\ call'[t].done = c.done + 1
      /\ call'[t].new = c.new /\ call'[t].cur = D /\ call'[t].count = rc[D] + 1
  BY <1>1, <1>3 DEF Records, Incremented
<1> HIDE DEF r
<1>5. c.new[c.done + 1] = D /\ c.done + 1 > 0
  BY <1>1 DEF Chunk
<1> HIDE DEF D
<1>6. rc'[D] = rc[D] + 1
  BY <1>1, <1>2
<1>7. Saves(t)'
  BY <1>2, <1>4, <1>5, <1>6 DEF Saves, SavingPcs
<1>8. Excludes(t)
  BY <1>2, StoreAssumption DEF Excludes
<1>9. SaveBegins(t)
  BY <1>1, <1>2, <1>4, <1>6 DEF SaveBegins, SavingPcs, LoadedCount
<1> QED BY <1>7, <1>8, <1>9 DEF CountEffect

LEMMA SaveEffect ==
  ASSUME TypeInv, NEW t \in Threads, Creating(t), Saves(t),
         SaveRefcount(t) \/ RefIndexGet(t) \/ RefIndexPut(t)
  PROVE  CountEffect(t)
<1> DEFINE c == call[t]
<1>1. /\ c \in Records /\ WellFormed(c) /\ rrec \in [Digests -> Nat]
  BY DEF TypeInv, TypeOK
<1>2. /\ c.pc \in SavingPcs /\ c.cur \in Digests /\ rc' = rc
      /\ refLock = t /\ c.count = rc[c.cur] /\ c.done > 0 /\ c.new[c.done] = c.cur
  BY <1>1 DEF WellFormed, SavingPcs, Saves, SaveRefcount, RefIndexGet, RefIndexPut, memory
<1>3. Excludes(t)
  BY <1>2 DEF Excludes
<1>4. ASSUME RefcountSaved(t)
      PROVE  call'[t].pc \in {"exists", "peek"}
  BY <1>4, GotoKeeps DEF Creating, RefcountSaved, Releasing
<1>5. CASE SaveRefcount(t)
  <2>1. /\ Keeps(t) /\ call'[t].pc = "index_get" /\ refLock' = refLock
        /\ rrec' = [rrec EXCEPT ![c.cur] = c.count] /\ ridx' = ridx
    BY <1>5, GotoKeeps DEF SaveRefcount, locks
  <2>2. rrec'[c.cur] = rc[c.cur]
    BY <1>1, <1>2, <2>1
  <2>3. Saves(t)'
    BY <1>2, <2>1, <2>2 DEF Saves, Keeps, SavingPcs
  <2>4. SaveGoesOn(t)
    BY <1>1, <1>2, <2>1, <2>2 DEF SaveGoesOn, Keeps, SavingPcs, LoadedCount
  <2> QED BY <1>3, <2>3, <2>4 DEF CountEffect
<1>6. CASE RefIndexGet(t)
  <2>1. c.pc = "index_get" /\ rrec' = rrec /\ ridx' = ridx /\ rrec[c.cur] = rc[c.cur]
    BY <1>2, <1>6 DEF RefIndexGet, backend, Saves
  <2>2. CASE c.cur \in ridx
    <3>1. call'[t].pc \in {"exists", "peek"}
      BY <1>4, <1>6, <2>2 DEF RefIndexGet
    <3>2. Saves(t)'
      BY <3>1 DEF Saves, SavingPcs
    <3>3. SaveEnds(t)
      BY <1>2, <2>1, <2>2, <3>1 DEF SaveEnds, SavingPcs, LoadedCount
    <3> QED BY <1>3, <3>2, <3>3 DEF CountEffect
  <2>3. CASE c.cur \notin ridx
    <3>1. Keeps(t) /\ call'[t].pc = "index_put" /\ call'[t].seen = ridx /\ refLock' = refLock
      BY <1>6, <2>3, SeenKeeps DEF RefIndexGet
    <3>2. Saves(t)'
      BY <1>2, <2>1, <3>1 DEF Saves, Keeps, SavingPcs
    <3>3. SaveGoesOn(t)
      BY <1>2, <2>1, <3>1 DEF SaveGoesOn, Keeps, SavingPcs, LoadedCount
    <3> QED BY <1>3, <3>2, <3>3 DEF CountEffect
  <2> QED BY <2>2, <2>3
<1>7. CASE RefIndexPut(t)
  <2>1. /\ c.pc = "index_put" /\ rrec' = rrec /\ rrec[c.cur] = rc[c.cur]
        /\ ridx' = ridx \cup {c.cur} /\ call'[t].pc \in {"exists", "peek"}
    BY <1>2, <1>4, <1>7 DEF RefIndexPut, Saves, IndexWith
  <2>2. Saves(t)'
    BY <2>1 DEF Saves, SavingPcs
  <2>3. SaveEnds(t)
    BY <1>2, <2>1 DEF SaveEnds, SavingPcs, LoadedCount
  <2> QED BY <1>3, <2>2, <2>3 DEF CountEffect
<1> QED BY <1>5, <1>6, <1>7

LEMMA ThreadEffect ==
  ASSUME CreatesOnly, TypeInv, NEW t \in Threads, Creating(t), Saves(t),
         BeginCall(t) \/ Step(t) \/ Fail(t)
  PROVE  CountEffect(t)
<1> USE DEF backend, memory, locks
<1>1. ASSUME call[t].pc \notin SavingPcs, call'[t].pc \notin SavingPcs,
             UNCHANGED <<rc, rrec, ridx, refLock>>
      PROVE  CountEffect(t)
  <2>1. Saves(t)' /\ Excludes(t)
    BY <1>1 DEF Saves, Excludes, SavingPcs
  <2>2. CountsRest(t)
    BY <1>1 DEF CountsRest, LoadedCount
  <2> QED BY <2>1, <2>2 DEF CountEffect
<1>2. CASE BeginCall(t)
  <2>1. ASSUME NEW op, NEW f, NEW x, NEW label, Begin(t, op, f, x, label),
               label \notin SavingPcs
        PROVE  CountEffect(t)
    <3> DEFINE r == [Idle EXCEPT !.pc = label, !.op = op, !.file = f, !.new = x]
    <3>1. r.pc = label /\ Become(t, r) /\ call[t].pc = "idle"
      BY <2>1 DEF Begin, Idle, Busy
    <3> HIDE DEF r
    <3>2. call'[t].pc = label
      BY <3>1, GoesOn
    <3>3. UNCHANGED <<rc, rrec, ridx, refLock>>
      BY <2>1 DEF Begin
    <3> QED BY <1>1, <2>1, <3>1, <3>2, <3>3 DEF SavingPcs
  <2> QED BY <1>2, <2>1 DEF BeginCall, BeginIngest, BeginDelete, BeginRead, BeginRepair, SavingPcs
<1>3. CASE Increment(t)
  BY <1>3, IncrementEffect
<1>4. CASE SaveRefcount(t) \/ RefIndexGet(t) \/ RefIndexPut(t)
  BY <1>4, SaveEffect
<1>5. CASE Step(t) /\ ~(Increment(t) \/ SaveRefcount(t) \/ RefIndexGet(t) \/ RefIndexPut(t))
  <2>1. \/ StoreExists(t) \/ StorePut(t) \/ Peek(t) \/ Insert(t) \/ SaveManifest(t)
        \/ ManIndexGet(t) \/ ManIndexPut(t) \/ Lookup(t) \/ Fetch(t)
    BY <1>5, CreateSteps
  <2>2. UNCHANGED <<rc, rrec, ridx, refLock>> /\ call[t].pc \notin SavingPcs
    BY <2>1 DEF StoreExists, StorePut, Peek, Insert, SaveManifest, ManIndexGet, ManIndexPut,
       Lookup, Fetch, SavingPcs
  <2>3. call'[t].pc \notin SavingPcs
    <3>1. call[t] \in Records
      BY DEF TypeInv, TypeOK
    <3>2. ASSUME NEW r, Become(t, r), r.pc \notin SavingPcs PROVE call'[t].pc \notin SavingPcs
      BY <3>2, GoesOn
    <3>3. CASE StoreExists(t)
      <4>1. PICK p \in {"increment", "put"}, x \in BOOLEAN :
                   call'[t] = [call[t] EXCEPT !.pc = p, !.existed = x]
        BY <3>3, GoesOn DEF StoreExists
      <4>2. call'[t].pc = p
        BY <3>1, <4>1 DEF Records
      <4> QED BY <4>2 DEF SavingPcs
    <3>4. CASE Peek(t)
      <4>1. PICK x : call'[t] = [call[t] EXCEPT !.pc = "insert", !.old = x]
        BY <3>4, GoesOn DEF Peek
      <4>2. call'[t].pc = "insert"
        BY <3>1, <4>1 DEF Records
      <4> QED BY <4>2 DEF SavingPcs
    <3>5. CASE Lookup(t)
      <4>1. CASE \E res : Return(t, res)
        BY <4>1, ReturnIdle DEF SavingPcs
      <4>2. CASE ~\E res : Return(t, res)
        <5>1. PICK x : call'[t] = [call[t] EXCEPT !.pc = "fetch", !.new = x]
          BY <3>5, <4>2, GoesOn DEF Lookup
        <5>2. call'[t].pc = "fetch"
          BY <3>1, <5>1 DEF Records
        <5> QED BY <5>2 DEF SavingPcs
      <4> QED BY <4>1, <4>2
    <3>7. CASE StorePut(t) \/ Insert(t) \/ SaveManifest(t)
      BY <3>7, GoesTo, ReturnIdle DEF StorePut, Insert, SaveManifest, SavingPcs
    <3>8. CASE ManIndexGet(t) \/ ManIndexPut(t)
      BY <3>8, GoesSeen, ReleaseRestCreates DEF ManIndexGet, ManIndexPut, SavingPcs
    <3>9. CASE Fetch(t)
      <4>1. [call[t] EXCEPT !.done = @ + 1].pc = call[t].pc
        BY <3>1 DEF Records
      <4> QED BY <2>2, <3>2, <3>9, <4>1, ReturnIdle DEF Fetch, SavingPcs
    <3> QED BY <2>1, <3>3, <3>4, <3>5, <3>7, <3>8, <3>9
  <2> QED BY <1>1, <2>2, <2>3
<1>6. CASE Fail(t)
  <2>1. /\ call'[t].pc = "idle" /\ UNCHANGED <<rc, rrec, ridx>>
        /\ refLock' = IF refLock = t THEN None ELSE refLock
    BY <1>6, ReturnIdle DEF Fail
  <2>2. Saves(t)' /\ Excludes(t)
    BY <2>1 DEF Saves, Excludes, SavingPcs
  <2>3. CountsRest(t) \/ SaveIsCut(t)
    BY <1>6, <2>1 DEF CountsRest, SaveIsCut, LoadedCount, SavingPcs
  <2> QED BY <2>2, <2>3 DEF CountEffect
<1> QED BY <1>2, <1>3, <1>4, <1>5, <1>6

\* No two threads save at once, so at most one chunk is on its way.
LEMMA SavingOne ==
  ASSUME NEW t \in Threads, call[t].pc \in SavingPcs, \A u \in Threads : Saves(u), NEW d
  PROVE  Saving(d) <=> d = call[t].cur
BY DEF Saves, Saving

\* What is on its way after a step of t.
LEMMA SavingAfter ==
  ASSUME NEW t \in Threads, OthersStay(t), \A u \in Threads : Saves(u), CountEffect(t),
         TypeInv, TypeInv', NEW d
  PROVE  /\ CountsRest(t) => (Saving(d)' <=> Saving(d))
         /\ SaveBegins(t) => ~Saving(d) /\ (Saving(d)' <=> d = call'[t].cur)
         /\ SaveGoesOn(t) => (Saving(d)' <=> Saving(d)) /\ (Saving(d) <=> d = call[t].cur)
         /\ SaveEnds(t) \/ SaveIsCut(t) => ~Saving(d)' /\ (Saving(d) <=> d = call[t].cur)
<1>1. \A u \in Threads \ {t} : call'[u] = call[u]
  BY DEF OthersStay
<1>2. call[t].pc \in SavingPcs => \A u \in Threads \ {t} : call[u].pc \notin SavingPcs
  BY DEF Saves
<1>3. CASE CountsRest(t)
  <2>1. Saving(d)' <=> Saving(d)
    BY <1>1, <1>3 DEF CountsRest, Saving
  <2>2. call[t].pc \notin SavingPcs /\ call'[t].pc \notin SavingPcs
    BY <1>3 DEF CountsRest
  <2>3. ~SaveIsCut(t) /\ ~SaveBegins(t) /\ ~SaveGoesOn(t) /\ ~SaveEnds(t)
    BY <2>2 DEF SaveIsCut, SaveBegins, SaveGoesOn, SaveEnds
  <2> QED BY <2>1, <2>3
<1>4. CASE SaveBegins(t)
  <2>1. refLock = None /\ call'[t].pc \in SavingPcs /\ call[t].pc \notin SavingPcs
    BY <1>4 DEF SaveBegins
  <2>2. \A u \in Threads : call[u].pc \notin SavingPcs
    BY <2>1, StoreAssumption DEF Saves
  <2>3. ~Saving(d) /\ (Saving(d)' <=> d = call'[t].cur)
    BY <1>1, <2>1, <2>2 DEF Saving
  <2>4. ~SaveIsCut(t) /\ ~CountsRest(t) /\ ~SaveGoesOn(t) /\ ~SaveEnds(t)
    BY <2>1 DEF SaveIsCut, CountsRest, SaveGoesOn, SaveEnds
  <2> QED BY <2>3, <2>4
<1>5. CASE SaveGoesOn(t)
  <2>1. call[t].pc \in SavingPcs /\ call'[t].pc \in SavingPcs /\ call'[t].cur = call[t].cur
    BY <1>5 DEF SaveGoesOn
  <2>2. (Saving(d)' <=> Saving(d)) /\ (Saving(d) <=> d = call[t].cur)
    BY <1>1, <1>2, <2>1, SavingOne DEF Saving
  <2>3. ~CountsRest(t) /\ ~SaveBegins(t) /\ ~SaveEnds(t)
    BY <2>1 DEF CountsRest, SaveBegins, SaveEnds
  <2>4. ~SaveIsCut(t)
    BY <2>1, ReturnIdle DEF SaveIsCut, Fail, SavingPcs
  <2> QED BY <2>2, <2>3, <2>4
<1>6. CASE SaveEnds(t) \/ SaveIsCut(t)
  <2>1. call[t].pc \in SavingPcs
    BY <1>6 DEF SaveEnds, SaveIsCut
  <2>2. call'[t].pc \notin SavingPcs
    BY <1>6, ReturnIdle DEF SaveEnds, SaveIsCut, Fail, SavingPcs
  <2>3. ~Saving(d)' /\ (Saving(d) <=> d = call[t].cur)
    BY <1>1, <1>2, <2>1, <2>2, SavingOne DEF Saving
  <2>4. ~CountsRest(t) /\ ~SaveBegins(t) /\ ~SaveGoesOn(t)
    BY <2>1, <2>2 DEF CountsRest, SaveBegins, SaveGoesOn
  <2> QED BY <2>3, <2>4
<1> QED BY <1>3, <1>4, <1>5, <1>6 DEF CountEffect

\* The reference whose count is being saved is one that a call holds.
LEMMA SavedRef ==
  ASSUME TypeInv, NEW t \in Threads, Creating(t), Saves(t), call[t].pc \in SavingPcs
  PROVE  <<<<"held", t>>, call[t].done>> \in HeldRefs(call[t].cur)
<1> DEFINE c == call[t]
<1>1. c \in Records /\ WellFormed(c) /\ c.released = 0
  BY DEF TypeInv, TypeOK, Creating
<1>2. c.op = "ingest" /\ c.new \in Contents /\ c.done <= Len(c.new) /\ c.done \in Nat
  BY <1>1 DEF WellFormed, Records, SavingPcs
<1>3. c.done > 0 /\ c.new[c.done] = c.cur
  BY DEF Saves
<1>4. c.done \in Positions
  BY <1>2, <1>3, StoreAssumption DEF Positions
<1> QED BY <1>1, <1>2, <1>3, <1>4 DEF HeldRefs, Uncommitted, SavingPcs

\* A call that fails while it saves a count lets go of that reference.
LEMMA CutLosesOne ==
  ASSUME TypeInv, TypeInv', NEW t \in Threads, Creating(t), Saves(t), call[t].pc \in SavingPcs,
         Fail(t), NEW d, d = call[t].cur
  PROVE  Cardinality(Refs(d)') + 1 <= Cardinality(Refs(d))
<1> DEFINE x == <<<<"held", t>>, call[t].done>>
<1>1. x \in Refs(d)
  BY SavedRef DEF Refs
<1>2. Refs(d)' \subseteq Refs(d) /\ call'[t].pc = "idle"
  <2>1. manifest' = manifest /\ OthersStay(t) /\ NoRefs(t)
    BY QuietReturn DEF Fail, memory, QuietMove, Continues
  <2> QED BY <2>1, NoRefsStep DEF NoRefs
<1>3. x \notin Refs(d)'
  BY <1>2 DEF Refs, FileRefs, HeldRefs, OwedRefs, Uncommitted
<1> HIDE DEF x
<1>4. /\ IsFiniteSet(Refs(d)) /\ IsFiniteSet(Refs(d) \ {x})
      /\ Cardinality(Refs(d) \ {x}) = Cardinality(Refs(d)) - 1
  BY <1>1, RefsFinite, FS_RemoveElement
<1>5. Cardinality(Refs(d)') <= Cardinality(Refs(d) \ {x})
  BY <1>2, <1>3, <1>4, FS_Subset
<1>6. Cardinality(Refs(d)') \in Nat /\ Cardinality(Refs(d)) \in Nat
  BY RefsFinite, FS_CardinalityType
<1> QED BY <1>4, <1>5, <1>6

LEMMA NearlyStep ==
  ASSUME TypeInv, TypeInv', NEW t \in Threads, OthersStay(t), CountEffect(t), Creating(t),
         \A u \in Threads : Saves(u), RefcountCovers, NearlySaved,
         \A d \in Digests : NoLoss(d)
  PROVE  RefcountCovers' /\ NearlySaved'
<1>1. ASSUME NEW d \in Digests PROVE Cardinality(Refs(d)') <= rc'[d]
  <2>1. Cardinality(Refs(d)) <= rc[d] /\ NoLoss(d)
    BY DEF RefcountCovers
  <2> QED BY <2>1, Counting DEF NoLoss
<1>2. SUFFICES ASSUME NEW d \in Digests
               PROVE  Cardinality(Refs(d)') <= LoadedCount(d)' + Unsaved(d)'
  BY <1>1 DEF RefcountCovers, NearlySaved
<1> DEFINE n == Cardinality(Refs(d))
           m == Cardinality(Refs(d)')
           L == LoadedCount(d)
           M == LoadedCount(d)'
<1>3. /\ n \in Nat /\ m \in Nat /\ L \in Nat /\ M \in Nat /\ rc[d] \in Nat /\ rc'[d] \in Nat
  BY RefsFinite, FS_CardinalityType DEF LoadedCount, TypeInv, TypeOK
<1>4. /\ n <= L + (IF Saving(d) THEN 1 ELSE 0) /\ n <= rc[d] /\ m <= rc'[d]
      /\ m + rc[d] <= n + rc'[d]
  BY <1>1 DEF NearlySaved, Unsaved, RefcountCovers, NoLoss
<1>5. SUFFICES m <= M + (IF Saving(d)' THEN 1 ELSE 0)
  BY DEF Unsaved
<1>6. SaveIsCut(t) /\ d = call[t].cur => m + 1 <= n
  BY CutLosesOne DEF SaveIsCut
<1> HIDE DEF n, m, L, M
<1>7. CASE CountsRest(t)
  <2>1. M = L /\ rc'[d] = rc[d]
    BY <1>7 DEF CountsRest, L, M
  <2>2. Saving(d)' <=> Saving(d)
    BY <1>7, SavingAfter
  <2> QED BY <1>3, <1>4, <2>1, <2>2
<1>8. CASE SaveBegins(t)
  <2>1. M = L /\ ~Saving(d) /\ (Saving(d)' <=> d = call'[t].cur)
    BY <1>8, SavingAfter DEF SaveBegins, L, M
  <2>2. (d = call'[t].cur => rc'[d] = rc[d] + 1) /\ (d # call'[t].cur => rc'[d] = rc[d])
    BY <1>8 DEF SaveBegins
  <2> QED BY <1>3, <1>4, <2>1, <2>2
<1>9. CASE SaveGoesOn(t)
  <2>1. (M = L \/ M = rc[d]) /\ rc'[d] = rc[d]
    BY <1>9 DEF SaveGoesOn, L, M
  <2>2. Saving(d)' <=> Saving(d)
    BY <1>9, SavingAfter
  <2> QED BY <1>3, <1>4, <2>1, <2>2
<1>10. CASE SaveEnds(t)
  <2>1. (M = rc[d] \/ (M = L /\ d # call[t].cur)) /\ rc'[d] = rc[d]
    BY <1>10 DEF SaveEnds, L, M
  <2>2. ~Saving(d)' /\ (Saving(d) <=> d = call[t].cur)
    BY <1>10, SavingAfter
  <2> QED BY <1>3, <1>4, <2>1, <2>2
<1>11. CASE SaveIsCut(t)
  <2>1. M = L /\ rc'[d] = rc[d]
    BY <1>11 DEF SaveIsCut, L, M
  <2>2. ~Saving(d)' /\ (Saving(d) <=> d = call[t].cur)
    BY <1>11, SavingAfter
  <2> QED BY <1>3, <1>4, <1>6, <1>11, <2>1, <2>2
<1> QED BY <1>7, <1>8, <1>9, <1>10, <1>11 DEF CountEffect

LEMMA CountsMatchStep ==
  ASSUME TypeInv, TypeInv', NEW t \in Threads, OthersStay(t), CountEffect(t),
         \A u \in Threads : Saves(u), \A u \in Threads : Creating(u), ~Fail(t), CountsMatch
  PROVE  CountsMatch'
<1>1. SUFFICES ASSUME NEW d \in Digests
               PROVE  LoadedCount(d)' = rc'[d] \/ Saving(d)'
  BY DEF CountsMatch, Saving, CountingPcs
<1>2. LoadedCount(d) = rc[d] \/ Saving(d)
  BY DEF CountsMatch, Saving, CountingPcs, Creating
<1>3. CASE CountsRest(t)
  BY <1>2, <1>3, SavingAfter DEF CountsRest
<1>4. CASE SaveBegins(t)
  BY <1>2, <1>4, SavingAfter DEF SaveBegins
<1>5. CASE SaveGoesOn(t)
  BY <1>2, <1>5, SavingAfter DEF SaveGoesOn
<1>6. CASE SaveEnds(t)
  BY <1>2, <1>6, SavingAfter DEF SaveEnds
<1> QED BY <1>3, <1>4, <1>5, <1>6 DEF CountEffect, SaveIsCut

\* The files that the backend lists are files in memory; and the reference whose
\* count is on the way is none of a file's.
ListedCounted == \A d \in Digests :
  Cardinality(DurableRefs(d)) + Unsaved(d) <= Cardinality(Refs(d))

LEMMA ListedWithin ==
  CreateInv /\ up /\ (\A t \in Threads : Saves(t)) => ListedCounted
<1> SUFFICES ASSUME CreateInv, up, \A t \in Threads : Saves(t), NEW d \in Digests
             PROVE  Cardinality(DurableRefs(d)) + Unsaved(d) <= Cardinality(Refs(d))
  BY DEF ListedCounted
<1> DEFINE m == [r \in DurableRefs(d) |-> <<<<"file", r[1]>>, r[2]>>]
<1>1. ASSUME NEW r \in DurableRefs(d)
      PROVE  m[r] \in FileRefs(d) /\ r = <<r[1], r[2]>>
  <2>1. PICK f \in Files, i \in Positions : r = <<f, i>>
    BY DEF DurableRefs
  <2>2. /\ LoadedFile(f) # None /\ i <= Len(LoadedFile(f)) /\ LoadedFile(f)[i] = d
        /\ LoadedFile(f) = manifest[f]
    BY <2>1 DEF DurableRefs, CreateInv, FileStored, LoadedFile
  <2>3. m[r] = <<<<"file", f>>, i>>
    BY <2>1
  <2> QED BY <2>1, <2>2, <2>3 DEF FileRefs
<1>2. ASSUME NEW q \in DurableRefs(d), NEW r \in DurableRefs(d), m[q] = m[r] PROVE q = r
  BY <1>1, <1>2
<1>3. m \in Injection(DurableRefs(d), FileRefs(d))
  BY <1>1, <1>2 DEF Injection, IsInjective
<1> HIDE DEF m
<1>4. /\ IsFiniteSet(Refs(d)) /\ FileRefs(d) \in SUBSET Refs(d)
      /\ Cardinality(Refs(d)) \in Nat
  BY RefsFinite, FS_CardinalityType DEF Refs
<1>5. IsFiniteSet(FileRefs(d)) /\ Cardinality(FileRefs(d)) <= Cardinality(Refs(d))
  BY <1>4, FS_Subset
<1>6. /\ Cardinality(DurableRefs(d)) <= Cardinality(FileRefs(d))
      /\ Cardinality(DurableRefs(d)) \in Nat /\ Cardinality(FileRefs(d)) \in Nat
  BY <1>3, <1>5, FS_Injection, FS_CardinalityType
<1>7. CASE ~Saving(d)
  BY <1>4, <1>5, <1>6, <1>7 DEF Unsaved
<1>8. CASE Saving(d)
  <2>1. PICK t \in Threads : call[t].pc \in SavingPcs /\ call[t].cur = d
    BY <1>8 DEF Saving
  <2> DEFINE x == <<<<"held", t>>, call[t].done>>
  <2>2. x \in HeldRefs(d)
    BY <2>1, SavedRef DEF CreateInv, WritersInv
  <2>3. x \in Refs(d) /\ x \notin FileRefs(d)
    BY <2>2 DEF Refs, FileRefs
  <2> HIDE DEF x
  <2>4. /\ IsFiniteSet(Refs(d) \ {x}) /\ FileRefs(d) \in SUBSET (Refs(d) \ {x})
        /\ Cardinality(Refs(d) \ {x}) = Cardinality(Refs(d)) - 1
    BY <1>4, <2>3, FS_RemoveElement
  <2>5. Cardinality(FileRefs(d)) <= Cardinality(Refs(d)) - 1
    BY <2>4, FS_Subset
  <2> QED BY <1>4, <1>6, <1>8, <2>5 DEF Unsaved
<1> QED BY <1>7, <1>8

LEMMA ListedWithinAfter ==
  (CreateInv /\ up /\ (\A t \in Threads : Saves(t)) => ListedCounted)'
BY ListedWithin, PTL

\* There are finitely many places in files.
LEMMA PairsFinite == IsFiniteSet(Files \X Positions)
<1>1. IsFiniteSet(Positions)
  BY StoreAssumption, FS_Interval DEF Positions
<1> QED BY <1>1, StoreAssumption, FS_Product

\* Where no call is in progress, and memory has what the backend lists, nothing
\* else is referred to.
Reopened == /\ TypeInv /\ \A t \in Threads : call[t] = Idle
            /\ \A f \in Files : manifest[f] = LoadedFile(f)
RefsListed == \A d \in Digests : Cardinality(Refs(d)) <= Cardinality(DurableRefs(d))

LEMMA ReopenedRefs == Reopened => RefsListed
<1> SUFFICES ASSUME Reopened, NEW d \in Digests
             PROVE  Cardinality(Refs(d)) <= Cardinality(DurableRefs(d))
  BY DEF RefsListed
<1> DEFINE m == [y \in Refs(d) |-> <<y[1][2], y[2]>>]
<1>1. ASSUME NEW y \in Refs(d)
      PROVE  m[y] \in DurableRefs(d) /\ y = <<<<"file", m[y][1]>>, m[y][2]>>
  <2>1. y \notin HeldRefs(d)
    BY DEF Reopened, HeldRefs, Uncommitted, Idle
  <2>2. ASSUME y \in OwedRefs(d) PROVE FALSE
    <3>1. y[2] \in Nat /\ y[2] > 0 /\ y[2] <= Len(<<>>)
      BY <2>2 DEF Reopened, OwedRefs, Idle, Positions
    <3> QED BY <3>1
  <2>3. y \in FileRefs(d)
    BY <2>1, <2>2 DEF Refs
  <2>4. PICK f \in Files, i \in Positions : y = <<<<"file", f>>, i>>
    BY <2>3 DEF FileRefs
  <2>5. manifest[f] # None /\ i <= Len(manifest[f]) /\ manifest[f][i] = d
    BY <2>3, <2>4 DEF FileRefs
  <2>6. m[y] = <<f, i>>
    BY <2>4
  <2> QED BY <2>4, <2>5, <2>6 DEF Reopened, DurableRefs
<1>2. ASSUME NEW y \in Refs(d), NEW z \in Refs(d), m[y] = m[z] PROVE y = z
  BY <1>1, <1>2
<1>3. m \in Injection(Refs(d), DurableRefs(d))
  BY <1>1, <1>2 DEF Injection, IsInjective
<1>4. IsFiniteSet(DurableRefs(d))
  <2>1. IsFiniteSet(Files \X Positions)
    BY PairsFinite
  <2> QED BY <2>1, FS_Subset DEF DurableRefs
<1> HIDE DEF m
<1> QED BY <1>3, <1>4, FS_Injection

LEMMA ReopenedRefsAfter == (Reopened => RefsListed)'
BY ReopenedRefs, PTL

LEMMA CountThread ==
  ASSUME CreatesOnly, CountInv, TypeInv', NEW t \in Threads, BeginCall(t) \/ Step(t) \/ Fail(t)
  PROVE  CountInv'
<1>1. /\ CreateInv /\ CreateInv' /\ up /\ up' /\ TypeInv /\ OthersStay(t)
      /\ \A d \in Digests : NoLoss(d)
  BY CreateThread, OthersStayPut DEF CountInv, CreateInv, WritersInv
<1>2. /\ \A u \in Threads : Saves(u) /\ Creating(u)
      /\ RefcountCovers /\ NearlySaved
  BY <1>1 DEF CountInv, CreateInv
<1>3. CountEffect(t)
  BY <1>1, <1>2, ThreadEffect
<1>4. \A u \in Threads : Saves(u)'
  BY <1>1, <1>2, <1>3, OthersSave DEF CountEffect
<1>5. RefcountCovers' /\ NearlySaved'
  BY <1>1, <1>2, <1>3, NearlyStep
<1>6. DurableRefcountCovers'
  <2>1. ASSUME NEW d \in Digests PROVE Cardinality(DurableRefs(d)') <= LoadedCount(d)'
    <3>1. Cardinality(DurableRefs(d)') + Unsaved(d)' <= Cardinality(Refs(d)')
      BY <1>1, <1>4, ListedWithinAfter DEF ListedCounted
    <3>2. Cardinality(Refs(d)') <= LoadedCount(d)' + Unsaved(d)'
      BY <1>5 DEF NearlySaved
    <3>3. LoadedCount(d)' \in Nat /\ Unsaved(d)' \in Nat
      BY DEF LoadedCount, Unsaved, TypeInv, TypeOK
    <3>4. Cardinality(Refs(d)') \in Nat /\ Cardinality(DurableRefs(d)') \in Nat
      <4>1. IsFiniteSet(Files \X Positions)
        BY PairsFinite
      <4>2. IsFiniteSet(DurableRefs(d)')
        BY <4>1, FS_Subset DEF DurableRefs
      <4> QED BY <4>2, RefsFinite, FS_CardinalityType
    <3> QED BY <3>1, <3>2, <3>3, <3>4
  <2> QED BY <2>1 DEF DurableRefcountCovers
<1>7. ASSUME faults' = 0 PROVE CountsMatch'
  <2>1. faults = 0 /\ ~Fail(t)
    BY <1>1, <1>7, BoundsCount
  <2> QED BY <1>1, <1>2, <1>3, <2>1, CountsMatchStep DEF CountInv
<1> QED BY <1>1, <1>4, <1>5, <1>6, <1>7 DEF CountInv

LEMMA CountRest ==
  ASSUME CountInv, TypeInv', Crash \/ Open \/ UNCHANGED vars
  PROVE  CountInv'
<1> USE DEF backend, memory
<1>1. CreateInv'
  BY CreateRest DEF CountInv
<1>2. UNCHANGED <<blobs, mrec, midx, rrec, ridx>>
  BY DEF Crash, Open, vars
<1>3. /\ \A d : DurableRefs(d)' = DurableRefs(d) /\ LoadedCount(d)' = LoadedCount(d)
      /\ DurableRefcountCovers'
  BY <1>2 DEF CountInv, DurableRefcountCovers, DurableRefs, LoadedFile, LoadedCount
<1>4. CASE Crash
  BY <1>1, <1>3, <1>4 DEF CountInv, Crash, Saves, Idle, SavingPcs
<1>5. CASE Open
  <2>1. /\ \A t \in Threads : call'[t] = Idle
        /\ manifest' = [f \in Files |-> LoadedFile(f)]
        /\ rc' = [d \in Digests |-> LoadedCount(d)]
    BY <1>5 DEF Open, CountInv, CreateInv, Down
  <2>2. Reopened'
    BY <1>2, <2>1 DEF Reopened, LoadedFile
  <2>3. \A t \in Threads : Saves(t)'
    BY <2>1 DEF Saves, Idle, SavingPcs
  <2>4. \A d \in Digests : ~Saving(d)'
    BY <2>1 DEF Saving, Idle, SavingPcs
  <2>5. ASSUME NEW d \in Digests
        PROVE  Cardinality(Refs(d)') <= LoadedCount(d)' /\ rc'[d] = LoadedCount(d)'
    <3>1. Cardinality(Refs(d)') <= Cardinality(DurableRefs(d)')
      BY <2>2, ReopenedRefsAfter DEF RefsListed
    <3>2. Cardinality(DurableRefs(d)') <= LoadedCount(d)' /\ LoadedCount(d)' \in Nat
      BY <1>3 DEF DurableRefcountCovers, LoadedCount, TypeInv, TypeOK
    <3>3. Cardinality(Refs(d)') \in Nat /\ Cardinality(DurableRefs(d)') \in Nat
      <4>1. IsFiniteSet(Files \X Positions)
        BY PairsFinite
      <4>2. IsFiniteSet(DurableRefs(d)')
        BY <4>1, FS_Subset DEF DurableRefs
      <4> QED BY <4>2, RefsFinite, FS_CardinalityType
    <3>4. rc'[d] = LoadedCount(d)'
      BY <1>3, <2>1
    <3> QED BY <3>1, <3>2, <3>3, <3>4
  <2>6. RefcountCovers' /\ CountsMatch'
    BY <2>5 DEF RefcountCovers, CountsMatch
  <2>7. NearlySaved'
    <3>1. \A d \in Digests : Cardinality(Refs(d)') <= LoadedCount(d)' + (IF Saving(d)' THEN 1 ELSE 0)
      <4>1. \A d \in Digests : LoadedCount(d)' \in Nat
        BY DEF LoadedCount, TypeInv, TypeOK
      <4> QED BY <2>4, <2>5, <4>1
    <3> QED BY <3>1 DEF NearlySaved, Unsaved
  <2> QED BY <1>1, <1>3, <2>3, <2>6, <2>7 DEF CountInv
<1>6. CASE UNCHANGED vars
  <2>1. UNCHANGED <<manifest, rc, refLock, call, up, faults>>
    BY <1>6 DEF vars, locks, bounds
  <2>2. \A d : Refs(d)' = Refs(d)
    BY <2>1 DEF Refs, FileRefs, HeldRefs, OwedRefs, Uncommitted
  <2>3. \A d : Saving(d)' <=> Saving(d)
    BY <2>1 DEF Saving
  <2>4. \A d : Unsaved(d)' = Unsaved(d)
    BY <2>3 DEF Unsaved
  <2>5. /\ RefcountCovers' <=> RefcountCovers
        /\ NearlySaved' <=> NearlySaved
        /\ CountsMatch' <=> CountsMatch
    BY <1>3, <2>1, <2>2, <2>4 DEF RefcountCovers, NearlySaved, CountsMatch
  <2>6. ASSUME NEW t \in Threads PROVE Saves(t)' <=> Saves(t)
    BY <1>2, <2>1 DEF Saves
  <2> QED BY <1>1, <1>3, <2>1, <2>5, <2>6 DEF CountInv
<1> QED BY <1>4, <1>5, <1>6

LEMMA CountAlways ==
  ASSUME CreatesOnly
  PROVE  Spec => []CountInv
<1>1. ASSUME Init PROVE CountInv
  <2>1. CoverInv /\ \A d \in Digests : Refs(d) = {}
    BY <1>1, CoverInit, WritersInit
  <2>2. CreateInv
    <3>1. \A t \in Threads : Creating(t)
      BY <1>1 DEF Init, Idle, Creating, WrittenPcs
    <3>2. \A f \in Files : FileStored(f)
      BY <1>1 DEF Init, FileStored, Needed
    <3> QED BY <1>1, <2>1, <3>1, <3>2 DEF CreateInv, CoverInv, Down
  <2>3. \A d \in Digests : LoadedCount(d) = 0 /\ rc[d] = 0 /\ DurableRefs(d) = {} /\ ~Saving(d)
    BY <1>1 DEF Init, LoadedCount, DurableRefs, LoadedFile, Saving, Idle, SavingPcs
  <2>4. NearlySaved /\ DurableRefcountCovers /\ CountsMatch
    BY <2>1, <2>3, FS_EmptySet DEF NearlySaved, Unsaved, DurableRefcountCovers, CountsMatch
  <2>5. \A t \in Threads : Saves(t)
    BY <1>1 DEF Init, Idle, Saves, SavingPcs
  <2> QED BY <2>1, <2>2, <2>4, <2>5 DEF CountInv, CoverInv
<1>2. ASSUME CountInv, [Next]_vars PROVE CountInv'
  <2>1. TypeInv'
    BY <1>2, TypeInvStep DEF CountInv, CreateInv, WritersInv
  <2> QED BY <1>2, <2>1, CountThread, CountRest DEF Next, Rest
<1> QED BY <1>1, <1>2, PTL DEF Spec

\* However many threads create files at once: the counts that a reopened store
\* would load cover the files it would list, whatever calls have failed and
\* wherever the process dies. The refcount mutex, held over save_refcount, is what
\* keeps an older count from overwriting a newer one.
THEOREM CreatesCovered ==
  ASSUME CreatesOnly
  PROVE  Spec => []DurableRefcountCovers
<1>1. CountInv => DurableRefcountCovers
  BY DEF CountInv
<1> QED BY <1>1, CountAlways, PTL

\* And between calls, as long as none has been cut short, the counts on the
\* backend are those in memory.
THEOREM CreatesMatch ==
  ASSUME CreatesOnly
  PROVE  Spec => []DurableCountsMatch
<1>1. CountInv => DurableCountsMatch
  BY DEF CountInv, CountsMatch, DurableCountsMatch, Quiet, Busy, CountingPcs, SavingPcs
<1> QED BY <1>1, CountAlways, PTL

-------------------------------------------------------------------------------
(* Statistics: no two calls put one blob, so that each is added once; and a     *)
(* blob belongs to a file or to the call that is about to enter it in one.      *)

\* The chunks of the file to come that a call has stored so far.
NamedBy(t) ==
  LET c == call[t] IN
  IF ~Uncommitted(t) THEN {}
  ELSE {c.new[i] : i \in 1 .. c.done} \cup (IF c.pc = "increment" THEN {Chunk(t)} ELSE {})

BlobsNamed == \A d \in blobs : d \in Referenced \/ \E t \in Threads : d \in NamedBy(t)

\* A step of a create does not take away what it has named.
NamesStay(t) == /\ blobs' \subseteq blobs \cup NamedBy(t)'
                /\ NamedBy(t) \subseteq NamedBy(t)' \cup Referenced'

LEMMA NamesKept ==
  ASSUME NEW t \in Threads, blobs' = blobs, Keeps(t), call[t].pc # "increment",
         Uncommitted(t) => Uncommitted(t)'
  PROVE  NamesStay(t)
<1>1. NamedBy(t) \subseteq NamedBy(t)'
  BY DEF NamedBy, Keeps
<1> QED BY <1>1 DEF NamesStay

LEMMA NothingNamed ==
  ASSUME NEW t \in Threads, blobs' = blobs, ~Uncommitted(t)
  PROVE  NamesStay(t)
BY DEF NamesStay, NamedBy

LEMMA StoreNames ==
  ASSUME TypeInv, NEW t \in Threads, Creating(t), StoreExists(t) \/ StorePut(t) \/ Increment(t)
  PROVE  NamesStay(t)
<1> DEFINE c == call[t]
<1>1. c \in Records /\ WellFormed(c) /\ c.done \in Nat /\ c.released = 0
  BY CallFields DEF Creating
<1>2. Uncommitted(t)
  BY <1>1 DEF Uncommitted, WellFormed, StoreExists, StorePut, Increment
<1>3. CASE StoreExists(t)
  <2>1. PICK p \in {"increment", "put"}, x \in BOOLEAN :
               Become(t, [c EXCEPT !.pc = p, !.existed = x])
    BY <1>3 DEF StoreExists
  <2> DEFINE r == [c EXCEPT !.pc = p, !.existed = x]
  <2>2. call'[t] = r
    BY <2>1, GoesOn
  <2>3. r.pc = p /\ Keeps(t)
    BY <1>1, <2>2 DEF Records, Keeps
  <2> HIDE DEF r
  <2>4. blobs' = blobs /\ c.pc = "exists" /\ Uncommitted(t)'
    BY <1>2, <1>3, <2>2, <2>3 DEF StoreExists, backend, Uncommitted, Keeps
  <2> QED BY <2>3, <2>4, NamesKept
<1>4. CASE StorePut(t)
  <2>1. /\ Keeps(t) /\ call'[t].pc = "increment" /\ c.pc = "put"
        /\ blobs' = blobs \cup {Chunk(t)}
    BY <1>4, GotoKeeps DEF StorePut
  <2>2. Chunk(t)' = Chunk(t) /\ Uncommitted(t)'
    BY <1>2, <2>1 DEF Chunk, Keeps, Uncommitted
  <2>3. Chunk(t) \in NamedBy(t)' /\ NamedBy(t) \subseteq NamedBy(t)'
    BY <1>2, <2>1, <2>2 DEF NamedBy, Keeps
  <2> QED BY <2>1, <2>3 DEF NamesStay
<1>5. CASE Increment(t)
  <2> DEFINE D == Chunk(t)
             n == Incremented(D)
             r == [c EXCEPT !.pc = "save_refcount", !.done = @ + 1, !.cur = D, !.count = n]
  <2>1. c.pc = "increment" /\ call'[t] = r /\ blobs' = blobs
    BY <1>5, GoesOn DEF Increment, backend
  <2> HIDE DEF n
  <2>2. /\ r.pc = "save_refcount" /\ r.done = c.done + 1 /\ r.new = c.new /\ r.op = c.op
        /\ r.released = 0
    BY <1>1 DEF Records
  <2> HIDE DEF r
  <2>3. NamedBy(t)' = {c.new[i] : i \in 1 .. c.done + 1}
    BY <1>2, <2>1, <2>2 DEF NamedBy, Uncommitted
  <2>4. NamedBy(t) = {c.new[i] : i \in 1 .. c.done} \cup {c.new[c.done + 1]}
    BY <1>2, <2>1 DEF NamedBy, Chunk
  <2>5. 1 .. c.done \subseteq 1 .. c.done + 1 /\ c.done + 1 \in 1 .. c.done + 1
    BY <1>1
  <2>6. NamedBy(t) \subseteq NamedBy(t)'
    BY <2>3, <2>4, <2>5
  <2> QED BY <2>1, <2>6 DEF NamesStay
<1> QED BY <1>3, <1>4, <1>5

LEMMA SaveNames ==
  ASSUME TypeInv, NEW t \in Threads, Creating(t),
         SaveRefcount(t) \/ RefIndexGet(t) \/ RefIndexPut(t)
  PROVE  NamesStay(t)
<1> DEFINE c == call[t]
<1>1. WellFormed(c) /\ c.released = 0 /\ c.pc \in SavingPcs /\ blobs' = blobs
  BY CallFields DEF Creating, SaveRefcount, RefIndexGet, RefIndexPut, SavingPcs, backend
<1>2. Keeps(t) /\ call'[t].pc \in StorePcs \cup {"peek"}
  <2>1. ~Releasing(t)
    BY <1>1 DEF Releasing
  <2>2. CASE SaveRefcount(t)
    BY <2>2, GotoKeeps DEF SaveRefcount
  <2>3. CASE RefcountSaved(t) /\ ~SaveRefcount(t)
    BY <2>1, <2>3, GotoKeeps DEF RefcountSaved
  <2>4. CASE ~RefcountSaved(t) /\ ~SaveRefcount(t)
    <3>1. Keeps(t) /\ call'[t].pc = "index_put"
      BY <2>4, SeenKeeps DEF RefIndexGet, RefIndexPut
    <3> QED BY <3>1
  <2> QED BY <2>2, <2>3, <2>4
<1>3. Uncommitted(t)'
  BY <1>1, <1>2 DEF Uncommitted, Keeps, WellFormed, SavingPcs
<1> QED BY <1>1, <1>2, <1>3, NamesKept DEF SavingPcs

LEMMA CommitNames ==
  ASSUME TypeInv, NEW t \in Threads, Creating(t), faults' = faults, Peek(t) \/ Insert(t)
  PROVE  NamesStay(t)
<1> DEFINE c == call[t]
           f == c.file
<1>1. /\ c \in Records /\ WellFormed(c) /\ c.released = 0 /\ blobs' = blobs
      /\ c.pc \in {"peek", "insert"}
  BY CallFields DEF Creating, Peek, Insert, backend
<1>2. CASE Peek(t)
  <2> DEFINE o == IF manifest[f] = None THEN <<>> ELSE manifest[f]
             r == [c EXCEPT !.pc = "insert", !.old = o]
  <2>1. call'[t] = r /\ c.pc = "peek"
    BY <1>2, GoesOn DEF Peek
  <2> HIDE DEF o
  <2>2. /\ r.pc = "insert" /\ r.op = c.op /\ r.new = c.new /\ r.done = c.done
        /\ r.released = c.released
    BY <1>1 DEF Records
  <2> HIDE DEF r
  <2>3. NamedBy(t)' = NamedBy(t)
    BY <1>1, <2>1, <2>2 DEF NamedBy, Uncommitted
  <2> QED BY <1>1, <2>3 DEF NamesStay
<1>3. CASE Insert(t)
  <2>1. c.pc = "insert" /\ f \notin EmptyIds /\ manifest' = [manifest EXCEPT ![f] = c.new]
    BY <1>3 DEF Insert, TypeInv, TypeOK
  <2>2. f \in Files /\ c.new \in Contents /\ c.done = Len(c.new) /\ c.new # None
    BY <1>1, <2>1, StoreAssumption DEF WellFormed
  <2>3. manifest'[f] = c.new
    BY <2>1, <2>2 DEF TypeInv, TypeOK
  <2>4. NamedBy(t) \subseteq ChunksOf(c.new)
    <3>1. c.new \in Seq(Digests)
      BY <2>2, StoreAssumption
    <3>2. 1 .. c.done = DOMAIN c.new
      BY <2>2, <3>1
    <3> QED BY <2>1, <3>2 DEF NamedBy, ChunksOf
  <2> HIDE DEF f
  <2>5. ChunksOf(c.new) \subseteq Referenced'
    BY <2>2, <2>3 DEF Referenced, Needed
  <2> QED BY <1>1, <2>4, <2>5 DEF NamesStay
<1> QED BY <1>2, <1>3

LEMMA CreateNames ==
  ASSUME CreatesOnly, TypeInv, NEW t \in Threads, Creating(t), faults' = faults,
         BeginCall(t) \/ Step(t)
  PROVE  NamesStay(t)
<1>1. CASE BeginCall(t)
  <2>1. call[t].pc = "idle" /\ blobs' = blobs
    BY <1>1 DEF BeginCall, BeginIngest, BeginDelete, BeginRead, BeginRepair, Begin, Busy, backend
  <2> QED BY <2>1, NothingNamed DEF Uncommitted
<1>2. CASE Step(t)
  <2>1. CASE SaveManifest(t) \/ ManIndexGet(t) \/ ManIndexPut(t) \/ Lookup(t) \/ Fetch(t)
    <3>1. ~Uncommitted(t) /\ blobs' = blobs
      BY <2>1 DEF SaveManifest, ManIndexGet, ManIndexPut, Lookup, Fetch, Uncommitted, backend
    <3> QED BY <3>1, NothingNamed
  <2> QED BY <1>2, <2>1, CreateSteps, StoreNames, SaveNames, CommitNames
<1> QED BY <1>1, <1>2

LEMMA NamesStep ==
  ASSUME BlobsNamed, TypeInv, NEW t \in Threads, Respects(t), OthersStay(t), NamesStay(t)
  PROVE  BlobsNamed'
<1>1. Referenced \subseteq Referenced'
  <2>1. ASSUME NEW f \in Files PROVE Needed(manifest[f]) \subseteq Needed(manifest'[f])
    BY DEF Respects, Needed
  <2> QED BY <2>1 DEF Referenced
<1>2. \A u \in Threads \ {t} : NamedBy(u)' = NamedBy(u)
  BY DEF OthersStay, NamedBy, Uncommitted, Chunk
<1>3. ASSUME NEW d \in blobs' PROVE d \in Referenced' \/ \E u \in Threads : d \in NamedBy(u)'
  <2>1. CASE d \notin blobs
    BY <1>3, <2>1 DEF NamesStay
  <2>2. CASE d \in Referenced
    BY <1>1, <2>2
  <2>3. CASE \E u \in Threads : d \in NamedBy(u)
    <3>1. PICK u \in Threads : d \in NamedBy(u)
      BY <2>3
    <3>2. CASE u = t
      BY <3>1, <3>2 DEF NamesStay
    <3>3. CASE u # t
      BY <1>2, <3>1, <3>3
    <3> QED BY <3>2, <3>3
  <2> QED BY <2>1, <2>2, <2>3 DEF BlobsNamed
<1> QED BY <1>3 DEF BlobsNamed

\* The blob mutex, held from exists() to the end of put(), keeps every other call
\* from putting a chunk in between.
LEMMA PutsApart ==
  ASSUME CreatesOnly, TypeInv, NEW t \in Threads, Creating(t), PutsNew(t), OthersStay(t),
         BeginCall(t) \/ Step(t), NEW u \in Threads \ {t}, PutsNew(u)
  PROVE  PutsNew(u)'
<1> SUFFICES ASSUME call[u].pc = "put", blobLock = u, Chunk(u) \notin blobs, ~call[u].existed
             PROVE  blobLock' = u /\ Chunk(u) \notin blobs'
  BY DEF PutsNew, OthersStay, Chunk
<1>1. u # None /\ u # t
  BY StoreAssumption
<1>2. ~StoreExists(t) /\ ~StorePut(t)
  BY <1>1 DEF StoreExists, StorePut, PutsNew
<1>3. blobLock' = blobLock /\ blobs' = blobs
  <2> USE DEF backend, locks
  <2>1. CASE BeginCall(t)
    BY <2>1 DEF BeginCall, BeginIngest, BeginDelete, BeginRead, BeginRepair, Begin
  <2>2. CASE Step(t)
    BY <1>2, <2>2, CreateSteps DEF Increment, SaveRefcount, RefIndexGet, RefIndexPut, Peek, Insert,
       SaveManifest, ManIndexGet, ManIndexPut, Lookup, Fetch
  <2> QED BY <2>1, <2>2
<1> QED BY <1>3

CreateStatsSound == /\ StatsTyped /\ TotalExact /\ StoredExact /\ BlobsNamed
                    /\ \A t \in Threads : OwnChunk(t) /\ PutsNew(t)
CreateStatsInv == /\ CreateInv
                  /\ ~up => crashes > 0
                  /\ faults = 0 /\ crashes = 0 => CreateStatsSound

LEMMA CreateStatsThread ==
  ASSUME CreatesOnly, CreateInv, TypeInv', faults' = faults, CreateStatsSound, NEW t \in Threads,
         BeginCall(t) \/ Step(t)
  PROVE  CreateStatsSound'
<1>1. /\ TypeInv /\ Creating(t) /\ PeekedIsCurrent /\ Respects(t) /\ OthersStay(t)
  BY CreateThread, OthersStayPut DEF CreateInv, WritersInv
<1>2. StatsTyped' /\ OwnChunk(t)' /\ PutsNew(t)'
  BY <1>1, StatsStayTyped, OwnStep, PutsStep DEF CreateStatsSound
<1>3. \A u \in Threads \ {t} : OwnChunk(u)' /\ PutsNew(u)'
  <2>1. ASSUME NEW u \in Threads \ {t} PROVE OwnChunk(u)'
    BY <1>1 DEF CreateStatsSound, OthersStay, OwnChunk
  <2> QED BY <1>1, <2>1, PutsApart DEF CreateStatsSound
<1>4. TotalExact'
  <2>1. FindsCount(t)
    BY <1>1 DEF FindsCount, Creating
  <2>2. Carries(t)
    BY <1>1, <2>1, StepCarries DEF CreateStatsSound
  <2> QED BY <1>1, <2>2, TotalStays DEF CreateStatsSound
<1>5. StoredExact'
  <2>1. DropsStored(t) /\ SweepsNothing(t) /\ TakesCounted(t)
    BY <1>1 DEF DropsStored, SweepsNothing, TakesCounted, Creating
  <2>2. Settles(t)
    BY <1>1, <2>1, StepSettles DEF CreateStatsSound
  <2> QED BY <1>1, <1>2, <2>2, StoredStays DEF CreateStatsSound
<1>6. BlobsNamed'
  BY <1>1, CreateNames, NamesStep DEF CreateStatsSound
<1> QED BY <1>2, <1>3, <1>4, <1>5, <1>6 DEF CreateStatsSound

LEMMA CreateStatsStep ==
  ASSUME CreatesOnly, CreateStatsInv, [Next]_vars
  PROVE  CreateStatsInv'
<1>1. /\ CreateInv /\ TypeInv /\ TypeInv' /\ faults \in Nat /\ crashes \in Nat
  BY TypeInvStep DEF CreateStatsInv, CreateInv, WritersInv, TypeInv, TypeOK
<1>2. CreateInv'
  BY <1>1, CreateThread, CreateRest DEF Next, Rest
<1>3. CASE \E t \in Threads : BeginCall(t) \/ Step(t) \/ Fail(t)
  <2>1. PICK t \in Threads : BeginCall(t) \/ Step(t) \/ Fail(t)
    BY <1>3
  <2>2. up'
    BY <1>1, <2>1, CreateThread
  <2>3. ASSUME faults' = 0, crashes' = 0 PROVE CreateStatsSound'
    <3>1. faults = 0 /\ crashes = 0 /\ ~Fail(t)
      BY <1>1, <2>1, <2>3, BoundsCount
    <3> QED BY <1>1, <2>1, <2>3, <3>1, CreateStatsThread DEF CreateStatsInv
  <2> QED BY <1>2, <2>2, <2>3 DEF CreateStatsInv
<1>4. CASE Crash
  BY <1>1, <1>2, <1>4 DEF Crash, CreateStatsInv
<1>5. CASE Open
  BY <1>2, <1>5 DEF Open, bounds, CreateStatsInv
<1>6. CASE UNCHANGED vars
  <2>1. UNCHANGED <<blobs, blobLock, manifest, stats, call, up, faults, crashes>>
    BY <1>6 DEF vars, backend, memory, locks, bounds
  <2>2. /\ FileTotals' = FileTotals /\ Carried' = Carried
        /\ Unadded' = Unadded /\ Dropped' = Dropped
    BY <2>1 DEF FileTotals, Carried, CarriedBytes, Uncommitted, Unadded, UnaddedBytes,
       Dropped, DroppedBytes, Chunk
  <2>3. /\ \A t \in Threads : /\ OwnChunk(t)' <=> OwnChunk(t)
                              /\ PutsNew(t)' <=> PutsNew(t)
                              /\ NamedBy(t)' = NamedBy(t)
        /\ Referenced' = Referenced
    BY <2>1 DEF OwnChunk, PutsNew, Chunk, NamedBy, Uncommitted, Referenced
  <2>4. /\ StatsTyped' <=> StatsTyped
        /\ TotalExact' <=> TotalExact
        /\ StoredExact' <=> StoredExact
        /\ BlobsNamed' <=> BlobsNamed
    BY <2>1, <2>2, <2>3 DEF StatsTyped, TotalExact, StoredExact, BlobsNamed
  <2>5. CreateStatsSound' <=> CreateStatsSound
    BY <2>3, <2>4 DEF CreateStatsSound
  <2> QED BY <1>2, <2>1, <2>5 DEF CreateStatsInv
<1> QED BY <1>3, <1>4, <1>5, <1>6 DEF Next, Rest

\* However many threads create files at once, stats() is right between calls: a
\* chunk that several of them store is counted once among the distinct ones, since
\* no two calls take it for new, and once more in the total for each reference.
THEOREM CreatesStats ==
  ASSUME CreatesOnly
  PROVE  Spec => []StatsExact
<1>1. CreateStatsInv => StatsExact
  <2> SUFFICES ASSUME CreateStatsInv, Undisturbed
               PROVE  /\ stats.total = MapThenSumSet(LAMBDA f : FileBytes(manifest[f]), Files)
                      /\ stats.stored = MapThenSumSet(LAMBDA d : SizeOf[d], Referenced)
    BY DEF StatsExact
  <2>1. /\ CreateStatsSound /\ TypeInv /\ Quiet /\ \A f \in Files : FileStored(f)
    BY DEF CreateStatsInv, Undisturbed, CreateInv, WritersInv
  <2>2. FilesReadable
    BY <2>1 DEF FileStored, FilesReadable, Referenced
  <2>3. \A t \in Threads : NamedBy(t) = {}
    BY <2>1 DEF Quiet, Busy, NamedBy, Uncommitted
  <2>4. blobs \subseteq Referenced
    BY <2>1, <2>3 DEF CreateStatsSound, BlobsNamed
  <2> QED BY <2>1, <2>2, <2>4, StatsSettled DEF CreateStatsSound
<1>2. CreateStatsInv /\ [Next]_vars => CreateStatsInv'
  BY CreateStatsStep
<1>3. Init => CreateStatsInv
  <2> SUFFICES ASSUME Init PROVE CreateStatsInv
    OBVIOUS
  <2>1. CreateInv /\ StatsInv /\ up /\ blobs = {} /\ faults = 0 /\ crashes = 0
    BY CreateInitially, StatsInit DEF Init
  <2> QED BY <2>1 DEF CreateStatsInv, CreateStatsSound, StatsInv, StatsSound, BlobsNamed
<1> QED BY <1>1, <1>2, <1>3, PTL DEF Spec
===============================================================================
