--------------------------- MODULE ChunkStoreProofs ---------------------------
(* Theorems about ChunkStore for every number of threads, files and digests,    *)
(* every set of contents and every value of the bounds: its state keeps its     *)
(* types, and its reference counts cover the references to each chunk.          *)
EXTENDS StoreProperties, FiniteSetTheorems, TLAPS

-------------------------------------------------------------------------------
(* What is known of a call from the step it is at. TypeOK is not inductive      *)
(* without it: the chunk a thread stores or releases must be there.             *)

WellFormed(c) ==
  /\ c.pc \in StorePcs \cup CommitPcs \cup DeletePcs \cup ReleasePcs
       => c.op \in {"ingest", "delete"} /\ c.file \in Files
  /\ c.pc \in CommitPcs \cup {"exists", "put", "increment"} => c.op = "ingest"
  /\ c.pc \in DeletePcs => c.op = "delete"
  /\ c.pc \in ReadPcs => c.op = "read" /\ c.file \in Files
  /\ c.pc \in RepairPcs => c.op = "repair"
  /\ c.pc # "idle" /\ c.op = "ingest" => c.new \in Contents /\ c.done <= Len(c.new)
  /\ c.pc \in {"exists", "put", "increment"} => c.done < Len(c.new)
  /\ c.pc \in {"peek", "insert"} => c.done = Len(c.new)
  /\ c.pc \notin ReleasePcs \cup {"save_refcount", "index_get", "index_put"} => c.released = 0
  /\ c.released = 0 /\ c.pc \in StorePcs \cup ReadPcs \cup RepairPcs \cup {"idle", "peek", "remove"}
       => c.old = <<>>
  /\ c.pc \in {"save_refcount", "index_get", "index_put"} =>
       /\ c.cur \in Digests
       /\ c.released = 0 => c.op = "ingest"
  /\ c.pc \in {"size", "decrement"} => c.released < Len(c.old)
  /\ c.pc \in ReleasePcs \ {"size", "decrement"} => c.cur \in Digests /\ c.released > 0
  /\ c.pc \in {"index_put", "gc_index_put"} => c.seen \subseteq Digests
  /\ c.pc \in {"man_index_put", "rm_index_put"} => c.seen \subseteq Files
  /\ c.pc = "lookup" => c.done = 0
  /\ c.pc = "fetch" => c.new \in Contents /\ c.done < Len(c.new)

TypeInv == TypeOK /\ \A t \in Threads : WellFormed(call[t])

USE DEF StorePcs, CommitPcs, DeletePcs, ReleasePcs, ReadPcs, RepairPcs, BackendPcs

CallInv == /\ call \in [Threads -> Records]
           /\ \A t \in Threads : WellFormed(call[t])

\* The labels of the steps, and the fields of a call that most steps change.
LEMMA Labels ==
  StorePcs \cup CommitPcs \cup DeletePcs \cup ReleasePcs \cup ReadPcs \cup RepairPcs \subseteq Pcs
BY DEF Pcs

LEMMA IdleType == Idle \in Records /\ WellFormed(Idle)
<1>1. "idle" \in Pcs /\ 0 \in 0 .. MaxChunks /\ <<>> \in Contents \cup {<<>>}
  BY StoreAssumption DEF Pcs
<1>2. Idle \in Records
  BY <1>1 DEF Idle, Records
<1>3. WellFormed(Idle)
  BY DEF Idle, WellFormed
<1> QED BY <1>2, <1>3

LEMMA LabelType ==
  ASSUME NEW c \in Records, NEW p \in Pcs
  PROVE  [c EXCEPT !.pc = p] \in Records
BY DEF Records

LEMMA SeenType ==
  ASSUME NEW c \in Records, NEW p \in Pcs, NEW s \in SUBSET (Files \cup Digests)
  PROVE  [c EXCEPT !.pc = p, !.seen = s] \in Records
BY DEF Records

LEMMA ExistedType ==
  ASSUME NEW c \in Records, NEW p \in Pcs, NEW x \in BOOLEAN
  PROVE  [c EXCEPT !.pc = p, !.existed = x] \in Records
BY DEF Records

LEMMA OldType ==
  ASSUME NEW c \in Records, NEW p \in Pcs, NEW o \in Contents \cup {<<>>}
  PROVE  [c EXCEPT !.pc = p, !.old = o] \in Records
BY DEF Records

LEMMA NewType ==
  ASSUME NEW c \in Records, NEW p \in Pcs, NEW m \in Contents \cup {<<>>}
  PROVE  [c EXCEPT !.pc = p, !.new = m] \in Records
BY DEF Records

LEMMA FirstType ==
  ASSUME NEW c \in Records, NEW p \in Pcs, NEW op \in {"ingest", "delete", "read", "repair"},
         NEW f \in Files \cup {None}, NEW x \in Contents \cup {<<>>}
  PROVE  [c EXCEPT !.pc = p, !.op = op, !.file = f, !.new = x] \in Records
BY DEF Records

LEMMA ReleasedType ==
  ASSUME NEW c \in Records, NEW p \in Pcs, NEW n \in 0 .. MaxChunks,
         NEW d \in Digests, NEW k \in Nat
  PROVE  [c EXCEPT !.pc = p, !.released = n, !.cur = d, !.count = k] \in Records
BY DEF Records

LEMMA CountType ==
  ASSUME NEW c \in Records, NEW p \in Pcs, NEW done \in 0 .. MaxChunks,
         NEW d \in Digests, NEW n \in Nat
  PROVE  [c EXCEPT !.pc = p, !.done = done, !.cur = d, !.count = n] \in Records
BY DEF Records

\* Only the thread that moves has to be looked at.
LEMMA OneCall ==
  ASSUME TypeInv, NEW t \in Threads, NEW r \in Records, WellFormed(r), Become(t, r)
  PROVE  CallInv'
BY DEF TypeInv, TypeOK, CallInv, Become

\* What a call looks like after it has returned, and before it begins.
LEMMA Ended ==
  ASSUME TypeInv, NEW t \in Threads, NEW res \in {"ok", "err"}
  PROVE  Returned(t, res) \in Records /\ WellFormed(Returned(t, res))
<1>1. call[t] \in Records
  BY DEF TypeInv, TypeOK
<1>2. Idle \in Records /\ WellFormed(Idle)
  BY IdleType
<1> DEFINE n == IF call[t].op = "read" /\ res = "ok" THEN call[t].new ELSE <<>>
<1>3. call[t].op \in {"none", "ingest", "delete", "read", "repair"}
      /\ call[t].file \in Files \cup {None} /\ n \in Contents \cup {<<>>}
  BY <1>1 DEF Records
<1>4. Returned(t, res) = [Idle EXCEPT !.op = call[t].op, !.file = call[t].file,
                                      !.result = res, !.new = n]
  BY DEF Returned
<1> HIDE DEF n
<1>5. Returned(t, res) \in Records
  BY <1>2, <1>3, <1>4 DEF Records
<1>6. /\ Returned(t, res).pc = "idle" /\ Returned(t, res).released = 0
      /\ Returned(t, res).old = <<>>
  BY <1>4 DEF Idle
<1> QED BY <1>5, <1>6 DEF WellFormed

LEMMA Returning ==
  ASSUME TypeInv, NEW t \in Threads, NEW res \in {"ok", "err"}, Return(t, res)
  PROVE  CallInv'
BY Ended, OneCall DEF Return

\* A call moves on to a step that asks no more of it than WellFormed says.
LEMMA Going ==
  ASSUME TypeInv, NEW t \in Threads, NEW label \in Pcs, Goto(t, label),
         WellFormed([call[t] EXCEPT !.pc = label])
  PROVE  CallInv'
<1>1. [call[t] EXCEPT !.pc = label] \in Records
  BY LabelType DEF TypeInv, TypeOK
<1> QED BY <1>1, OneCall DEF Goto

LEMMA ReleaseRestType ==
  ASSUME TypeInv, NEW t \in Threads, ReleaseRest(t),
         call[t].op \in {"ingest", "delete"}, call[t].file \in Files,
         call[t].pc # "idle"
  PROVE  CallInv'
<1>1. call[t] \in Records /\ WellFormed(call[t])
  BY DEF TypeInv, TypeOK
<1>2. CASE call[t].released < Len(call[t].old)
  <2>1. WellFormed([call[t] EXCEPT !.pc = "size"])
    BY <1>1, <1>2 DEF WellFormed, Records, Pcs
  <2> QED BY <1>2, <2>1, Going DEF ReleaseRest, Pcs
<1>3. CASE ~(call[t].released < Len(call[t].old))
  BY <1>3, Returning DEF ReleaseRest
<1> QED BY <1>2, <1>3

LEMMA RefcountSavedType ==
  ASSUME TypeInv, NEW t \in Threads, RefcountSaved(t),
         call[t].pc \in {"index_get", "index_put"}
  PROVE  CallInv' /\ refLock' \in Threads \cup {None}
<1> DEFINE c == call[t]
<1>1. c \in Records /\ WellFormed(c)
  BY DEF TypeInv, TypeOK
<1>2. CASE Releasing(t)
  BY <1>1, <1>2, ReleaseRestType DEF RefcountSaved, WellFormed, TypeInv, TypeOK
<1>3. CASE ~Releasing(t)
  <2>1. c.released = 0 /\ c.op = "ingest" /\ c.new \in Contents /\ c.done <= Len(c.new)
    BY <1>1, <1>3 DEF WellFormed, Records, Releasing
  <2>2. CASE MoreChunks(t)
    <3>1. WellFormed([c EXCEPT !.pc = "exists"])
      BY <1>1, <2>1, <2>2 DEF WellFormed, Records, Pcs, MoreChunks
    <3> QED BY <1>3, <2>2, <3>1, Going DEF RefcountSaved, Pcs
  <2>3. CASE ~MoreChunks(t)
    <3>1. WellFormed([c EXCEPT !.pc = "peek"])
      <4>1. c.done = Len(c.new)
        BY <1>1, <2>1, <2>3, StoreAssumption DEF MoreChunks, Records
      <4> QED BY <1>1, <2>1, <4>1 DEF WellFormed, Records, Pcs
    <3> QED BY <1>3, <2>3, <3>1, Going DEF RefcountSaved, Pcs
  <2> QED BY <2>2, <2>3
<1> QED BY <1>2, <1>3

\* The chunk a thread stores, streams or releases next is there.
LEMMA ChunkType ==
  ASSUME TypeInv, NEW t \in Threads
  PROVE  /\ call[t].pc \in {"exists", "put", "increment", "fetch"} => Chunk(t) \in Digests
         /\ call[t].pc \in {"size", "decrement"} => OldChunk(t) \in Digests
<1> DEFINE c == call[t]
<1>1. c \in Records /\ WellFormed(c)
  BY DEF TypeInv, TypeOK
<1>2. ASSUME c.pc \in {"exists", "put", "increment", "fetch"}
      PROVE  Chunk(t) \in Digests
  <2>1. c.new \in Contents /\ c.done \in Nat /\ c.done < Len(c.new)
    BY <1>1, <1>2 DEF WellFormed, Records, Pcs
  <2>2. c.new \in Seq(Digests) /\ c.done + 1 \in 1 .. Len(c.new)
    BY <2>1, StoreAssumption
  <2> QED BY <2>2 DEF Chunk
<1>3. ASSUME c.pc \in {"size", "decrement"}
      PROVE  OldChunk(t) \in Digests
  <2>1. c.old \in Contents \cup {<<>>} /\ c.released \in Nat /\ c.released < Len(c.old)
    BY <1>1, <1>3 DEF WellFormed, Records, Pcs
  <2>2. c.old \in Seq(Digests) /\ c.released + 1 \in 1 .. Len(c.old)
    BY <2>1, StoreAssumption
  <2> QED BY <2>2 DEF OldChunk
<1> QED BY <1>2, <1>3

\* The variables other than call and stats, which each step below looks at apart.
RestOK ==
  /\ blobs \subseteq Digests
  /\ mrec \in [Files -> Contents \cup {None}]
  /\ midx \subseteq Files
  /\ rrec \in [Digests -> Nat]
  /\ ridx \subseteq Digests
  /\ manifest \in [Files -> Contents \cup {None}]
  /\ rc \in [Digests -> Nat]
  /\ blobLock \in Threads \cup {None} /\ refLock \in Threads \cup {None}
  /\ up \in BOOLEAN
  /\ calls \in Nat /\ faults \in Nat /\ crashes \in Nat

LEMMA StoreStepsType ==
  ASSUME TypeInv, NEW t \in Threads
  PROVE  /\ StoreExists(t) \/ StorePut(t) \/ Increment(t) => CallInv' /\ RestOK'
         /\ SaveRefcount(t) \/ RefIndexGet(t) \/ RefIndexPut(t) => CallInv' /\ RestOK'
<1> DEFINE c == call[t]
<1>1. c \in Records /\ WellFormed(c) /\ RestOK
  BY DEF TypeInv, TypeOK, RestOK
<1> USE DEF backend, memory, locks, bounds
<1>2. ASSUME StoreExists(t) PROVE CallInv' /\ RestOK'
  <2>1. ASSUME NEW p \in {"put", "increment"}, NEW x \in BOOLEAN
        PROVE  /\ [c EXCEPT !.pc = p, !.existed = x] \in Records
               /\ WellFormed([c EXCEPT !.pc = p, !.existed = x])
    <3>1. [c EXCEPT !.pc = p, !.existed = x] \in Records
      BY <1>1, <2>1, Labels, ExistedType
    <3>2. WellFormed([c EXCEPT !.pc = p, !.existed = x])
      BY <1>1, <1>2, <2>1 DEF StoreExists, WellFormed, Records
    <3> QED BY <3>1, <3>2
  <2> QED BY <1>1, <1>2, <2>1, OneCall DEF StoreExists, RestOK
<1>3. ASSUME StorePut(t) PROVE CallInv' /\ RestOK'
  <2>1. WellFormed([c EXCEPT !.pc = "increment"])
    BY <1>1, <1>3 DEF StorePut, WellFormed, Records, Pcs
  <2>2. Chunk(t) \in Digests
    BY <1>3, ChunkType DEF StorePut
  <2>3. CallInv'
    BY <1>3, <2>1, Going DEF StorePut, Pcs
  <2> QED BY <1>1, <1>3, <2>2, <2>3 DEF StorePut, RestOK
<1>4. ASSUME Increment(t) PROVE CallInv' /\ RestOK'
  <2>1. Chunk(t) \in Digests /\ Incremented(Chunk(t)) \in Nat
    BY <1>1, <1>4, ChunkType DEF Increment, Incremented, RestOK
  <2> DEFINE r == [c EXCEPT !.pc = "save_refcount", !.done = @ + 1,
                            !.cur = Chunk(t), !.count = Incremented(Chunk(t))]
  <2>2. c.pc = "increment" /\ c.done + 1 <= Len(c.new) /\ c.done + 1 \in 0 .. MaxChunks
    <3>1. c.pc = "increment" /\ c.new \in Contents /\ c.done < Len(c.new) /\ c.done \in 0 .. MaxChunks
      BY <1>1, <1>4 DEF Increment, WellFormed, Records
    <3>2. Len(c.new) \in Nat /\ Len(c.new) <= MaxChunks /\ MaxChunks \in Nat
      BY <3>1, StoreAssumption
    <3> QED BY <3>1, <3>2
  <2>3. r \in Records
    BY <1>1, <2>1, <2>2, Labels, CountType
  <2>4. WellFormed(r)
    BY <1>1, <2>1, <2>2 DEF WellFormed, Records
  <2>5. CallInv'
    BY <1>4, <2>3, <2>4, OneCall DEF Increment
  <2>6. rc' \in [Digests -> Nat]
    BY <1>1, <1>4, <2>1 DEF Increment, RestOK
  <2> QED BY <1>1, <1>4, <2>5, <2>6 DEF Increment, RestOK
<1>5. ASSUME SaveRefcount(t) PROVE CallInv' /\ RestOK'
  <2>1. WellFormed([c EXCEPT !.pc = "index_get"])
    BY <1>1, <1>5 DEF SaveRefcount, WellFormed, Records, Pcs
  <2>2. rrec' \in [Digests -> Nat]
    BY <1>1, <1>5 DEF SaveRefcount, RestOK, Records, WellFormed
  <2>3. CallInv'
    BY <1>5, <2>1, Going DEF SaveRefcount, Pcs
  <2> QED BY <1>1, <1>5, <2>2, <2>3 DEF SaveRefcount, RestOK
<1>6. ASSUME RefIndexGet(t) PROVE CallInv' /\ RestOK'
  <2>1. CASE c.cur \in ridx
    BY <1>1, <1>6, <2>1, RefcountSavedType DEF RefIndexGet, RestOK
  <2>2. CASE c.cur \notin ridx
    <3> DEFINE r == [c EXCEPT !.pc = "index_put", !.seen = ridx]
    <3>1. r \in Records
      BY <1>1, Labels, SeenType DEF RestOK
    <3>2. WellFormed(r)
      BY <1>1, <1>6 DEF RefIndexGet, WellFormed, Records, RestOK
    <3> QED BY <1>1, <1>6, <2>2, <3>1, <3>2, OneCall DEF RefIndexGet, RestOK
  <2> QED BY <2>1, <2>2
<1>7. ASSUME RefIndexPut(t) PROVE CallInv' /\ RestOK'
  <2>1. c.seen \cup {c.cur} \subseteq Digests
    BY <1>1, <1>7 DEF RefIndexPut, WellFormed
  <2> QED BY <1>1, <1>7, <2>1, RefcountSavedType DEF RefIndexPut, RestOK, IndexWith
<1> QED BY <1>2, <1>3, <1>4, <1>5, <1>6, <1>7

LEMMA CommitStepsType ==
  ASSUME TypeInv, NEW t \in Threads
  PROVE  Peek(t) \/ Insert(t) \/ SaveManifest(t) \/ ManIndexGet(t) \/ ManIndexPut(t)
           => CallInv' /\ RestOK'
<1> DEFINE c == call[t]
<1>1. c \in Records /\ WellFormed(c) /\ RestOK
  BY DEF TypeInv, TypeOK, RestOK
<1> USE DEF backend, memory, locks, bounds
<1>2. ASSUME Peek(t) PROVE CallInv' /\ RestOK'
  <2> DEFINE o == IF manifest[c.file] = None THEN <<>> ELSE manifest[c.file]
             r == [c EXCEPT !.pc = "insert", !.old = o]
  <2>1. c.pc = "peek" /\ Become(t, r)
    BY <1>2 DEF Peek
  <2>2. o \in Contents \cup {<<>>}
    BY <1>1, <2>1 DEF WellFormed, RestOK
  <2> HIDE DEF o
  <2>3. r \in Records
    BY <1>1, <2>2, Labels, OldType
  <2>4. WellFormed(r)
    BY <1>1, <2>1 DEF WellFormed, Records
  <2>5. CallInv'
    BY <2>1, <2>3, <2>4, OneCall
  <2> QED BY <1>1, <1>2, <2>5 DEF Peek, RestOK
<1>3. ASSUME Insert(t) PROVE CallInv' /\ RestOK'
  <2>1. CASE c.file \in EmptyIds
    <3>1. CallInv'
      BY <1>3, <2>1, Returning DEF Insert
    <3> QED BY <1>1, <1>3, <2>1, <3>1 DEF Insert, RestOK
  <2>2. CASE c.file \notin EmptyIds
    <3>1. WellFormed([c EXCEPT !.pc = "save_manifest"])
      BY <1>1, <1>3 DEF Insert, WellFormed, Records, Pcs
    <3>2. CallInv'
      BY <1>3, <2>2, <3>1, Going DEF Insert, Pcs
    <3>3. manifest' \in [Files -> Contents \cup {None}]
      BY <1>1, <1>3, <2>2 DEF Insert, WellFormed, RestOK
    <3> QED BY <1>1, <1>3, <3>2, <3>3 DEF Insert, RestOK
  <2> QED BY <2>1, <2>2
<1>4. ASSUME SaveManifest(t) PROVE CallInv' /\ RestOK'
  <2>1. WellFormed([c EXCEPT !.pc = "man_index_get"])
    BY <1>1, <1>4 DEF SaveManifest, WellFormed, Records, Pcs
  <2>2. CallInv'
    BY <1>4, <2>1, Going DEF SaveManifest, Pcs
  <2>3. mrec' \in [Files -> Contents \cup {None}]
    BY <1>1, <1>4 DEF SaveManifest, WellFormed, RestOK
  <2> QED BY <1>1, <1>4, <2>2, <2>3 DEF SaveManifest, RestOK
<1>5. ASSUME ManIndexGet(t) PROVE CallInv' /\ RestOK'
  <2>1. c.pc = "man_index_get" /\ c.op \in {"ingest", "delete"} /\ c.file \in Files
    BY <1>1, <1>5 DEF ManIndexGet, WellFormed
  <2>2. CASE c.file \in midx
    <3>1. CallInv'
      BY <1>5, <2>1, <2>2, ReleaseRestType DEF ManIndexGet
    <3> QED BY <1>1, <1>5, <3>1 DEF ManIndexGet, RestOK
  <2>3. CASE c.file \notin midx
    <3> DEFINE r == [c EXCEPT !.pc = "man_index_put", !.seen = midx]
    <3>1. r \in Records
      BY <1>1, Labels, SeenType DEF RestOK
    <3>2. WellFormed(r)
      BY <1>1, <2>1 DEF WellFormed, Records, RestOK
    <3>3. CallInv'
      BY <1>5, <2>3, <3>1, <3>2, OneCall DEF ManIndexGet
    <3> QED BY <1>1, <1>5, <3>3 DEF ManIndexGet, RestOK
  <2> QED BY <2>2, <2>3
<1>6. ASSUME ManIndexPut(t) PROVE CallInv' /\ RestOK'
  <2>1. /\ c.pc = "man_index_put" /\ c.op \in {"ingest", "delete"} /\ c.file \in Files
        /\ c.seen \subseteq Files
    BY <1>1, <1>6 DEF ManIndexPut, WellFormed
  <2>2. CallInv'
    BY <1>6, <2>1, ReleaseRestType DEF ManIndexPut
  <2> QED BY <1>1, <1>6, <2>1, <2>2 DEF ManIndexPut, RestOK, IndexWith
<1> QED BY <1>2, <1>3, <1>4, <1>5, <1>6

LEMMA DeleteStepsType ==
  ASSUME TypeInv, NEW t \in Threads
  PROVE  Remove(t) \/ RemoveManifest(t) \/ RmIndexGet(t) \/ RmIndexPut(t)
           => CallInv' /\ RestOK'
<1> DEFINE c == call[t]
<1>1. c \in Records /\ WellFormed(c) /\ RestOK
  BY DEF TypeInv, TypeOK, RestOK
<1> USE DEF backend, memory, locks, bounds
<1>2. ASSUME Remove(t) PROVE CallInv' /\ RestOK'
  <2>1. c.pc = "remove" /\ c.file \in Files
    BY <1>1, <1>2 DEF Remove, WellFormed
  <2>2. CASE manifest[c.file] = None
    <3>1. CallInv'
      BY <1>2, <2>2, Returning DEF Remove
    <3> QED BY <1>1, <1>2, <2>2, <3>1 DEF Remove, RestOK
  <2>3. CASE manifest[c.file] # None
    <3> DEFINE r == [c EXCEPT !.pc = "remove_manifest", !.old = manifest[c.file]]
    <3>1. r \in Records
      BY <1>1, <2>1, <2>3, Labels, OldType DEF RestOK
    <3>2. WellFormed(r)
      BY <1>1, <2>1 DEF WellFormed, Records
    <3>3. CallInv'
      BY <1>2, <2>3, <3>1, <3>2, OneCall DEF Remove
    <3>4. manifest' \in [Files -> Contents \cup {None}]
      BY <1>1, <1>2, <2>3 DEF Remove, RestOK
    <3> QED BY <1>1, <1>2, <3>3, <3>4 DEF Remove, RestOK
  <2> QED BY <2>2, <2>3
<1>3. ASSUME RemoveManifest(t) PROVE CallInv' /\ RestOK'
  <2>1. WellFormed([c EXCEPT !.pc = "rm_index_get"])
    BY <1>1, <1>3 DEF RemoveManifest, WellFormed, Records, Pcs
  <2>2. CallInv'
    BY <1>3, <2>1, Going DEF RemoveManifest, Pcs
  <2>3. mrec' \in [Files -> Contents \cup {None}]
    BY <1>1, <1>3 DEF RemoveManifest, RestOK
  <2> QED BY <1>1, <1>3, <2>2, <2>3 DEF RemoveManifest, RestOK
<1>4. ASSUME RmIndexGet(t) PROVE CallInv' /\ RestOK'
  <2> DEFINE r == [c EXCEPT !.pc = "rm_index_put", !.seen = midx]
  <2>1. r \in Records
    BY <1>1, Labels, SeenType DEF RestOK
  <2>2. WellFormed(r)
    BY <1>1, <1>4 DEF RmIndexGet, WellFormed, Records, RestOK
  <2>3. CallInv'
    BY <1>4, <2>1, <2>2, OneCall DEF RmIndexGet
  <2> QED BY <1>1, <1>4, <2>3 DEF RmIndexGet, RestOK
<1>5. ASSUME RmIndexPut(t) PROVE CallInv' /\ RestOK'
  <2>1. /\ c.pc = "rm_index_put" /\ c.op \in {"ingest", "delete"} /\ c.file \in Files
        /\ c.seen \subseteq Files
    BY <1>1, <1>5 DEF RmIndexPut, WellFormed
  <2>2. CallInv'
    BY <1>5, <2>1, ReleaseRestType DEF RmIndexPut
  <2> QED BY <1>1, <1>5, <2>1, <2>2 DEF RmIndexPut, RestOK
<1> QED BY <1>2, <1>3, <1>4, <1>5

LEMMA ReleaseStepsType ==
  ASSUME TypeInv, NEW t \in Threads
  PROVE  /\ Size(t) \/ Decrement(t) => CallInv' /\ RestOK'
         /\ GcBlob(t) \/ GcRefcount(t) \/ GcIndexGet(t) \/ GcIndexPut(t) => CallInv' /\ RestOK'
<1> DEFINE c == call[t]
<1>1. c \in Records /\ WellFormed(c) /\ RestOK
  BY DEF TypeInv, TypeOK, RestOK
<1> USE DEF backend, memory, locks, bounds
<1>2. ASSUME Size(t) PROVE CallInv' /\ RestOK'
  <2>1. WellFormed([c EXCEPT !.pc = "decrement"])
    BY <1>1, <1>2 DEF Size, WellFormed, Records, Pcs
  <2>2. CallInv'
    BY <1>2, <2>1, Going, Returning DEF Size, Pcs
  <2> QED BY <1>1, <1>2, <2>2 DEF Size, RestOK
<1>3. ASSUME Decrement(t) PROVE CallInv' /\ RestOK'
  <2> DEFINE d == OldChunk(t)
             r == [c EXCEPT !.pc = IF LastReference(d) THEN "gc_blob" ELSE "save_refcount",
                            !.released = @ + 1, !.cur = d, !.count = Remaining(d)]
  <2>1. c.pc = "decrement" /\ d \in Digests /\ rc[d] \in Nat
    BY <1>1, <1>3, ChunkType DEF Decrement, RestOK
  <2> HIDE DEF d
  <2>2. CASE rc[d] = 0
    <3>1. CallInv'
      BY <1>3, <2>2, Returning DEF Decrement, d
    <3> QED BY <1>1, <1>3, <2>2, <3>1 DEF Decrement, RestOK, d
  <2>3. CASE rc[d] # 0
    <3>1. Become(t, r) /\ rc' = [rc EXCEPT ![d] = @ - 1]
      BY <1>3, <2>3 DEF Decrement, d
    <3>2. rc[d] - 1 \in Nat /\ Remaining(d) \in Nat
      BY <2>1, <2>3 DEF Remaining
    <3>3. c.released + 1 \in 0 .. MaxChunks
      <4>1. c.released < Len(c.old) /\ c.old \in Contents \cup {<<>>} /\ c.released \in 0 .. MaxChunks
        BY <1>1, <2>1 DEF WellFormed, Records
      <4> QED BY <4>1, StoreAssumption
    <3>4. r \in Records
      BY <1>1, <2>1, <3>2, <3>3, Labels, ReleasedType
    <3>5. WellFormed(r)
      BY <1>1, <2>1, <3>3 DEF WellFormed, Records
    <3>6. CallInv'
      BY <3>1, <3>4, <3>5, OneCall
    <3>7. rc' \in [Digests -> Nat]
      BY <1>1, <3>1, <3>2 DEF RestOK
    <3> QED BY <1>1, <1>3, <3>6, <3>7 DEF Decrement, RestOK
  <2> QED BY <2>2, <2>3
<1>4. ASSUME GcBlob(t) PROVE CallInv' /\ RestOK'
  <2>1. WellFormed([c EXCEPT !.pc = "gc_refcount"])
    BY <1>1, <1>4 DEF GcBlob, WellFormed, Records, Pcs
  <2>2. CallInv'
    BY <1>4, <2>1, Going DEF GcBlob, Pcs
  <2> QED BY <1>1, <1>4, <2>2 DEF GcBlob, RestOK
<1>5. ASSUME GcRefcount(t) PROVE CallInv' /\ RestOK'
  <2>1. WellFormed([c EXCEPT !.pc = "gc_index_get"])
    BY <1>1, <1>5 DEF GcRefcount, WellFormed, Records, Pcs
  <2>2. CallInv'
    BY <1>5, <2>1, Going DEF GcRefcount, Pcs
  <2>3. rrec' \in [Digests -> Nat]
    BY <1>1, <1>5 DEF GcRefcount, RestOK
  <2> QED BY <1>1, <1>5, <2>2, <2>3 DEF GcRefcount, RestOK
<1>6. ASSUME GcIndexGet(t) PROVE CallInv' /\ RestOK'
  <2> DEFINE r == [c EXCEPT !.pc = "gc_index_put", !.seen = ridx]
  <2>1. r \in Records
    BY <1>1, Labels, SeenType DEF RestOK
  <2>2. WellFormed(r)
    BY <1>1, <1>6 DEF GcIndexGet, WellFormed, Records, RestOK
  <2>3. CallInv'
    BY <1>6, <2>1, <2>2, OneCall DEF GcIndexGet
  <2> QED BY <1>1, <1>6, <2>3 DEF GcIndexGet, RestOK
<1>7. ASSUME GcIndexPut(t) PROVE CallInv' /\ RestOK'
  <2>1. /\ c.pc = "gc_index_put" /\ c.op \in {"ingest", "delete"} /\ c.file \in Files
        /\ c.seen \subseteq Digests
    BY <1>1, <1>7 DEF GcIndexPut, WellFormed
  <2>2. CallInv'
    BY <1>7, <2>1, ReleaseRestType DEF GcIndexPut
  <2> QED BY <1>1, <1>7, <2>1, <2>2 DEF GcIndexPut, RestOK
<1> QED BY <1>2, <1>3, <1>4, <1>5, <1>6, <1>7

LEMMA ReadStepsType ==
  ASSUME TypeInv, NEW t \in Threads, Lookup(t) \/ Fetch(t)
  PROVE  CallInv' /\ RestOK'
<1> DEFINE c == call[t]
<1>1. c \in Records /\ WellFormed(c) /\ RestOK
  BY DEF TypeInv, TypeOK, RestOK
<1> USE DEF backend, memory, locks, bounds
<1>2. RestOK'
  BY <1>1 DEF Lookup, Fetch, RestOK
<1>3. CASE Return(t, "ok") \/ Return(t, "err")
  BY <1>2, <1>3, Returning
<1>4. CASE Lookup(t) /\ ~(Return(t, "ok") \/ Return(t, "err"))
  <2> DEFINE m == manifest[c.file]
             r == [c EXCEPT !.pc = "fetch", !.new = m]
  <2>1. c.pc = "lookup" /\ m # None /\ m # <<>> /\ Become(t, r)
    BY <1>4 DEF Lookup
  <2>2. m \in Contents
    BY <1>1, <2>1 DEF WellFormed, RestOK
  <2> HIDE DEF m
  <2>3. Len(m) > 0 /\ c.done = 0
    BY <1>1, <2>1, <2>2, StoreAssumption DEF WellFormed
  <2>4. r \in Records
    BY <1>1, <2>2, Labels, NewType
  <2>5. WellFormed(r)
    BY <1>1, <2>1, <2>2, <2>3 DEF WellFormed, Records
  <2> QED BY <1>2, <2>1, <2>4, <2>5, OneCall
<1>5. CASE Fetch(t) /\ ~(Return(t, "ok") \/ Return(t, "err"))
  <2> DEFINE r == [c EXCEPT !.done = @ + 1]
  <2>1. c.pc = "fetch" /\ c.done + 1 # Len(c.new) /\ Become(t, r)
    BY <1>5 DEF Fetch
  <2>2. c.new \in Contents /\ c.done < Len(c.new)
    BY <1>1, <2>1 DEF WellFormed
  <2>3. c.done + 1 < Len(c.new) /\ c.done + 1 \in 0 .. MaxChunks
    <3>1. c.done \in 0 .. MaxChunks
      BY <1>1 DEF Records
    <3>2. Len(c.new) \in Nat /\ Len(c.new) <= MaxChunks /\ MaxChunks \in Nat
      BY <2>2, StoreAssumption
    <3> QED BY <2>1, <2>2, <3>1, <3>2
  <2>4. r \in Records
    BY <1>1, <2>3 DEF Records
  <2>5. WellFormed(r)
    BY <1>1, <2>1, <2>2, <2>3 DEF WellFormed, Records
  <2> QED BY <1>2, <2>1, <2>4, <2>5, OneCall
<1> QED BY <1>3, <1>4, <1>5

LEMMA RepairStepsType ==
  ASSUME TypeInv, NEW t \in Threads, FsckLive(t) \/ FsckList(t) \/ FsckUnlink(t)
  PROVE  CallInv' /\ RestOK'
<1> DEFINE c == call[t]
<1>1. c \in Records /\ WellFormed(c) /\ RestOK
  BY DEF TypeInv, TypeOK, RestOK
<1> USE DEF backend, memory, locks, bounds
<1>2. RestOK'
  BY <1>1 DEF FsckLive, FsckList, FsckUnlink, RestOK
<1>3. ASSUME c.pc \in RepairPcs, NEW p \in RepairPcs, NEW s \in SUBSET (Files \cup Digests)
      PROVE  /\ [c EXCEPT !.pc = p, !.seen = s] \in Records
             /\ WellFormed([c EXCEPT !.pc = p, !.seen = s])
  <2>1. [c EXCEPT !.pc = p, !.seen = s] \in Records
    BY <1>1, <1>3, Labels, SeenType
  <2> QED BY <1>1, <1>3, <2>1 DEF WellFormed, Records
<1>4. CASE FsckLive(t)
  BY <1>1, <1>2, <1>3, <1>4, OneCall DEF FsckLive
<1>5. CASE FsckList(t)
  <2>1. CASE Return(t, "ok")
    BY <1>2, <2>1, Returning
  <2>2. CASE ~Return(t, "ok")
    BY <1>1, <1>2, <1>3, <1>5, <2>2, OneCall DEF FsckList, RestOK
  <2> QED BY <2>1, <2>2
<1>6. CASE FsckUnlink(t)
  <2>1. CASE c.seen = {}
    BY <1>2, <1>6, <2>1, Returning DEF FsckUnlink
  <2>2. CASE c.seen # {}
    <3>1. PICK d \in c.seen : Become(t, [c EXCEPT !.seen = @ \ {d}])
      BY <1>6, <2>2 DEF FsckUnlink
    <3>2. c.seen \ {d} \in SUBSET (Files \cup Digests)
      BY <1>1 DEF Records
    <3>3. [c EXCEPT !.seen = @ \ {d}] = [c EXCEPT !.pc = "fsck_unlink", !.seen = c.seen \ {d}]
      BY <1>1, <1>6 DEF FsckUnlink, Records
    <3> QED BY <1>2, <1>3, <1>6, <3>1, <3>2, <3>3, OneCall DEF FsckUnlink
  <2> QED BY <2>1, <2>2
<1> QED BY <1>4, <1>5, <1>6

LEMMA BeginType ==
  ASSUME TypeInv, NEW t \in Threads, BeginCall(t)
  PROVE  CallInv' /\ RestOK'
<1>1. RestOK
  BY DEF TypeInv, TypeOK, RestOK
<1> USE DEF backend, memory, locks, bounds
<1>2. Idle \in Records
  BY IdleType
<1>3. ASSUME NEW op, NEW f, NEW x, NEW label, Begin(t, op, f, x, label),
             [Idle EXCEPT !.pc = label, !.op = op, !.file = f, !.new = x] \in Records,
             WellFormed([Idle EXCEPT !.pc = label, !.op = op, !.file = f, !.new = x])
      PROVE  CallInv' /\ RestOK'
  BY <1>1, <1>3, OneCall DEF Begin, RestOK
<1>4. ASSUME NEW f \in Files, NEW x \in Contents, BeginIngest(t, f, x)
      PROVE  CallInv' /\ RestOK'
  <2> DEFINE label == IF x = <<>> THEN "peek" ELSE "exists"
             r == [Idle EXCEPT !.pc = label, !.op = "ingest", !.file = f, !.new = x]
  <2>1. label \in {"peek", "exists"} /\ (label = "peek" <=> x = <<>>)
    OBVIOUS
  <2>2. Begin(t, "ingest", f, x, label)
    BY <1>4 DEF BeginIngest
  <2>3. Len(x) \in Nat /\ (x = <<>> => Len(x) = 0) /\ (x # <<>> => Len(x) > 0)
    BY StoreAssumption
  <2> HIDE DEF label
  <2>4. r \in Records
    <3>1. label \in Pcs
      BY <2>1, Labels
    <3> QED BY <1>2, <3>1, FirstType
  <2>5. /\ r.pc = label /\ r.op = "ingest" /\ r.file = f /\ r.new = x
        /\ r.done = 0 /\ r.released = 0 /\ r.old = <<>>
    BY DEF Idle
  <2>6. WellFormed(r)
    BY <2>1, <2>3, <2>5 DEF WellFormed
  <2> QED BY <1>3, <2>2, <2>4, <2>6
<1>5. ASSUME NEW f \in Files, BeginDelete(t, f)
      PROVE  CallInv' /\ RestOK'
  <2> DEFINE r == [Idle EXCEPT !.pc = "remove", !.op = "delete", !.file = f, !.new = <<>>]
  <2>1. r \in Records
    BY <1>2, Labels, FirstType
  <2>2. WellFormed(r)
    BY DEF WellFormed, Idle
  <2> QED BY <1>3, <1>5, <2>1, <2>2 DEF BeginDelete
<1>6. ASSUME NEW f \in Files, BeginRead(t, f)
      PROVE  CallInv' /\ RestOK'
  <2> DEFINE r == [Idle EXCEPT !.pc = "lookup", !.op = "read", !.file = f, !.new = <<>>]
  <2>1. r \in Records
    BY <1>2, Labels, FirstType
  <2>2. WellFormed(r)
    BY DEF WellFormed, Idle
  <2> QED BY <1>3, <1>6, <2>1, <2>2 DEF BeginRead
<1>7. ASSUME BeginRepair(t)
      PROVE  CallInv' /\ RestOK'
  <2> DEFINE r == [Idle EXCEPT !.pc = "fsck_live", !.op = "repair", !.file = None, !.new = <<>>]
  <2>1. r \in Records
    BY <1>2, Labels, FirstType
  <2>2. WellFormed(r)
    BY DEF WellFormed, Idle
  <2> QED BY <1>3, <1>7, <2>1, <2>2 DEF BeginRepair
<1> QED BY <1>4, <1>5, <1>6, <1>7 DEF BeginCall

LEMMA FailureType ==
  ASSUME TypeInv, (\E t \in Threads : Fail(t)) \/ Crash \/ Open
  PROVE  CallInv' /\ RestOK'
<1>1. RestOK /\ CallInv
  BY DEF TypeInv, TypeOK, RestOK, CallInv
<1> USE DEF backend, memory, locks, bounds
<1>2. ASSUME NEW t \in Threads, Fail(t) PROVE CallInv' /\ RestOK'
  <2>1. CallInv'
    BY <1>2, Returning DEF Fail
  <2>2. blobLock' \in Threads \cup {None} /\ refLock' \in Threads \cup {None}
    BY <1>1, <1>2 DEF Fail, RestOK
  <2> QED BY <1>1, <1>2, <2>1, <2>2 DEF Fail, RestOK
<1>3. ASSUME Crash PROVE CallInv' /\ RestOK'
  <2>1. Idle \in Records /\ WellFormed(Idle)
    BY IdleType
  <2>2. CallInv'
    BY <1>3, <2>1 DEF Crash, CallInv
  <2>3. manifest' \in [Files -> Contents \cup {None}] /\ rc' \in [Digests -> Nat]
    BY <1>3 DEF Crash
  <2>4. blobLock' = None /\ refLock' = None /\ crashes' = crashes + 1
    BY <1>3 DEF Crash
  <2>5. UNCHANGED <<blobs, mrec, midx, rrec, ridx, calls, faults>>
    BY <1>3 DEF Crash
  <2>6. /\ blobs' \subseteq Digests /\ mrec' \in [Files -> Contents \cup {None}]
        /\ midx' \subseteq Files /\ rrec' \in [Digests -> Nat] /\ ridx' \subseteq Digests
    BY <1>1, <2>5 DEF RestOK
  <2>7. calls' \in Nat /\ faults' \in Nat /\ crashes' \in Nat
    BY <1>1, <2>4, <2>5 DEF RestOK
  <2>8. up' \in BOOLEAN
    BY <1>3 DEF Crash
  <2>9. RestOK'
    BY <2>3, <2>4, <2>6, <2>7, <2>8 DEF RestOK
  <2> QED BY <2>2, <2>9
<1>4. ASSUME Open PROVE CallInv' /\ RestOK'
  BY <1>1, <1>4 DEF Open, RestOK, CallInv, LoadedFile, LoadedCount
<1> QED BY <1>2, <1>3, <1>4

-------------------------------------------------------------------------------

LEMMA TypeInvStep ==
  ASSUME TypeInv, [Next]_vars
  PROVE  TypeInv'
<1>1. ASSUME NEW t \in Threads, Step(t) PROVE CallInv' /\ RestOK'
  BY <1>1, StoreStepsType, CommitStepsType, DeleteStepsType, ReleaseStepsType,
     ReadStepsType, RepairStepsType DEF Step
<1>2. ASSUME UNCHANGED vars PROVE CallInv' /\ RestOK'
  BY <1>2 DEF vars, backend, memory, locks, bounds, TypeInv, TypeOK, RestOK, CallInv
<1>3. CallInv' /\ RestOK'
  BY <1>1, <1>2, BeginType, FailureType DEF Next, Rest
<1> QED BY <1>3 DEF TypeInv, TypeOK, CallInv, RestOK

LEMMA TypeInvInit == Init => TypeInv
<1> SUFFICES ASSUME Init PROVE TypeInv
  OBVIOUS
<1>1. Idle \in Records /\ WellFormed(Idle)
  BY IdleType
<1> QED BY <1>1 DEF Init, TypeInv, TypeOK

\* The state of the store keeps its types, and a thread that stores, streams or
\* releases a chunk always has one to work on.
THEOREM TypeCorrect == Spec => []TypeOK
<1>1. TypeInv => TypeOK
  BY DEF TypeInv
<1> QED BY <1>1, TypeInvInit, TypeInvStep, PTL DEF Spec

-------------------------------------------------------------------------------
(* The reference counts of a running store cover the references to each chunk,  *)
(* whatever backend calls fail, as long as no two calls write one file at once; *)
(* and when none fails they are the references.                                 *)
(*                                                                              *)
(* Counting                                                                     *)

LEMMA RefsFinite == ASSUME NEW d PROVE IsFiniteSet(Refs(d)) /\ IsFiniteSet(Refs(d)')
<1>1. IsFiniteSet(Positions)
  BY StoreAssumption, FS_Interval DEF Positions
<1>2. ASSUME NEW name, NEW S, IsFiniteSet(S)
      PROVE  IsFiniteSet(({name} \X S) \X Positions)
  BY <1>1, <1>2, FS_Singleton, FS_Product
<1>3. /\ IsFiniteSet(({"file"} \X Files) \X Positions)
      /\ IsFiniteSet(({"held"} \X Threads) \X Positions)
      /\ IsFiniteSet(({"owed"} \X Threads) \X Positions)
  BY <1>2, StoreAssumption
<1>4. IsFiniteSet(FileRefs(d)) /\ IsFiniteSet(HeldRefs(d)) /\ IsFiniteSet(OwedRefs(d))
  BY <1>3, FS_Subset DEF FileRefs, HeldRefs, OwedRefs
<1>5. IsFiniteSet(FileRefs(d)') /\ IsFiniteSet(HeldRefs(d)') /\ IsFiniteSet(OwedRefs(d)')
  BY <1>3, FS_Subset DEF FileRefs, HeldRefs, OwedRefs
<1> QED BY <1>4, <1>5, FS_Union DEF Refs

\* A step may leave more counted than is referred to, never less; an exact one
\* leaves the difference as it is.
NoLoss(d)   == Cardinality(Refs(d)') + rc[d] <= Cardinality(Refs(d)) + rc'[d]
Balanced(d) == Cardinality(Refs(d)') + rc[d] = Cardinality(Refs(d)) + rc'[d]

LEMMA Counting ==
  ASSUME TypeInv, TypeInv', NEW d \in Digests
  PROVE  /\ IsFiniteSet(Refs(d)) /\ IsFiniteSet(Refs(d)')
         /\ Cardinality(Refs(d)) \in Nat /\ Cardinality(Refs(d)') \in Nat
         /\ rc[d] \in Nat /\ rc'[d] \in Nat
         /\ Balanced(d) => NoLoss(d)
<1>1. IsFiniteSet(Refs(d)) /\ IsFiniteSet(Refs(d)')
  BY RefsFinite
<1>2. Cardinality(Refs(d)) \in Nat /\ Cardinality(Refs(d)') \in Nat
  BY <1>1, FS_CardinalityType
<1>3. rc[d] \in Nat /\ rc'[d] \in Nat
  BY DEF TypeInv, TypeOK
<1> QED BY <1>1, <1>2, <1>3 DEF NoLoss, Balanced

LEMMA Fewer ==
  ASSUME TypeInv, TypeInv', NEW d \in Digests, Refs(d)' \subseteq Refs(d), rc'[d] = rc[d]
  PROVE  NoLoss(d)
<1>1. Cardinality(Refs(d)') <= Cardinality(Refs(d))
  BY RefsFinite, FS_Subset
<1> QED BY <1>1, Counting DEF NoLoss

LEMMA Same ==
  ASSUME TypeInv, TypeInv', NEW d \in Digests, Refs(d)' = Refs(d), rc'[d] = rc[d]
  PROVE  Balanced(d)
BY DEF Balanced

-------------------------------------------------------------------------------
(* What the invariant needs besides the types. Writers of different files do    *)
(* not meet, so what an ingest has peeked is still in the manifest when it      *)
(* inserts: nobody else has released those chunks.                              *)

\* No two calls write one file at once: because the callers see to it, because there
\* is one caller, or because an id that is given is always a new one.
OneCaller    == \A t, u \in Threads : t = u
CreatesOnly  == Ops \subseteq {"create", "read"}
WritersApart == ExclusiveFiles \/ OneCaller \/ CreatesOnly

Exclusive == \A t, u \in Threads :
  t # u /\ Writing(t) /\ Writing(u) => call[t].file # call[u].file

ContentOf(f) == IF manifest[f] = None THEN <<>> ELSE manifest[f]

PeekedIsCurrent == \A t \in Threads :
  call[t].pc = "insert" => call[t].old = ContentOf(call[t].file)

WritersInv == TypeInv /\ Exclusive /\ PeekedIsCurrent

CoverInv == WritersInv /\ up /\ RefcountCovers

-------------------------------------------------------------------------------
(* Steps that create no reference: all but Increment, Insert and Remove.        *)

OthersStay(t) == \A u \in Threads \ {t} : call'[u] = call[u]

\* The call goes on with the same file, or ends.
Continues(t) ==
  /\ OthersStay(t)
  /\ \/ call'[t].pc = "idle"
     \/ /\ call[t].pc # "idle"
        /\ call'[t].op = call[t].op /\ call'[t].file = call[t].file

\* The call holds and owes what it did; or it ends, and holds and owes nothing.
SameRefs(t) ==
  /\ Uncommitted(t)' <=> Uncommitted(t)
  /\ Uncommitted(t) => call'[t].new = call[t].new /\ call'[t].done = call[t].done
  /\ \/ /\ call[t].pc # "insert" /\ call'[t].pc # "insert"
        /\ call'[t].old = call[t].old /\ call'[t].released = call[t].released
     \/ call[t].old = <<>> /\ call'[t].pc = "insert"
     \/ call[t].old = <<>> /\ call'[t].old = <<>>

NoRefs(t) == call'[t].pc = "idle" /\ call'[t].old = <<>>

QuietMove(t) ==
  /\ manifest' = manifest
  /\ Continues(t)
  /\ SameRefs(t) \/ NoRefs(t)
  /\ call'[t].pc = "insert" => call'[t].old = ContentOf(call'[t].file)

LEMMA ExclusiveStep ==
  ASSUME Exclusive, NEW t \in Threads, Continues(t)
  PROVE  Exclusive'
BY DEF Exclusive, Writing, Busy, Continues, OthersStay

LEMMA SameRefsStep ==
  ASSUME TypeInv, TypeInv', NEW t \in Threads, OthersStay(t), manifest' = manifest, SameRefs(t),
         NEW d
  PROVE  Refs(d)' = Refs(d)
<1>1. FileRefs(d)' = FileRefs(d)
  BY DEF FileRefs
<1>2. HeldRefs(d)' = HeldRefs(d)
  <2>1. ASSUME NEW u \in Threads
        PROVE  /\ Uncommitted(u)' <=> Uncommitted(u)
               /\ Uncommitted(u) => call'[u].new = call[u].new /\ call'[u].done = call[u].done
    <3>1. CASE u = t
      BY <3>1 DEF SameRefs
    <3>2. CASE u # t
      BY <3>2 DEF OthersStay, Uncommitted
    <3> QED BY <3>1, <3>2
  <2> QED BY <2>1 DEF HeldRefs
<1>3. OwedRefs(d)' = OwedRefs(d)
  <2>1. ASSUME NEW r \in ({"owed"} \X Threads) \X Positions
        PROVE  r \in OwedRefs(d)' <=> r \in OwedRefs(d)
    <3>1. r[2] \in Nat /\ r[2] > 0 /\ Len(<<>>) = 0
      BY DEF Positions
    <3>2. CASE r[1][2] = t
      BY <3>1, <3>2 DEF OwedRefs, SameRefs
    <3>3. CASE r[1][2] # t
      BY <3>3 DEF OwedRefs, OthersStay
    <3> QED BY <3>2, <3>3
  <2> QED BY <2>1 DEF OwedRefs
<1> QED BY <1>1, <1>2, <1>3 DEF Refs

\* A call that ends leaves the others' references, and its own if it has none.
LEMMA NoRefsStep ==
  ASSUME TypeInv, TypeInv', NEW t \in Threads, OthersStay(t), manifest' = manifest, NoRefs(t),
         NEW d
  PROVE  /\ Refs(d)' \subseteq Refs(d)
         /\ ~Uncommitted(t) /\ call[t].pc # "insert" /\ ~(call[t].released < Len(call[t].old))
              => Refs(d)' = Refs(d)
<1>1. FileRefs(d)' = FileRefs(d)
  BY DEF FileRefs
<1>2. ASSUME NEW r \in ({"held"} \X Threads) \X Positions
      PROVE  /\ r \in HeldRefs(d)' => r \in HeldRefs(d)
             /\ r \in HeldRefs(d) /\ ~Uncommitted(t) => r \in HeldRefs(d)'
  <2>1. CASE r[1][2] = t
    BY <2>1 DEF HeldRefs, NoRefs, Uncommitted
  <2>2. CASE r[1][2] # t
    BY <2>2 DEF HeldRefs, OthersStay, Uncommitted
  <2> QED BY <2>1, <2>2
<1>3. ASSUME NEW r \in ({"owed"} \X Threads) \X Positions
      PROVE  /\ r \in OwedRefs(d)' => r \in OwedRefs(d)
             /\ r \in OwedRefs(d) /\ ~(call[t].released < Len(call[t].old)) => r \in OwedRefs(d)'
  <2>1. r[2] \in Nat /\ r[2] > 0 /\ Len(<<>>) = 0
    BY DEF Positions
  <2>2. CASE r[1][2] = t
    <3>1. r \notin OwedRefs(d)'
      BY <2>1, <2>2 DEF OwedRefs, NoRefs
    <3>2. r \in OwedRefs(d) => call[t].released < Len(call[t].old)
      <4>0. call[t] \in Records
        BY DEF TypeInv, TypeOK
      <4>1. call[t].released \in Nat /\ Len(call[t].old) \in Nat
        BY <4>0, StoreAssumption DEF Records
      <4> QED BY <2>1, <2>2, <4>1 DEF OwedRefs
    <3> QED BY <3>1, <3>2
  <2>3. CASE r[1][2] # t
    BY <2>3 DEF OwedRefs, OthersStay
  <2> QED BY <2>2, <2>3
<1> QED BY <1>1, <1>2, <1>3 DEF Refs, HeldRefs, OwedRefs

LEMMA QuietStep ==
  ASSUME WritersInv, TypeInv', NEW t \in Threads, QuietMove(t), rc' = rc
  PROVE  WritersInv' /\ \A d \in Digests : NoLoss(d)
<1>1. ASSUME NEW d \in Digests PROVE NoLoss(d)
  <2>1. Refs(d)' \subseteq Refs(d)
    BY SameRefsStep, NoRefsStep DEF QuietMove, Continues, WritersInv
  <2> QED BY <2>1, Fewer DEF WritersInv
<1>2. PeekedIsCurrent'
  BY DEF WritersInv, PeekedIsCurrent, ContentOf, QuietMove, Continues, OthersStay
<1>3. Exclusive'
  BY ExclusiveStep DEF QuietMove, WritersInv
<1> QED BY <1>1, <1>2, <1>3 DEF WritersInv

LEMMA QuietReturn ==
  ASSUME TypeInv, NEW t \in Threads, NEW res \in {"ok", "err"}, Return(t, res),
         manifest' = manifest
  PROVE  QuietMove(t) /\ NoRefs(t)
<1> DEFINE r == Returned(t, res)
<1>1. call' = [call EXCEPT ![t] = r] /\ call \in [Threads -> Records]
  BY DEF Return, Become, TypeInv, TypeOK
<1>2. r.pc = "idle" /\ r.old = <<>>
  BY DEF Returned, Idle
<1> HIDE DEF r
<1>3. call'[t] = r /\ \A u \in Threads \ {t} : call'[u] = call[u]
  BY <1>1
<1> QED BY <1>2, <1>3 DEF QuietMove, NoRefs, Continues, OthersStay

\* A call goes on with the chunks it has: it counts none and enters none.
LEMMA QuietBecome ==
  ASSUME TypeInv, NEW t \in Threads, NEW r, Become(t, r), manifest' = manifest,
         call[t].pc \notin {"idle", "insert"}, r.pc # "insert",
         r.op = call[t].op, r.file = call[t].file, r.new = call[t].new,
         r.done = call[t].done, r.old = call[t].old, r.released = call[t].released,
         r.op = "ingest" /\ r.released = 0
           => (r.pc \in StorePcs \cup {"peek"} <=> call[t].pc \in StorePcs \cup {"peek"})
  PROVE  QuietMove(t)
<1>1. call' = [call EXCEPT ![t] = r] /\ call \in [Threads -> Records]
  BY DEF Become, TypeInv, TypeOK
<1>2. call'[t] = r /\ \A u \in Threads \ {t} : call'[u] = call[u]
  BY <1>1
<1>3. Uncommitted(t)' <=> Uncommitted(t)
  BY <1>2 DEF Uncommitted
<1> QED BY <1>2, <1>3 DEF QuietMove, SameRefs, Continues, OthersStay

LEMMA QuietGoto ==
  ASSUME TypeInv, NEW t \in Threads, NEW label \in Pcs, Goto(t, label), manifest' = manifest,
         call[t].pc \notin {"idle", "insert"}, label # "insert",
         call[t].op = "ingest" /\ call[t].released = 0
           => (label \in StorePcs \cup {"peek"} <=> call[t].pc \in StorePcs \cup {"peek"})
  PROVE  QuietMove(t)
<1> DEFINE r == [call[t] EXCEPT !.pc = label]
<1>1. call[t] \in Records
  BY DEF TypeInv, TypeOK
<1>3. /\ r.pc = label /\ r.op = call[t].op /\ r.file = call[t].file /\ r.new = call[t].new
      /\ r.done = call[t].done /\ r.old = call[t].old /\ r.released = call[t].released
  BY <1>1 DEF Records
<1>4. Become(t, r)
  BY DEF Goto
<1> HIDE DEF r
<1> QED BY <1>3, <1>4, QuietBecome

LEMMA QuietSeen ==
  ASSUME TypeInv, NEW t \in Threads, NEW label \in Pcs, NEW s, manifest' = manifest,
         Become(t, [call[t] EXCEPT !.pc = label, !.seen = s]),
         call[t].pc \notin {"idle", "insert"}, label # "insert",
         label \in StorePcs \cup {"peek"} <=> call[t].pc \in StorePcs \cup {"peek"}
  PROVE  QuietMove(t)
<1> DEFINE r == [call[t] EXCEPT !.pc = label, !.seen = s]
<1>1. /\ r.pc = label /\ r.op = call[t].op /\ r.file = call[t].file /\ r.new = call[t].new
      /\ r.done = call[t].done /\ r.old = call[t].old /\ r.released = call[t].released
  BY DEF TypeInv, TypeOK, Records
<1>2. Become(t, r)
  OBVIOUS
<1> HIDE DEF r
<1> QED BY <1>1, <1>2, QuietBecome

\* What a read does to its own locals concerns no reference.
LEMMA QuietRead ==
  ASSUME TypeInv, NEW t \in Threads, NEW r, Become(t, r), manifest' = manifest,
         call[t].op = "read", call[t].pc \notin {"idle", "insert"}, r.pc = "fetch",
         r.op = "read", r.file = call[t].file, r.old = call[t].old,
         r.released = call[t].released
  PROVE  QuietMove(t)
<1>1. call'[t] = r /\ \A u \in Threads \ {t} : call'[u] = call[u]
  BY DEF Become, TypeInv, TypeOK
<1> QED BY <1>1 DEF QuietMove, SameRefs, Continues, OthersStay, Uncommitted

LEMMA QuietReleaseRest ==
  ASSUME TypeInv, NEW t \in Threads, ReleaseRest(t), manifest' = manifest,
         call[t].pc \notin {"idle", "insert"}, ~Uncommitted(t)
  PROVE  QuietMove(t)
<1>1. CASE call[t].released < Len(call[t].old)
  BY <1>1, QuietGoto DEF ReleaseRest, Pcs, Uncommitted
<1>2. CASE ~(call[t].released < Len(call[t].old))
  BY <1>2, QuietReturn DEF ReleaseRest
<1> QED BY <1>1, <1>2

LEMMA QuietRefcountSaved ==
  ASSUME TypeInv, NEW t \in Threads, RefcountSaved(t), manifest' = manifest,
         call[t].pc \in {"index_get", "index_put"}
  PROVE  QuietMove(t)
<1>1. CASE Releasing(t)
  BY <1>1, QuietReleaseRest DEF RefcountSaved, Releasing, Uncommitted
<1>2. CASE ~Releasing(t)
  BY <1>2, QuietGoto DEF RefcountSaved, Pcs
<1> QED BY <1>1, <1>2

LEMMA QuietActions ==
  ASSUME TypeInv, NEW t \in Threads,
         Step(t) \/ Fail(t), ~Increment(t), ~Insert(t), ~Remove(t), ~Decrement(t)
  PROVE  QuietMove(t) /\ rc' = rc /\ up' = up
<1> DEFINE c == call[t]
<1>1. c \in Records /\ WellFormed(c)
  BY DEF TypeInv, TypeOK
<1> USE DEF backend, memory, locks, bounds
<1>3. CASE StoreExists(t)
  <2> DEFINE r(p, x) == [c EXCEPT !.pc = p, !.existed = x]
  <2>1. PICK p \in {"increment", "put"}, x \in BOOLEAN : Become(t, r(p, x))
    BY <1>3 DEF StoreExists
  <2>2. /\ r(p, x).pc = p /\ r(p, x).op = c.op /\ r(p, x).file = c.file
        /\ r(p, x).new = c.new /\ r(p, x).done = c.done
        /\ r(p, x).old = c.old /\ r(p, x).released = c.released
    BY <1>1 DEF Records
  <2>3. c.pc = "exists" /\ manifest' = manifest /\ rc' = rc /\ up' = up
    BY <1>3 DEF StoreExists
  <2> HIDE DEF r
  <2>4. QuietMove(t)
    BY <2>1, <2>2, <2>3, QuietBecome
  <2> QED BY <2>3, <2>4
<1>4. CASE StorePut(t)
  BY <1>4, QuietGoto DEF StorePut, Pcs
<1>5. CASE SaveRefcount(t)
  BY <1>5, QuietGoto DEF SaveRefcount, Pcs
<1>6. CASE RefIndexGet(t)
  <2>1. c.pc = "index_get" /\ manifest' = manifest /\ rc' = rc /\ up' = up
    BY <1>6 DEF RefIndexGet
  <2>2. CASE c.cur \in ridx
    BY <1>6, <2>1, <2>2, QuietRefcountSaved DEF RefIndexGet
  <2>3. CASE c.cur \notin ridx
    BY <1>6, <2>1, <2>3, QuietSeen DEF RefIndexGet, Pcs
  <2> QED BY <2>2, <2>3
<1>7. CASE RefIndexPut(t)
  BY <1>7, QuietRefcountSaved DEF RefIndexPut
<1>8. CASE Peek(t)
  <2> DEFINE r == [c EXCEPT !.pc = "insert", !.old = ContentOf(c.file)]
  <2>1. Become(t, r)
    BY <1>8 DEF Peek, ContentOf
  <2>2. /\ r.pc = "insert" /\ r.op = c.op /\ r.file = c.file /\ r.new = c.new
        /\ r.done = c.done /\ r.old = ContentOf(c.file) /\ r.released = c.released
    BY <1>1 DEF Records
  <2>3. /\ c.pc = "peek" /\ c.op = "ingest" /\ c.released = 0 /\ c.old = <<>>
        /\ manifest' = manifest /\ rc' = rc /\ up' = up
    BY <1>1, <1>8 DEF Peek, WellFormed
  <2> HIDE DEF r
  <2>4. call'[t] = r /\ \A u \in Threads \ {t} : call'[u] = call[u]
    BY <2>1 DEF Become, TypeInv, TypeOK
  <2>5. QuietMove(t)
    BY <2>2, <2>3, <2>4 DEF QuietMove, SameRefs, Continues, OthersStay, Uncommitted, ContentOf
  <2> QED BY <2>3, <2>5
<1>9. CASE SaveManifest(t)
  BY <1>9, QuietGoto DEF SaveManifest, Pcs
<1>10. CASE ManIndexGet(t)
  <2>1. CASE c.file \in midx
    BY <1>10, <2>1, QuietReleaseRest DEF ManIndexGet, Uncommitted
  <2>2. CASE c.file \notin midx
    BY <1>10, <2>2, QuietSeen DEF ManIndexGet, Pcs
  <2> QED BY <1>10, <2>1, <2>2 DEF ManIndexGet
<1>11. CASE ManIndexPut(t)
  BY <1>11, QuietReleaseRest DEF ManIndexPut, Uncommitted
<1>12. CASE RemoveManifest(t)
  BY <1>12, QuietGoto DEF RemoveManifest, Pcs
<1>13. CASE RmIndexGet(t)
  BY <1>13, QuietSeen DEF RmIndexGet, Pcs
<1>14. CASE RmIndexPut(t)
  BY <1>14, QuietReleaseRest DEF RmIndexPut, Uncommitted
<1>15. CASE Size(t)
  <2>1. c.pc = "size" /\ manifest' = manifest /\ rc' = rc /\ up' = up
    BY <1>15 DEF Size
  <2>2. CASE Goto(t, "decrement")
    BY <2>1, <2>2, QuietGoto DEF Pcs
  <2>3. CASE Return(t, "err")
    BY <2>1, <2>3, QuietReturn
  <2> QED BY <1>15, <2>1, <2>2, <2>3 DEF Size
<1>16. CASE GcBlob(t)
  BY <1>16, QuietGoto DEF GcBlob, Pcs
<1>17. CASE GcRefcount(t)
  BY <1>17, QuietGoto DEF GcRefcount, Pcs
<1>18. CASE GcIndexGet(t)
  BY <1>18, QuietSeen DEF GcIndexGet, Pcs
<1>19. CASE GcIndexPut(t)
  BY <1>19, QuietReleaseRest DEF GcIndexPut, Uncommitted
<1>20. CASE Lookup(t)
  <2> DEFINE r == [c EXCEPT !.pc = "fetch", !.new = manifest[c.file]]
  <2>1. c.pc = "lookup" /\ c.op = "read" /\ manifest' = manifest /\ rc' = rc /\ up' = up
    BY <1>1, <1>20 DEF Lookup, WellFormed
  <2>2. CASE \E res \in {"ok", "err"} : Return(t, res)
    BY <2>1, <2>2, QuietReturn
  <2>3. CASE Become(t, r)
    <3>1. /\ r.pc = "fetch" /\ r.op = c.op /\ r.file = c.file
          /\ r.old = c.old /\ r.released = c.released
      BY <1>1 DEF Records
    <3> HIDE DEF r
    <3> QED BY <2>1, <2>3, <3>1, QuietRead
  <2> QED BY <1>20, <2>1, <2>2, <2>3 DEF Lookup
<1>21. CASE Fetch(t)
  <2> DEFINE r == [c EXCEPT !.done = @ + 1]
  <2>1. c.pc = "fetch" /\ c.op = "read" /\ manifest' = manifest /\ rc' = rc /\ up' = up
    BY <1>1, <1>21 DEF Fetch, WellFormed
  <2>2. CASE \E res \in {"ok", "err"} : Return(t, res)
    BY <2>1, <2>2, QuietReturn
  <2>3. CASE Become(t, r)
    <3>1. /\ r.pc = c.pc /\ r.op = c.op /\ r.file = c.file
          /\ r.old = c.old /\ r.released = c.released
      BY <1>1 DEF Records
    <3> HIDE DEF r
    <3> QED BY <2>1, <2>3, <3>1, QuietRead
  <2> QED BY <1>21, <2>1, <2>2, <2>3 DEF Fetch
<1>22. CASE FsckLive(t)
  <2> DEFINE s == {d \in Digests : rc[d] > 0}
  <2>1. /\ Become(t, [c EXCEPT !.pc = "fsck_list", !.seen = s]) /\ c.pc = "fsck_live"
        /\ manifest' = manifest /\ rc' = rc /\ up' = up
    BY <1>22 DEF FsckLive
  <2> HIDE DEF s
  <2> QED BY <2>1, QuietSeen DEF Pcs
<1>23. CASE FsckList(t)
  <2> DEFINE s == blobs \ c.seen
  <2>1. c.pc = "fsck_list" /\ manifest' = manifest /\ rc' = rc /\ up' = up
    BY <1>23 DEF FsckList
  <2>2. CASE Return(t, "ok")
    BY <2>1, <2>2, QuietReturn
  <2>3. CASE Become(t, [c EXCEPT !.pc = "fsck_unlink", !.seen = s])
    <3> HIDE DEF s
    <3> QED BY <2>1, <2>3, QuietSeen DEF Pcs
  <2> QED BY <1>23, <2>2, <2>3 DEF FsckList
<1>24. CASE FsckUnlink(t)
  <2>1. c.pc = "fsck_unlink" /\ manifest' = manifest /\ rc' = rc /\ up' = up
    BY <1>24 DEF FsckUnlink
  <2>2. CASE Return(t, "ok")
    BY <2>1, <2>2, QuietReturn
  <2>3. ASSUME NEW d, Become(t, [c EXCEPT !.seen = @ \ {d}]) PROVE QuietMove(t)
    <3> DEFINE r == [c EXCEPT !.seen = @ \ {d}]
    <3>1. /\ r.pc = c.pc /\ r.op = c.op /\ r.file = c.file /\ r.new = c.new
          /\ r.done = c.done /\ r.old = c.old /\ r.released = c.released
      BY <1>1 DEF Records
    <3> HIDE DEF r
    <3> QED BY <2>1, <2>3, <3>1, QuietBecome DEF r
  <2> QED BY <1>24, <2>1, <2>2, <2>3 DEF FsckUnlink
<1>25. CASE Fail(t)
  BY <1>25, QuietReturn DEF Fail
<1> QED BY <1>3, <1>4, <1>5, <1>6, <1>7, <1>8, <1>9, <1>10, <1>11, <1>12, <1>13, <1>14,
           <1>15, <1>16, <1>17, <1>18, <1>19, <1>20, <1>21, <1>22, <1>23, <1>24, <1>25
        DEF Step
-------------------------------------------------------------------------------
(* The steps that count                                                         *)

\* One more reference, one more count.
LEMMA IncrementStep ==
  ASSUME WritersInv, TypeInv', NEW t \in Threads, Increment(t)
  PROVE  /\ WritersInv' /\ up' = up
         /\ \A d \in Digests : Balanced(d)
<1> DEFINE c == call[t]
           D == Chunk(t)
           x == <<<<"held", t>>, c.done + 1>>
           r == [c EXCEPT !.pc = "save_refcount", !.done = @ + 1,
                          !.cur = D, !.count = Incremented(D)]
<1>1. /\ c \in Records /\ WellFormed(c) /\ D \in Digests
      /\ call \in [Threads -> Records] /\ rc \in [Digests -> Nat]
  BY ChunkType DEF WritersInv, TypeInv, TypeOK, Increment
<1>2. /\ c.pc = "increment" /\ Become(t, r)
      /\ manifest' = manifest /\ rc' = [rc EXCEPT ![D] = @ + 1] /\ up' = up
  BY DEF Increment
<1>3. /\ r.pc = "save_refcount" /\ r.op = c.op /\ r.file = c.file /\ r.new = c.new
      /\ r.done = c.done + 1 /\ r.old = c.old /\ r.released = c.released
  BY <1>1 DEF Records
<1>4. /\ c.op = "ingest" /\ c.released = 0 /\ c.done \in Nat
      /\ c.done + 1 \in Positions
  <2>1. c.op = "ingest" /\ c.released = 0 /\ c.done \in Nat /\ c.done < Len(c.new)
        /\ c.new \in Contents
    BY <1>1, <1>2 DEF WellFormed, Records
  <2> QED BY <2>1, StoreAssumption DEF Positions
<1> HIDE DEF r
<1>5. call'[t] = r /\ OthersStay(t)
  BY <1>1, <1>2 DEF Become, OthersStay
<1>6. Continues(t)
  BY <1>2, <1>3, <1>5 DEF Continues
<1>7. ASSUME NEW d \in Digests PROVE Balanced(d)
  <2>1. FileRefs(d)' = FileRefs(d)
    BY <1>2 DEF FileRefs
  <2>2. OwedRefs(d)' = OwedRefs(d)
    <3>1. \A u \in Threads : /\ call'[u].pc # "insert" <=> call[u].pc # "insert"
                             /\ call'[u].old = call[u].old
                             /\ call'[u].released = call[u].released
      BY <1>2, <1>3, <1>5 DEF OthersStay
    <3> QED BY <3>1 DEF OwedRefs
  <2>3. ASSUME NEW y \in ({"held"} \X Threads) \X Positions
        PROVE  y \in HeldRefs(d)' <=> y \in HeldRefs(d) \/ (y = x /\ d = D)
    <3>1. y = <<<<"held", y[1][2]>>, y[2]>> /\ y[2] \in Nat
      BY DEF Positions
    <3>2. CASE y[1][2] # t
      BY <3>1, <3>2, <1>5 DEF HeldRefs, OthersStay, Uncommitted
    <3>3. CASE y[1][2] = t
      <4>1. Uncommitted(t) /\ Uncommitted(t)'
        BY <1>2, <1>3, <1>4, <1>5 DEF Uncommitted
      <4>2. y \in HeldRefs(d)' <=> y[2] <= c.done + 1 /\ c.new[y[2]] = d
        BY <3>3, <4>1, <1>3, <1>5 DEF HeldRefs
      <4>3. y \in HeldRefs(d) <=> y[2] <= c.done /\ c.new[y[2]] = d
        BY <3>3, <4>1 DEF HeldRefs
      <4>4. y = x <=> y[2] = c.done + 1
        BY <3>1, <3>3
      <4>5. y[2] <= c.done + 1 <=> y[2] <= c.done \/ y[2] = c.done + 1
        BY <3>1, <1>4
      <4>6. c.new[c.done + 1] = D
        BY DEF Chunk
      <4> HIDE DEF x, D
      <4> QED BY <4>2, <4>3, <4>4, <4>5, <4>6
    <3> QED BY <3>2, <3>3
  <2>4. x \in ({"held"} \X Threads) \X Positions
    BY <1>4
  <2>5. x \notin Refs(d)
    <3>1. x \notin FileRefs(d) /\ x \notin OwedRefs(d)
      BY DEF FileRefs, OwedRefs
    <3>2. x \notin HeldRefs(d)
      BY <1>4 DEF HeldRefs
    <3> QED BY <3>1, <3>2 DEF Refs
  <2> HIDE DEF x
  <2>6. HeldRefs(d)' = HeldRefs(d) \cup (IF d = D THEN {x} ELSE {})
    <3>1. /\ HeldRefs(d) \subseteq ({"held"} \X Threads) \X Positions
          /\ HeldRefs(d)' \subseteq ({"held"} \X Threads) \X Positions
      BY DEF HeldRefs
    <3> HIDE DEF D
    <3> QED BY <2>3, <2>4, <3>1
  <2>7. Refs(d)' = Refs(d) \cup (IF d = D THEN {x} ELSE {})
    BY <2>1, <2>2, <2>6 DEF Refs
  <2>8. CASE d = D
    <3>1. Refs(d)' = Refs(d) \cup {x}
      BY <2>7, <2>8
    <3>2. Cardinality(Refs(d)') = Cardinality(Refs(d)) + 1
      BY <2>5, <3>1, Counting, FS_AddElement DEF WritersInv
    <3>3. rc'[d] = rc[d] + 1
      BY <1>1, <1>2, <2>8
    <3> QED BY <3>2, <3>3, Counting DEF WritersInv, Balanced
  <2>9. CASE d # D
    <3>1. Refs(d)' = Refs(d)
      BY <2>7, <2>9
    <3>2. rc'[d] = rc[d]
      BY <1>1, <1>2, <2>9
    <3> QED BY <3>1, <3>2, Same DEF WritersInv
  <2> QED BY <2>8, <2>9
<1>8. PeekedIsCurrent'
  BY <1>2, <1>3, <1>5 DEF WritersInv, PeekedIsCurrent, ContentOf, OthersStay
<1> QED BY <1>2, <1>6, <1>7, <1>8, ExclusiveStep DEF WritersInv

\* One reference less, one count less; a count that is not there stops the call.
LEMMA DecrementStep ==
  ASSUME WritersInv, TypeInv', NEW t \in Threads, Decrement(t)
  PROVE  /\ WritersInv' /\ up' = up
         /\ \A d \in Digests : NoLoss(d)
         /\ rc[OldChunk(t)] > 0 => \A d \in Digests : Balanced(d)
<1> DEFINE c == call[t]
           D == OldChunk(t)
           x == <<<<"owed", t>>, c.released + 1>>
           r == [c EXCEPT !.pc = IF LastReference(D) THEN "gc_blob" ELSE "save_refcount",
                          !.released = @ + 1, !.cur = D, !.count = Remaining(D)]
<1>1. /\ c \in Records /\ WellFormed(c) /\ D \in Digests /\ c.pc = "decrement"
      /\ call \in [Threads -> Records] /\ rc \in [Digests -> Nat]
      /\ manifest' = manifest /\ up' = up
  BY ChunkType DEF WritersInv, TypeInv, TypeOK, Decrement
<1>2. CASE rc[D] = 0
  <2>1. QuietMove(t) /\ rc' = rc
    BY <1>1, <1>2, QuietReturn DEF Decrement, WritersInv
  <2> QED BY <1>1, <1>2, <2>1, QuietStep
<1>3. CASE rc[D] # 0
  <2>1. Become(t, r) /\ rc' = [rc EXCEPT ![D] = @ - 1]
    BY <1>3 DEF Decrement
  <2>2. /\ r.pc \in {"gc_blob", "save_refcount"} /\ r.op = c.op /\ r.file = c.file
        /\ r.new = c.new /\ r.done = c.done /\ r.old = c.old /\ r.released = c.released + 1
    BY <1>1 DEF Records
  <2>3. c.released \in Nat /\ c.released < Len(c.old) /\ Len(c.old) \in Nat
        /\ Len(c.old) <= MaxChunks
    BY <1>1, StoreAssumption DEF WellFormed, Records
  <2> HIDE DEF r
  <2>4. call'[t] = r /\ OthersStay(t)
    BY <1>1, <2>1 DEF Become, OthersStay
  <2>5. Continues(t)
    BY <1>1, <2>2, <2>4 DEF Continues
  <2>6. ASSUME NEW d \in Digests PROVE Balanced(d)
    <3>1. FileRefs(d)' = FileRefs(d)
      BY <1>1 DEF FileRefs
    <3>2. HeldRefs(d)' = HeldRefs(d)
      <4>1. ~Uncommitted(t)' /\ ~Uncommitted(t)
        BY <1>1, <2>2, <2>3, <2>4 DEF Uncommitted
      <4>2. ASSUME NEW y \in ({"held"} \X Threads) \X Positions
            PROVE  y \in HeldRefs(d)' <=> y \in HeldRefs(d)
        <5>1. CASE y[1][2] = t
          BY <4>1, <5>1 DEF HeldRefs
        <5>2. CASE y[1][2] # t
          BY <5>2, <2>4 DEF HeldRefs, OthersStay, Uncommitted
        <5> QED BY <5>1, <5>2
      <4> QED BY <4>2 DEF HeldRefs
    <3>3. x \in ({"owed"} \X Threads) \X Positions
      <4>1. c.released + 1 \in Positions
        BY <2>3, StoreAssumption DEF Positions
      <4> QED BY <4>1
    <3>4. ASSUME NEW y \in ({"owed"} \X Threads) \X Positions
          PROVE  y \in OwedRefs(d)' <=> y \in OwedRefs(d) /\ y # x
      <4>1. y = <<<<"owed", y[1][2]>>, y[2]>> /\ y[2] \in Nat
        BY DEF Positions
      <4>2. CASE y[1][2] # t
        BY <4>1, <4>2, <2>4 DEF OwedRefs, OthersStay
      <4>3. CASE y[1][2] = t
        <5>1. y \in OwedRefs(d)' <=> c.released + 1 < y[2] /\ y[2] <= Len(c.old) /\ c.old[y[2]] = d
          BY <4>3, <2>2, <2>4 DEF OwedRefs
        <5>2. y \in OwedRefs(d) <=> c.released < y[2] /\ y[2] <= Len(c.old) /\ c.old[y[2]] = d
          BY <4>3, <1>1 DEF OwedRefs
        <5>3. y # x <=> y[2] # c.released + 1
          BY <4>1, <4>3
        <5>4. c.released + 1 < y[2] <=> c.released < y[2] /\ y[2] # c.released + 1
          BY <4>1, <2>3
        <5> HIDE DEF x
        <5> QED BY <5>1, <5>2, <5>3, <5>4
      <4> QED BY <4>2, <4>3
    <3>5. x \notin FileRefs(d) /\ x \notin HeldRefs(d) /\ (x \in OwedRefs(d) <=> d = D)
      <4>1. x \notin FileRefs(d) /\ x \notin HeldRefs(d)
        BY DEF FileRefs, HeldRefs
      <4>2. x \in OwedRefs(d) <=> c.old[c.released + 1] = d
        BY <1>1, <2>3, <3>3 DEF OwedRefs
      <4> QED BY <4>1, <4>2 DEF OldChunk
    <3> HIDE DEF x
    <3>6. OwedRefs(d)' = OwedRefs(d) \ {x}
      <4>1. /\ OwedRefs(d) \subseteq ({"owed"} \X Threads) \X Positions
            /\ OwedRefs(d)' \subseteq ({"owed"} \X Threads) \X Positions
        BY DEF OwedRefs
      <4> QED BY <3>4, <4>1
    <3>7. Refs(d)' = Refs(d) \ {x} /\ (x \in Refs(d) <=> d = D)
      BY <3>1, <3>2, <3>5, <3>6 DEF Refs
    <3>8. CASE d = D
      <4>1. Cardinality(Refs(d)') = Cardinality(Refs(d)) - 1
        BY <3>7, <3>8, Counting, FS_RemoveElement DEF WritersInv
      <4>2. rc'[d] = rc[d] - 1
        BY <1>1, <2>1, <3>8
      <4> QED BY <4>1, <4>2, Counting DEF WritersInv, Balanced
    <3>9. CASE d # D
      <4>1. Refs(d)' = Refs(d)
        BY <3>7, <3>9
      <4>2. rc'[d] = rc[d]
        BY <1>1, <2>1, <3>9
      <4> QED BY <4>1, <4>2, Same DEF WritersInv
    <3> QED BY <3>8, <3>9
  <2>7. PeekedIsCurrent'
    BY <1>1, <2>2, <2>4 DEF WritersInv, PeekedIsCurrent, ContentOf, OthersStay
  <2> QED BY <1>1, <2>5, <2>6, <2>7, ExclusiveStep, Counting DEF WritersInv
<1> QED BY <1>2, <1>3

-------------------------------------------------------------------------------
(* The steps that hand references over: each reference after the step was       *)
(* another one before it, and every one before it is one after it.              *)

LEMMA HandedOver ==
  ASSUME TypeInv, TypeInv', NEW d \in Digests, rc' = rc,
         NEW m \in [Refs(d)' -> Refs(d)],
         \A y, z \in Refs(d)' : m[y] = m[z] => y = z,
         \A w \in Refs(d) : \E y \in Refs(d)' : m[y] = w
  PROVE  Balanced(d)
<1>1. m \in Injection(Refs(d)', Refs(d)) /\ m \in Surjection(Refs(d)', Refs(d))
  BY DEF Injection, IsInjective, Surjection
<1>2. Cardinality(Refs(d)') = Cardinality(Refs(d))
  BY <1>1, Counting, FS_Injection
<1> QED BY <1>2 DEF Balanced

\* When t changes the file it writes, no other ingest is about to insert it.
LEMMA PeekedStep ==
  ASSUME WritersInv, NEW t \in Threads, NEW new, OthersStay(t), Writing(t),
         manifest' = [manifest EXCEPT ![call[t].file] = new], call'[t].pc # "insert"
  PROVE  PeekedIsCurrent'
<1>1. ASSUME NEW u \in Threads, call'[u].pc = "insert"
      PROVE  (call[u].old = ContentOf(call[u].file))'
  <2>1. u # t /\ u \in Threads \ {t} /\ call'[u] = call[u]
    BY <1>1 DEF OthersStay
  <2>2. call[u].pc = "insert" /\ WellFormed(call[u])
    BY <1>1, <2>1 DEF WritersInv, TypeInv
  <2>3. Writing(u) /\ call[u].file \in Files
    BY <2>2 DEF WellFormed, Writing, Busy
  <2>4. call[u].file # call[t].file
    BY <2>1, <2>3 DEF WritersInv, Exclusive
  <2>5. manifest'[call[u].file] = manifest[call[u].file]
    BY <2>3, <2>4 DEF WritersInv, TypeInv, TypeOK
  <2> QED BY <2>1, <2>2, <2>5 DEF WritersInv, PeekedIsCurrent, ContentOf
<1> QED BY <1>1 DEF PeekedIsCurrent

\* What another thread holds or owes is the same before and after a step of t.
LEMMA OthersRefs ==
  ASSUME NEW t \in Threads, OthersStay(t), NEW d, NEW u \in Threads \ {t}, NEW i \in Positions
  PROVE  /\ <<<<"held", u>>, i>> \in HeldRefs(d)' <=> <<<<"held", u>>, i>> \in HeldRefs(d)
         /\ <<<<"owed", u>>, i>> \in OwedRefs(d)' <=> <<<<"owed", u>>, i>> \in OwedRefs(d)
<1>1. call'[u] = call[u]
  BY DEF OthersStay
<1> QED BY <1>1 DEF HeldRefs, OwedRefs, Uncommitted

\* A reference is a position in what a file, an ingest or a release has.
LEMMA RefShape ==
  ASSUME NEW d, NEW y \in Refs(d)
  PROVE  \/ \E f \in Files, i \in Positions : y = <<<<"file", f>>, i>> /\ y \in FileRefs(d)
         \/ \E u \in Threads, i \in Positions : y = <<<<"held", u>>, i>> /\ y \in HeldRefs(d)
         \/ \E u \in Threads, i \in Positions : y = <<<<"owed", u>>, i>> /\ y \in OwedRefs(d)
<1>1. CASE y \in FileRefs(d)
  BY <1>1 DEF FileRefs
<1>2. CASE y \in HeldRefs(d)
  BY <1>2 DEF HeldRefs
<1>3. CASE y \in OwedRefs(d)
  BY <1>3 DEF OwedRefs
<1> QED BY <1>1, <1>2, <1>3 DEF Refs

LEMMA RefShapeAfter ==
  ASSUME NEW d, NEW y \in Refs(d)'
  PROVE  \/ \E f \in Files, i \in Positions : y = <<<<"file", f>>, i>> /\ y \in FileRefs(d)'
         \/ \E u \in Threads, i \in Positions : y = <<<<"held", u>>, i>> /\ y \in HeldRefs(d)'
         \/ \E u \in Threads, i \in Positions : y = <<<<"owed", u>>, i>> /\ y \in OwedRefs(d)'
<1>1. CASE y \in FileRefs(d)'
  BY <1>1 DEF FileRefs
<1>2. CASE y \in HeldRefs(d)'
  BY <1>2 DEF HeldRefs
<1>3. CASE y \in OwedRefs(d)'
  BY <1>3 DEF OwedRefs
<1> QED BY <1>1, <1>2, <1>3 DEF Refs

\* The file's new chunks were held by the ingest, its old ones by the file.
LEMMA InsertStep ==
  ASSUME WritersInv, TypeInv', NEW t \in Threads, Insert(t)
  PROVE  /\ WritersInv' /\ up' = up
         /\ \A d \in Digests : NoLoss(d)
         /\ call[t].file \notin EmptyIds => \A d \in Digests : Balanced(d)
<1> DEFINE c == call[t]
           f == call[t].file
           r == [c EXCEPT !.pc = "save_manifest"]
<1>1. /\ c \in Records /\ WellFormed(c) /\ c.pc = "insert" /\ c.op = "ingest"
      /\ call \in [Threads -> Records] /\ manifest \in [Files -> Contents \cup {None}]
      /\ rc' = rc /\ up' = up
  BY DEF WritersInv, TypeInv, TypeOK, Insert, WellFormed, memory
<1>2. CASE f \in EmptyIds
  <2>1. QuietMove(t)
    BY <1>1, <1>2, QuietReturn DEF Insert, WritersInv
  <2> QED BY <1>1, <1>2, <2>1, QuietStep
<1>3. CASE f \notin EmptyIds
  <2>1. /\ manifest' = [manifest EXCEPT ![f] = c.new]
        /\ Become(t, r)
    BY <1>3 DEF Insert, Goto
  <2>2. /\ r.pc = "save_manifest" /\ r.op = c.op /\ r.file = c.file
        /\ r.new = c.new /\ r.done = c.done /\ r.old = c.old /\ r.released = c.released
    BY <1>1 DEF Records
  <2> HIDE DEF r
  <2>3. call'[t] = r /\ OthersStay(t)
    BY <1>1, <2>1 DEF Become, OthersStay
  <2>4. Continues(t) /\ Writing(t)
    BY <1>1, <2>2, <2>3 DEF Continues, Writing, Busy
  <2>5. /\ f \in Files /\ c.new \in Contents /\ c.new # None
        /\ c.done = Len(c.new) /\ c.released = 0 /\ c.old = ContentOf(f)
    BY <1>1, StoreAssumption DEF WellFormed, WritersInv, PeekedIsCurrent
  <2>6. manifest'[f] = c.new /\ \A g \in Files \ {f} : manifest'[g] = manifest[g]
    BY <1>1, <2>1, <2>5
  <2>7. ASSUME NEW d \in Digests PROVE Balanced(d)
    <3> DEFINE to(y) == IF y[1] = <<"file", f>> THEN <<<<"held", t>>, y[2]>>
                        ELSE IF y[1] = <<"owed", t>> THEN <<<<"file", f>>, y[2]>> ELSE y
               m == [y \in Refs(d)' |-> to(y)]
    <3>1. ASSUME NEW i \in Positions
          PROVE  /\ <<<<"file", f>>, i>> \in Refs(d)' <=> <<<<"held", t>>, i>> \in Refs(d)
                 /\ <<<<"owed", t>>, i>> \in Refs(d)' <=> <<<<"file", f>>, i>> \in Refs(d)
                 /\ <<<<"held", t>>, i>> \notin Refs(d)'
                 /\ <<<<"owed", t>>, i>> \notin Refs(d)
      <4>0. i \in Nat /\ i > 0 /\ Len(<<>>) = 0
        BY DEF Positions
      <4>1. <<<<"file", f>>, i>> \in FileRefs(d)' <=> i <= Len(c.new) /\ c.new[i] = d
        BY <2>5, <2>6 DEF FileRefs
      <4>2. <<<<"held", t>>, i>> \in HeldRefs(d) <=> i <= Len(c.new) /\ c.new[i] = d
        BY <1>1, <2>5 DEF HeldRefs, Uncommitted
      <4>3. <<<<"owed", t>>, i>> \in OwedRefs(d)' <=> i <= Len(c.old) /\ c.old[i] = d
        BY <2>2, <2>3, <2>5, <4>0 DEF OwedRefs
      <4>4. <<<<"file", f>>, i>> \in FileRefs(d) <=> i <= Len(c.old) /\ c.old[i] = d
        <5>1. CASE manifest[f] = None
          BY <2>5, <4>0, <5>1 DEF FileRefs, ContentOf
        <5>2. CASE manifest[f] # None
          BY <2>5, <5>2 DEF FileRefs, ContentOf
        <5> QED BY <5>1, <5>2
      <4>5. <<<<"held", t>>, i>> \notin HeldRefs(d)'
        BY <2>2, <2>3 DEF HeldRefs, Uncommitted
      <4>6. <<<<"owed", t>>, i>> \notin OwedRefs(d)
        BY <1>1 DEF OwedRefs
      <4>7. /\ \A u : <<<<"file", u>>, i>> \notin HeldRefs(d) \cup OwedRefs(d)
            /\ \A u : <<<<"file", u>>, i>> \notin HeldRefs(d)' \cup OwedRefs(d)'
            /\ \A u : <<<<"held", u>>, i>> \notin FileRefs(d) \cup OwedRefs(d)
            /\ \A u : <<<<"held", u>>, i>> \notin FileRefs(d)' \cup OwedRefs(d)'
            /\ \A u : <<<<"owed", u>>, i>> \notin FileRefs(d) \cup HeldRefs(d)
            /\ \A u : <<<<"owed", u>>, i>> \notin FileRefs(d)' \cup HeldRefs(d)'
        BY DEF FileRefs, HeldRefs, OwedRefs
      <4> QED BY <4>1, <4>2, <4>3, <4>4, <4>5, <4>6, <4>7 DEF Refs
    <3>2. ASSUME NEW g \in Files \ {f}, NEW i \in Positions
          PROVE  <<<<"file", g>>, i>> \in FileRefs(d)' <=> <<<<"file", g>>, i>> \in FileRefs(d)
      BY <2>6 DEF FileRefs
    <3>3. ASSUME NEW y \in Refs(d)' PROVE to(y) \in Refs(d)
      <4>1. ASSUME NEW g \in Files, NEW i \in Positions, y = <<<<"file", g>>, i>>,
                   y \in FileRefs(d)'
            PROVE  to(y) \in Refs(d)
        BY <3>1, <3>2, <4>1 DEF Refs
      <4>2. ASSUME NEW u \in Threads, NEW i \in Positions, y = <<<<"held", u>>, i>>,
                   y \in HeldRefs(d)'
            PROVE  to(y) \in Refs(d)
        <5>1. u # t
          BY <3>1, <3>3, <4>2
        <5> QED BY <4>2, <5>1, <2>3, OthersRefs DEF Refs
      <4>3. ASSUME NEW u \in Threads, NEW i \in Positions, y = <<<<"owed", u>>, i>>,
                   y \in OwedRefs(d)'
            PROVE  to(y) \in Refs(d)
        <5>1. CASE u = t
          BY <3>1, <3>3, <4>3, <5>1
        <5>2. CASE u # t
          BY <4>3, <5>2, <2>3, OthersRefs DEF Refs
        <5> QED BY <5>1, <5>2
      <4> QED BY <3>3, <4>1, <4>2, <4>3, RefShapeAfter
    <3>4. m \in [Refs(d)' -> Refs(d)]
      BY <3>3
    <3>5. ASSUME NEW y \in Refs(d)', NEW z \in Refs(d)', m[y] = m[z] PROVE y = z
      <4>1. to(y) = to(z)
        BY <3>5
      <4>2. ASSUME NEW w \in Refs(d)'
            PROVE  w = <<w[1], w[2]>> /\ w[1] # <<"held", t>>
        <5>1. PICK holder \in ({"file"} \X Files) \cup ({"held", "owed"} \X Threads),
                    i \in Positions : w = <<holder, i>>
          BY <4>2, RefShapeAfter
        <5>2. holder # <<"held", t>>
          BY <3>1, <4>2, <5>1
        <5> QED BY <5>1, <5>2
      <4>3. /\ y = <<y[1], y[2]>> /\ y[1] # <<"held", t>>
            /\ z = <<z[1], z[2]>> /\ z[1] # <<"held", t>>
        BY <4>2
      <4> QED BY <4>1, <4>3
    <3>6. ASSUME NEW w \in Refs(d) PROVE \E y \in Refs(d)' : m[y] = w
      <4>1. ASSUME NEW g \in Files, NEW i \in Positions, w = <<<<"file", g>>, i>>,
                   w \in FileRefs(d)
            PROVE  \E y \in Refs(d)' : to(y) = w
        <5>1. CASE g = f
          <6>1. <<<<"owed", t>>, i>> \in Refs(d)' /\ to(<<<<"owed", t>>, i>>) = w
            BY <3>1, <3>6, <4>1, <5>1
          <6> QED BY <6>1
        <5>2. CASE g # f
          <6>1. w \in Refs(d)' /\ to(w) = w
            BY <3>2, <4>1, <5>2 DEF Refs
          <6> QED BY <6>1
        <5> QED BY <5>1, <5>2
      <4>2. ASSUME NEW u \in Threads, NEW i \in Positions, w = <<<<"held", u>>, i>>,
                   w \in HeldRefs(d)
            PROVE  \E y \in Refs(d)' : to(y) = w
        <5>1. CASE u = t
          <6>1. <<<<"file", f>>, i>> \in Refs(d)' /\ to(<<<<"file", f>>, i>>) = w
            BY <3>1, <3>6, <4>2, <5>1
          <6> QED BY <6>1
        <5>2. CASE u # t
          <6>1. w \in Refs(d)' /\ to(w) = w
            BY <4>2, <5>2, <2>3, OthersRefs DEF Refs
          <6> QED BY <6>1
        <5> QED BY <5>1, <5>2
      <4>3. ASSUME NEW u \in Threads, NEW i \in Positions, w = <<<<"owed", u>>, i>>,
                   w \in OwedRefs(d)
            PROVE  \E y \in Refs(d)' : to(y) = w
        <5>1. u # t
          BY <3>1, <3>6, <4>3
        <5>2. w \in Refs(d)' /\ to(w) = w
          BY <4>3, <5>1, <2>3, OthersRefs DEF Refs
        <5> QED BY <5>2
      <4>4. PICK y \in Refs(d)' : to(y) = w
        BY <3>6, <4>1, <4>2, <4>3, RefShape
      <4> QED BY <4>4
    <3> HIDE DEF m
    <3> QED BY <1>1, <3>4, <3>5, <3>6, HandedOver DEF WritersInv
  <2>8. PeekedIsCurrent'
    BY <2>1, <2>2, <2>3, <2>4, PeekedStep
  <2>9. \A d \in Digests : NoLoss(d)
    BY <2>7, Counting DEF WritersInv
  <2> QED BY <1>1, <2>4, <2>7, <2>8, <2>9, ExclusiveStep DEF WritersInv
<1> QED BY <1>2, <1>3

\* The chunks a deletion has to release were the file's.
LEMMA RemoveStep ==
  ASSUME WritersInv, TypeInv', NEW t \in Threads, Remove(t)
  PROVE  /\ WritersInv' /\ up' = up
         /\ \A d \in Digests : Balanced(d)
<1> DEFINE c == call[t]
           f == call[t].file
           r == [c EXCEPT !.pc = "remove_manifest", !.old = manifest[f]]
<1>1. /\ c \in Records /\ WellFormed(c) /\ c.pc = "remove" /\ c.op = "delete" /\ f \in Files
      /\ c.old = <<>> /\ c.released = 0
      /\ call \in [Threads -> Records] /\ manifest \in [Files -> Contents \cup {None}]
      /\ rc' = rc /\ up' = up
  BY DEF WritersInv, TypeInv, TypeOK, Remove, WellFormed, memory
<1>2. CASE manifest[f] = None
  <2>1. QuietMove(t) /\ NoRefs(t)
    BY <1>1, <1>2, QuietReturn DEF Remove, WritersInv
  <2>2. ASSUME NEW d \in Digests PROVE Balanced(d)
    <3>1. Refs(d)' = Refs(d)
      <4>1. ~Uncommitted(t) /\ ~(c.released < Len(c.old))
        BY <1>1 DEF Uncommitted
      <4> QED BY <1>1, <2>1, <4>1, NoRefsStep DEF QuietMove, Continues, WritersInv
    <3> QED BY <1>1, <3>1, Same DEF WritersInv
  <2> QED BY <1>1, <2>1, <2>2, QuietStep
<1>3. CASE manifest[f] # None
  <2>1. manifest' = [manifest EXCEPT ![f] = None] /\ Become(t, r)
    BY <1>3 DEF Remove
  <2>2. /\ r.pc = "remove_manifest" /\ r.op = c.op /\ r.file = c.file
        /\ r.old = manifest[f] /\ r.released = 0
    BY <1>1 DEF Records
  <2> HIDE DEF r
  <2>3. call'[t] = r /\ OthersStay(t)
    BY <1>1, <2>1 DEF Become, OthersStay
  <2>4. Continues(t) /\ Writing(t)
    BY <1>1, <2>2, <2>3 DEF Continues, Writing, Busy
  <2>5. manifest'[f] = None /\ \A g \in Files \ {f} : manifest'[g] = manifest[g]
    BY <1>1, <2>1
  <2>6. ASSUME NEW d \in Digests PROVE Balanced(d)
    <3> DEFINE to(y) == IF y[1] = <<"owed", t>> THEN <<<<"file", f>>, y[2]>> ELSE y
               m == [y \in Refs(d)' |-> to(y)]
    <3>1. ASSUME NEW i \in Positions
          PROVE  /\ <<<<"owed", t>>, i>> \in Refs(d)' <=> <<<<"file", f>>, i>> \in Refs(d)
                 /\ <<<<"file", f>>, i>> \notin Refs(d)'
                 /\ <<<<"held", t>>, i>> \notin Refs(d) \cup Refs(d)'
                 /\ <<<<"owed", t>>, i>> \notin Refs(d)
      <4>0. i \in Nat /\ i > 0 /\ Len(<<>>) = 0
        BY DEF Positions
      <4>1. <<<<"file", f>>, i>> \notin FileRefs(d)'
        BY <2>5 DEF FileRefs
      <4>2. <<<<"held", t>>, i>> \notin HeldRefs(d) \cup HeldRefs(d)'
        BY <1>1, <2>2, <2>3 DEF HeldRefs, Uncommitted
      <4>3. <<<<"owed", t>>, i>> \in OwedRefs(d)' <=> <<<<"file", f>>, i>> \in FileRefs(d)
        BY <1>1, <1>3, <2>2, <2>3, <4>0 DEF OwedRefs, FileRefs
      <4>4. <<<<"owed", t>>, i>> \notin OwedRefs(d)
        BY <1>1, <4>0 DEF OwedRefs
      <4>5. /\ <<<<"file", f>>, i>> \notin HeldRefs(d) \cup OwedRefs(d)
            /\ <<<<"file", f>>, i>> \notin HeldRefs(d)' \cup OwedRefs(d)'
            /\ <<<<"held", t>>, i>> \notin FileRefs(d) \cup OwedRefs(d)
            /\ <<<<"held", t>>, i>> \notin FileRefs(d)' \cup OwedRefs(d)'
            /\ <<<<"owed", t>>, i>> \notin FileRefs(d) \cup HeldRefs(d)
            /\ <<<<"owed", t>>, i>> \notin FileRefs(d)' \cup HeldRefs(d)'
        BY DEF FileRefs, HeldRefs, OwedRefs
      <4> QED BY <4>1, <4>2, <4>3, <4>4, <4>5 DEF Refs
    <3>2. ASSUME NEW g \in Files \ {f}, NEW i \in Positions
          PROVE  <<<<"file", g>>, i>> \in FileRefs(d)' <=> <<<<"file", g>>, i>> \in FileRefs(d)
      BY <2>5 DEF FileRefs
    <3>3. ASSUME NEW y \in Refs(d)' PROVE to(y) \in Refs(d) /\ y = <<y[1], y[2]>>
      <4>1. ASSUME NEW g \in Files, NEW i \in Positions, y = <<<<"file", g>>, i>>,
                   y \in FileRefs(d)'
            PROVE  to(y) \in Refs(d)
        BY <3>1, <3>2, <3>3, <4>1 DEF Refs
      <4>2. ASSUME NEW u \in Threads, NEW i \in Positions, y = <<<<"held", u>>, i>>,
                   y \in HeldRefs(d)'
            PROVE  to(y) \in Refs(d)
        <5>1. u # t
          BY <3>1, <3>3, <4>2
        <5> QED BY <4>2, <5>1, <2>3, OthersRefs DEF Refs
      <4>3. ASSUME NEW u \in Threads, NEW i \in Positions, y = <<<<"owed", u>>, i>>,
                   y \in OwedRefs(d)'
            PROVE  to(y) \in Refs(d)
        <5>1. CASE u = t
          BY <3>1, <3>3, <4>3, <5>1
        <5>2. CASE u # t
          BY <4>3, <5>2, <2>3, OthersRefs DEF Refs
        <5> QED BY <5>1, <5>2
      <4> QED BY <3>3, <4>1, <4>2, <4>3, RefShapeAfter
    <3>4. m \in [Refs(d)' -> Refs(d)]
      BY <3>3
    <3>5. ASSUME NEW y \in Refs(d)', NEW z \in Refs(d)', m[y] = m[z] PROVE y = z
      <4>1. to(y) = to(z)
        BY <3>5
      <4>2. ASSUME NEW w \in Refs(d)'
            PROVE  w = <<w[1], w[2]>> /\ w[1] # <<"file", f>>
        <5>1. PICK holder \in ({"file"} \X Files) \cup ({"held", "owed"} \X Threads),
                    i \in Positions : w = <<holder, i>>
          BY <4>2, RefShapeAfter
        <5>2. holder # <<"file", f>>
          BY <3>1, <4>2, <5>1
        <5> QED BY <5>1, <5>2
      <4>3. /\ y = <<y[1], y[2]>> /\ y[1] # <<"file", f>>
            /\ z = <<z[1], z[2]>> /\ z[1] # <<"file", f>>
        BY <4>2
      <4> QED BY <4>1, <4>3
    <3>6. ASSUME NEW w \in Refs(d) PROVE \E y \in Refs(d)' : m[y] = w
      <4>1. ASSUME NEW g \in Files, NEW i \in Positions, w = <<<<"file", g>>, i>>,
                   w \in FileRefs(d)
            PROVE  \E y \in Refs(d)' : to(y) = w
        <5>1. CASE g = f
          <6>1. <<<<"owed", t>>, i>> \in Refs(d)' /\ to(<<<<"owed", t>>, i>>) = w
            BY <3>1, <3>6, <4>1, <5>1
          <6> QED BY <6>1
        <5>2. CASE g # f
          <6>1. w \in Refs(d)' /\ to(w) = w
            BY <3>2, <4>1, <5>2 DEF Refs
          <6> QED BY <6>1
        <5> QED BY <5>1, <5>2
      <4>2. ASSUME NEW u \in Threads, NEW i \in Positions, w = <<<<"held", u>>, i>>,
                   w \in HeldRefs(d)
            PROVE  \E y \in Refs(d)' : to(y) = w
        <5>1. u # t
          BY <3>1, <3>6, <4>2
        <5>2. w \in Refs(d)' /\ to(w) = w
          BY <4>2, <5>1, <2>3, OthersRefs DEF Refs
        <5> QED BY <5>2
      <4>3. ASSUME NEW u \in Threads, NEW i \in Positions, w = <<<<"owed", u>>, i>>,
                   w \in OwedRefs(d)
            PROVE  \E y \in Refs(d)' : to(y) = w
        <5>1. u # t
          BY <3>1, <3>6, <4>3
        <5>2. w \in Refs(d)' /\ to(w) = w
          BY <4>3, <5>1, <2>3, OthersRefs DEF Refs
        <5> QED BY <5>2
      <4>4. PICK y \in Refs(d)' : to(y) = w
        BY <3>6, <4>1, <4>2, <4>3, RefShape
      <4> QED BY <4>4
    <3> HIDE DEF m
    <3> QED BY <1>1, <3>4, <3>5, <3>6, HandedOver DEF WritersInv
  <2>7. PeekedIsCurrent'
    BY <2>1, <2>2, <2>3, <2>4, PeekedStep
  <2> QED BY <1>1, <2>4, <2>6, <2>7, ExclusiveStep DEF WritersInv
<1> QED BY <1>2, <1>3

-------------------------------------------------------------------------------
(* A call that begins refers to nothing, and to no file another writer is on.   *)

LEMMA BeginStep ==
  ASSUME WritersInv, TypeInv', NEW t \in Threads, BeginCall(t),
         WritersApart
  PROVE  /\ WritersInv' /\ up' = up
         /\ \A d \in Digests : Balanced(d)
<1> USE DEF backend, memory, locks, bounds
<1>1. ASSUME NEW op, NEW f, NEW x, NEW label, Begin(t, op, f, x, label),
             label \in {"peek", "exists", "remove", "lookup", "fsck_live"},
             op \in {"ingest", "delete"} =>
               NoWriterOn(f) \/ OneCaller
      PROVE  /\ WritersInv' /\ up' = up
             /\ \A d \in Digests : Balanced(d)
  <2> DEFINE r == [Idle EXCEPT !.pc = label, !.op = op, !.file = f, !.new = x]
  <2>1. /\ r.pc = label /\ r.op = op /\ r.file = f /\ r.old = <<>> /\ r.done = 0
        /\ Become(t, r) /\ manifest' = manifest /\ rc' = rc /\ up' = up
    BY <1>1 DEF Begin, Idle
  <2>0. call[t].pc = "idle" /\ call[t].old = <<>>
    BY <1>1 DEF Begin, Busy, WritersInv, TypeInv, WellFormed
  <2> HIDE DEF r
  <2>2. call'[t] = r /\ OthersStay(t)
    BY <2>1 DEF Become, OthersStay, WritersInv, TypeInv, TypeOK
  <2>3. ASSUME NEW d \in Digests PROVE Balanced(d)
    <3>1. FileRefs(d)' = FileRefs(d)
      BY <2>1 DEF FileRefs
    <3>2. ASSUME NEW y \in ({"held"} \X Threads) \X Positions
          PROVE  y \in HeldRefs(d)' <=> y \in HeldRefs(d)
      <4>1. y[2] \in Nat /\ y[2] > 0
        BY DEF Positions
      <4>2. CASE y[1][2] = t
        BY <2>0, <2>1, <2>2, <4>1, <4>2 DEF HeldRefs, Uncommitted
      <4>3. CASE y[1][2] # t
        BY <2>2, <4>3 DEF HeldRefs, OthersStay, Uncommitted
      <4> QED BY <4>2, <4>3
    <3>3. ASSUME NEW y \in ({"owed"} \X Threads) \X Positions
          PROVE  y \in OwedRefs(d)' <=> y \in OwedRefs(d)
      <4>1. y[2] \in Nat /\ y[2] > 0 /\ Len(<<>>) = 0
        BY DEF Positions
      <4>2. CASE y[1][2] = t
        BY <2>0, <2>1, <2>2, <4>1, <4>2 DEF OwedRefs
      <4>3. CASE y[1][2] # t
        BY <2>2, <4>3 DEF OwedRefs, OthersStay
      <4> QED BY <4>2, <4>3
    <3>4. HeldRefs(d)' = HeldRefs(d) /\ OwedRefs(d)' = OwedRefs(d)
      BY <3>2, <3>3 DEF HeldRefs, OwedRefs
    <3> QED BY <2>1, <3>1, <3>4, Same DEF Refs, WritersInv
  <2>4. Exclusive'
    <3> SUFFICES ASSUME NEW u \in Threads, NEW v \in Threads, u # v, Writing(u)', Writing(v)'
                 PROVE  call'[u].file # call'[v].file
      BY DEF Exclusive
    <3>1. ASSUME NEW w \in Threads \ {t} PROVE call'[w] = call[w] /\ (Writing(w)' => Writing(w))
      BY <2>2 DEF OthersStay, Writing, Busy
    <3>2. Writing(t)' => NoWriterOn(f)
      BY <1>1, <2>1, <2>2 DEF Writing, OneCaller
    <3>3. CASE u # t /\ v # t
      BY <3>1, <3>3 DEF WritersInv, Exclusive
    <3>4. CASE u = t \/ v = t
      BY <3>1, <3>2, <3>4, <2>1, <2>2 DEF NoWriterOn
    <3> QED BY <3>3, <3>4
  <2>5. PeekedIsCurrent'
    BY <1>1, <2>1, <2>2 DEF WritersInv, PeekedIsCurrent, ContentOf, OthersStay
  <2> QED BY <2>1, <2>3, <2>4, <2>5 DEF WritersInv
<1>2. ASSUME NEW f \in Files, NEW x \in Contents, BeginIngest(t, f, x)
      PROVE  \E label \in {"peek", "exists"} : Begin(t, "ingest", f, x, label)
  BY <1>2 DEF BeginIngest
<1>3. CASE \E f \in Files, x \in Contents : BeginIngest(t, f, x)
  <2>1. PICK f \in Files, x \in Contents : BeginIngest(t, f, x)
    BY <1>3
  <2>2. PICK label \in {"peek", "exists"} : Begin(t, "ingest", f, x, label)
    BY <1>2, <2>1
  <2>3. NoWriterOn(f) \/ OneCaller
    BY <2>1 DEF BeginIngest, WritersApart, CreatesOnly
  <2> QED BY <1>1, <2>2, <2>3
<1>4. CASE \E f \in Files : BeginDelete(t, f)
  BY <1>1, <1>4 DEF BeginDelete, WritersApart, CreatesOnly
<1>5. CASE \E f \in Files : BeginRead(t, f)
  BY <1>1, <1>5 DEF BeginRead
<1>6. CASE BeginRepair(t)
  BY <1>1, <1>6 DEF BeginRepair
<1> QED BY <1>3, <1>4, <1>5, <1>6 DEF BeginCall

LEMMA RunningThread ==
  ASSUME WritersInv, TypeInv', NEW t \in Threads, BeginCall(t) \/ Step(t) \/ Fail(t),
         WritersApart
  PROVE  /\ WritersInv' /\ up' = up
         /\ \A d \in Digests : NoLoss(d)
<1>1. (\A d \in Digests : Balanced(d)) => \A d \in Digests : NoLoss(d)
  BY Counting DEF WritersInv
<1>2. CASE BeginCall(t)
  BY <1>1, <1>2, BeginStep
<1>3. CASE Increment(t) \/ Insert(t) \/ Remove(t) \/ Decrement(t)
  BY <1>1, <1>3, IncrementStep, InsertStep, RemoveStep, DecrementStep
<1>4. CASE (Step(t) \/ Fail(t)) /\ ~(Increment(t) \/ Insert(t) \/ Remove(t) \/ Decrement(t))
  <2>1. QuietMove(t) /\ rc' = rc /\ up' = up
    BY <1>4, QuietActions DEF WritersInv
  <2> QED BY <2>1, QuietStep
<1> QED BY <1>2, <1>3, <1>4

\* Every step of a store that is open, by a thread or by nobody.
LEMMA RunningStep ==
  ASSUME WritersInv, [Next]_vars, ~Crash, ~Open,
         WritersApart
  PROVE  /\ WritersInv' /\ up' = up
         /\ \A d \in Digests : NoLoss(d)
<1>1. TypeInv'
  BY TypeInvStep DEF WritersInv
<1>2. (\A d \in Digests : Balanced(d)) => \A d \in Digests : NoLoss(d)
  BY <1>1, Counting DEF WritersInv
<1>3. ASSUME NEW t \in Threads, BeginCall(t) \/ Step(t) \/ Fail(t)
      PROVE  /\ WritersInv' /\ up' = up
             /\ \A d \in Digests : NoLoss(d)
  BY <1>1, <1>3, RunningThread
<1>4. CASE UNCHANGED vars
  <2>1. \A d : Refs(d)' = Refs(d)
    BY <1>4 DEF vars, memory, Refs, FileRefs, HeldRefs, OwedRefs, Uncommitted
  <2>2. rc' = rc /\ up' = up
    BY <1>4 DEF vars, memory
  <2>3. Exclusive' /\ PeekedIsCurrent'
    BY <1>4 DEF vars, memory, WritersInv, Exclusive, PeekedIsCurrent, ContentOf, Writing, Busy
  <2>4. \A d \in Digests : Balanced(d)
    BY <2>1, <2>2 DEF Balanced
  <2> QED BY <1>1, <1>2, <2>2, <2>3, <2>4 DEF WritersInv
<1> QED BY <1>3, <1>4 DEF Next, Rest

LEMMA WritersInit == Init => WritersInv /\ \A d \in Digests : Refs(d) = {}
<1> SUFFICES ASSUME Init PROVE WritersInv /\ \A d \in Digests : Refs(d) = {}
  OBVIOUS
<1>1. TypeInv
  BY TypeInvInit
<1>2. ASSUME NEW d \in Digests PROVE Refs(d) = {}
  <2>1. FileRefs(d) = {}
    BY DEF Init, FileRefs
  <2>2. HeldRefs(d) = {}
    BY DEF Init, HeldRefs, Idle, Uncommitted
  <2>3. OwedRefs(d) = {}
    <3>1. ASSUME NEW y \in OwedRefs(d) PROVE FALSE
      <4>1. y[2] \in Nat /\ y[2] > 0 /\ y[2] <= Len(<<>>)
        BY <3>1 DEF Init, OwedRefs, Idle, Positions
      <4> QED BY <4>1
    <3> QED BY <3>1
  <2> QED BY <2>1, <2>2, <2>3 DEF Refs
<1>3. Exclusive /\ PeekedIsCurrent
  BY DEF Init, Exclusive, PeekedIsCurrent, Idle, Writing, Busy
<1> QED BY <1>1, <1>2, <1>3 DEF WritersInv

LEMMA CoverInit == Init => CoverInv
<1> SUFFICES ASSUME Init PROVE CoverInv
  OBVIOUS
<1>1. WritersInv /\ \A d \in Digests : Refs(d) = {}
  BY WritersInit
<1>2. up /\ \A d \in Digests : rc[d] = 0
  BY DEF Init
<1>3. ASSUME NEW d \in Digests PROVE Cardinality(Refs(d)) <= rc[d]
  BY <1>1, <1>2, FS_EmptySet
<1> QED BY <1>1, <1>2, <1>3 DEF CoverInv, RefcountCovers

LEMMA CoverStep ==
  ASSUME WritersApart, MaxCrashes = 0, CoverInv, [Next]_vars
  PROVE  CoverInv'
<1>1. TypeInv /\ TypeInv' /\ WritersInv /\ up
  BY TypeInvStep DEF CoverInv, WritersInv
<1>2. ~Crash /\ ~Open
  BY <1>1 DEF Crash, Open, TypeInv, TypeOK
<1>3. WritersInv' /\ up' /\ \A d \in Digests : NoLoss(d)
  BY <1>1, <1>2, RunningStep
<1>4. ASSUME NEW d \in Digests PROVE Cardinality(Refs(d)') <= rc'[d]
  <2>1. Cardinality(Refs(d)) <= rc[d] /\ NoLoss(d)
    BY <1>3 DEF CoverInv, RefcountCovers
  <2> QED BY <1>1, <2>1, Counting DEF NoLoss
<1> QED BY <1>3, <1>4 DEF CoverInv, RefcountCovers

\* However many threads ingest, delete, read and repair, and whichever backend
\* calls fail: while callers keep writing calls on one file apart and the process
\* lives, release_digests never takes a chunk in use for garbage.
THEOREM CountsCover ==
  ASSUME WritersApart, MaxCrashes = 0
  PROVE  Spec => []RefcountCovers
<1>1. CoverInv => RefcountCovers
  BY DEF CoverInv
<1>2. CoverInv /\ [Next]_vars => CoverInv'
  BY CoverStep
<1> QED BY <1>1, <1>2, CoverInit, PTL DEF Spec

-------------------------------------------------------------------------------
(* Exact counts: while no call is cut short, a call ends owing nothing, so that *)
(* no step loses a reference that stays counted.                                *)

\* What a call has yet to release is counted, so it finds a count to lower.
LEMMA OwedCounted ==
  ASSUME TypeInv, RefcountCovers, NEW t \in Threads, call[t].pc \in {"size", "decrement"}
  PROVE  OldChunk(t) \in Digests /\ rc[OldChunk(t)] > 0 /\ Refs(OldChunk(t)) # {}
<1> DEFINE c == call[t]
           x == <<<<"owed", t>>, c.released + 1>>
           D == OldChunk(t)
<1>1. c \in Records /\ WellFormed(c) /\ D \in Digests
  BY ChunkType DEF TypeInv, TypeOK
<1>2. /\ c.released \in Nat /\ c.released < Len(c.old) /\ Len(c.old) \in Nat
      /\ Len(c.old) <= MaxChunks
  BY <1>1, StoreAssumption DEF WellFormed, Records
<1>3. c.released + 1 \in Positions
  BY <1>2, StoreAssumption DEF Positions
<1>4. x \in Refs(D)
  BY <1>2, <1>3 DEF Refs, OwedRefs, OldChunk
<1> HIDE DEF x, D
<1>5. Cardinality(Refs(D)) # 0
  BY <1>4, RefsFinite, FS_EmptySet
<1>6. Cardinality(Refs(D)) \in Nat /\ Cardinality(Refs(D)) <= rc[D] /\ rc[D] \in Nat
  BY <1>1, RefsFinite, FS_CardinalityType DEF RefcountCovers, TypeInv, TypeOK
<1> QED BY <1>1, <1>4, <1>5, <1>6 DEF D

\* A call that ends by itself has entered what it counted and released what it
\* had to.
Settled(t) == /\ ~Uncommitted(t) /\ call[t].pc # "insert"
              /\ ~(call[t].released < Len(call[t].old))

LEMMA GoesOn ==
  ASSUME TypeInv, NEW t \in Threads, NEW r, Become(t, r)
  PROVE  call'[t] = r
BY DEF TypeInv, TypeOK, Become

LEMMA GoesTo ==
  ASSUME TypeInv, NEW t \in Threads, NEW label, Goto(t, label)
  PROVE  call'[t].pc = label
<1>1. call'[t] = [call[t] EXCEPT !.pc = label] /\ call[t] \in Records
  BY GoesOn DEF Goto, TypeInv, TypeOK
<1> QED BY <1>1 DEF Records

LEMMA GoesSeen ==
  ASSUME TypeInv, NEW t \in Threads, NEW label, NEW s,
         Become(t, [call[t] EXCEPT !.pc = label, !.seen = s])
  PROVE  call'[t].pc = label
<1>1. call'[t] = [call[t] EXCEPT !.pc = label, !.seen = s] /\ call[t] \in Records
  BY GoesOn DEF TypeInv, TypeOK
<1> QED BY <1>1 DEF Records

LEMMA ReleaseRestSettled ==
  ASSUME TypeInv, NEW t \in Threads, ReleaseRest(t), ~Uncommitted(t), call[t].pc # "insert",
         call'[t].pc = "idle"
  PROVE  Settled(t)
BY GoesTo DEF ReleaseRest, Settled

LEMMA RefcountSavedSettled ==
  ASSUME TypeInv, NEW t \in Threads, RefcountSaved(t), call[t].pc \in {"index_get", "index_put"},
         call'[t].pc = "idle"
  PROVE  Settled(t)
<1>1. CASE Releasing(t)
  BY <1>1, ReleaseRestSettled DEF RefcountSaved, Releasing, Uncommitted
<1>2. CASE ~Releasing(t)
  BY <1>2, GoesTo DEF RefcountSaved
<1> QED BY <1>1, <1>2

\* Reads and repairs have nothing to release.
LEMMA NothingOwed ==
  ASSUME TypeInv, NEW t \in Threads, call[t].pc \in ReadPcs \cup RepairPcs
  PROVE  Settled(t)
<1>1. /\ call[t].old = <<>> /\ call[t].released = 0
      /\ call[t].op \in {"read", "repair"}
  BY DEF TypeInv, WellFormed
<1> QED BY <1>1 DEF Settled, Uncommitted

LEMMA EndsSettled ==
  ASSUME TypeInv, faults' = faults, NEW t \in Threads, Step(t), call'[t].pc = "idle",
         ~Increment(t), ~Insert(t), ~Remove(t), ~Decrement(t)
  PROVE  Settled(t)
<1> DEFINE c == call[t]
<1>1. c \in Records /\ WellFormed(c)
  BY DEF TypeInv, TypeOK
<1>2. CASE StoreExists(t)
  <2>1. PICK p \in {"increment", "put"}, x \in BOOLEAN :
               Become(t, [c EXCEPT !.pc = p, !.existed = x])
    BY <1>2 DEF StoreExists
  <2>2. call'[t].pc = p
    BY <2>1, <1>1, GoesOn DEF Records
  <2> QED BY <2>2
<1>3. CASE StorePut(t) \/ SaveRefcount(t) \/ SaveManifest(t) \/ RemoveManifest(t)
           \/ GcBlob(t) \/ GcRefcount(t)
  BY <1>3, GoesTo DEF StorePut, SaveRefcount, SaveManifest, RemoveManifest, GcBlob, GcRefcount
<1>4. CASE RefIndexGet(t)
  <2>1. CASE c.cur \in ridx
    BY <1>4, <2>1, RefcountSavedSettled DEF RefIndexGet
  <2>2. CASE c.cur \notin ridx
    BY <1>4, <2>2, GoesSeen DEF RefIndexGet
  <2> QED BY <2>1, <2>2
<1>5. CASE RefIndexPut(t)
  BY <1>5, RefcountSavedSettled DEF RefIndexPut
<1>6. CASE Peek(t)
  <2> DEFINE o == IF manifest[c.file] = None THEN <<>> ELSE manifest[c.file]
  <2>1. Become(t, [c EXCEPT !.pc = "insert", !.old = o])
    BY <1>6 DEF Peek
  <2> HIDE DEF o
  <2>2. call'[t].pc = "insert"
    BY <2>1, <1>1, GoesOn DEF Records
  <2> QED BY <2>2
<1>7. CASE ManIndexGet(t)
  <2>1. CASE c.file \in midx
    BY <1>7, <2>1, ReleaseRestSettled DEF ManIndexGet, Uncommitted
  <2>2. CASE c.file \notin midx
    BY <1>7, <2>2, GoesSeen DEF ManIndexGet
  <2> QED BY <2>1, <2>2
<1>8. CASE ManIndexPut(t) \/ RmIndexPut(t) \/ GcIndexPut(t)
  BY <1>8, ReleaseRestSettled DEF ManIndexPut, RmIndexPut, GcIndexPut, Uncommitted
<1>9. CASE RmIndexGet(t) \/ GcIndexGet(t)
  BY <1>9, GoesSeen DEF RmIndexGet, GcIndexGet
<1>10. CASE Size(t)
  <2>1. faults' # faults + 1
    BY DEF TypeInv, TypeOK
  <2>2. Goto(t, "decrement")
    BY <1>10, <2>1 DEF Size
  <2> QED BY <2>2, GoesTo
<1>11. CASE Lookup(t) \/ Fetch(t) \/ FsckLive(t) \/ FsckList(t) \/ FsckUnlink(t)
  BY <1>11, NothingOwed DEF Lookup, Fetch, FsckLive, FsckList, FsckUnlink
<1> QED BY <1>2, <1>3, <1>4, <1>5, <1>6, <1>7, <1>8, <1>9, <1>10, <1>11 DEF Step

LEMMA ExactMove ==
  ASSUME CoverInv, TypeInv',
         NEW t \in Threads, Step(t) \/ Fail(t), faults = 0, faults' = 0,
         NEW d \in Digests
  PROVE  Balanced(d)
<1>1. WritersInv /\ TypeInv /\ RefcountCovers
  BY DEF CoverInv, WritersInv
<1>2. Step(t) /\ ~Fail(t)
  BY DEF Fail
<1>3. CASE Increment(t) \/ Remove(t)
  BY <1>1, <1>3, IncrementStep, RemoveStep
<1>4. CASE Insert(t)
  <2>1. call[t].file \notin EmptyIds
    BY <1>4 DEF Insert
  <2> QED BY <1>1, <1>4, <2>1, InsertStep
<1>5. CASE Decrement(t)
  <2>1. rc[OldChunk(t)] > 0
    BY <1>1, <1>5, OwedCounted DEF Decrement
  <2> QED BY <1>1, <1>5, <2>1, DecrementStep
<1>6. CASE ~(Increment(t) \/ Remove(t) \/ Insert(t) \/ Decrement(t))
  <2>1. QuietMove(t) /\ rc' = rc
    BY <1>1, <1>2, <1>6, QuietActions
  <2>2. OthersStay(t) /\ manifest' = manifest
    BY <2>1 DEF QuietMove, Continues
  <2>3. CASE SameRefs(t)
    BY <1>1, <2>1, <2>2, <2>3, SameRefsStep, Same
  <2>4. CASE NoRefs(t)
    <3>1. Settled(t)
      BY <1>1, <1>2, <1>6, <2>4, EndsSettled DEF NoRefs
    <3> QED BY <1>1, <2>1, <2>2, <2>4, <3>1, NoRefsStep, Same DEF Settled
  <2> QED BY <2>1, <2>3, <2>4 DEF QuietMove
<1> QED BY <1>3, <1>4, <1>5, <1>6

ExactInv == CoverInv /\ RefcountExact

LEMMA ExactStep ==
  ASSUME WritersApart, MaxCrashes = 0, ExactInv, [Next]_vars
  PROVE  ExactInv'
<1>1. /\ CoverInv /\ CoverInv' /\ TypeInv /\ TypeInv' /\ up
      /\ faults \in Nat
  BY CoverStep DEF ExactInv, CoverInv, WritersInv, TypeInv, TypeOK
<1>2. ~Crash /\ ~Open
  BY <1>1 DEF Crash, Open, TypeInv, TypeOK
<1>3. SUFFICES ASSUME faults' = 0, NEW d \in Digests
               PROVE  Cardinality(Refs(d)') = rc'[d]
  BY <1>1 DEF ExactInv, RefcountExact
<1>4. faults = 0 /\ Balanced(d)
  <2>1. CASE \E t \in Threads : Step(t) \/ Fail(t)
    <3>1. PICK t \in Threads : Step(t) \/ Fail(t)
      BY <2>1
    <3>2. faults' \in {faults, faults + 1}
      BY <3>1 DEF Step, Fail, bounds, StoreExists, StorePut, Increment, SaveRefcount,
                  RefIndexGet, RefIndexPut, Peek, Insert, SaveManifest, ManIndexGet,
                  ManIndexPut, Remove, RemoveManifest, RmIndexGet, RmIndexPut, Size,
                  Decrement, GcBlob, GcRefcount, GcIndexGet, GcIndexPut, Lookup, Fetch,
                  FsckLive, FsckList, FsckUnlink
    <3>3. faults = 0
      BY <1>1, <1>3, <3>2
    <3> QED BY <1>1, <1>3, <3>1, <3>3, ExactMove
  <2>2. CASE \E t \in Threads : BeginCall(t)
    <3>1. PICK t \in Threads : BeginCall(t)
      BY <2>2
    <3>2. faults' = faults
      BY <3>1 DEF BeginCall, BeginIngest, BeginDelete, BeginRead, BeginRepair, Begin
    <3> QED BY <1>1, <1>3, <3>1, <3>2, BeginStep DEF CoverInv
  <2>3. CASE UNCHANGED vars
    <3>1. Refs(d)' = Refs(d)
      BY <2>3 DEF vars, memory, Refs, FileRefs, HeldRefs, OwedRefs, Uncommitted
    <3> QED BY <1>3, <2>3, <3>1 DEF vars, memory, bounds, Balanced
  <2> QED BY <1>2, <2>1, <2>2, <2>3 DEF Next, Rest
<1>5. Cardinality(Refs(d)) = rc[d]
  BY <1>4 DEF ExactInv, RefcountExact
<1> QED BY <1>1, <1>4, <1>5, Counting DEF Balanced

\* As long as no call is cut short, a chunk's count is exactly the references to
\* it, however ingests and deletes of different files interleave: none of them
\* leaks a count that keeps a blob alive for good. Chunks may be of any length: an
\* empty one, whose size release_digests must ask the blob for, can make a call
\* end with an error, but a call that ends well has released what it owed.
THEOREM CountsExact ==
  ASSUME WritersApart, MaxCrashes = 0
  PROVE  Spec => []RefcountExact
<1>1. Init => ExactInv
  <2>1. ASSUME Init, NEW d \in Digests PROVE Cardinality(Refs(d)) = rc[d]
    <3>1. Refs(d) = {} /\ rc[d] = 0
      BY <2>1, WritersInit DEF Init
    <3> QED BY <3>1, FS_EmptySet
  <2> QED BY <2>1, CoverInit DEF ExactInv, RefcountExact
<1>2. ExactInv => RefcountExact
  BY DEF ExactInv
<1>3. ExactInv /\ [Next]_vars => ExactInv'
  BY ExactStep
<1> QED BY <1>1, <1>2, <1>3, PTL DEF Spec
===============================================================================
