---------------------------- MODULE DurableProofs ----------------------------
(* What survives on the backend, for a store with one caller at a time: at      *)
(* every instant, whatever backend calls have failed and wherever the process   *)
(* dies, the files and counts that a reopened store would load are sound.       *)
(* And what a caller may rely on: the statistics are exact between calls, and    *)
(* the store implements FileStore, as seen in memory and as seen on the backend. *)
EXTENDS ChunkStoreProofs, StoreRefinement, WellFoundedInduction

USE DEF StorePcs, CommitPcs, DeletePcs, ReleasePcs, ReadPcs, RepairPcs, BackendPcs

-------------------------------------------------------------------------------
(* Who counts on a chunk: besides the references of the running store, the      *)
(* files that the backend still has as they were before a call that failed.     *)

\* The call has changed the file in memory and is about to do so on the backend;
\* what the backend still has is what the call will release.
InTransit(f) == \E t \in Threads : /\ call[t].pc \in {"save_manifest", "remove_manifest"}
                                   /\ call[t].file = f /\ call[t].old = LoadedFile(f)

DiskRefs(d) ==
  {r \in ({"disk"} \X Files) \X Positions :
     LET c == LoadedFile(r[1][2]) IN
     /\ c # None /\ c # manifest[r[1][2]] /\ ~InTransit(r[1][2])
     /\ r[2] <= Len(c) /\ c[r[2]] = d}

Claims(d) == Refs(d) \cup DiskRefs(d)

ClaimsCounted == \A d \in Digests :
  /\ IsFiniteSet(Refs(d)) /\ IsFiniteSet(DiskRefs(d)) /\ IsFiniteSet(Claims(d))
  /\ Cardinality(Refs(d)) \in Nat /\ Cardinality(DiskRefs(d)) \in Nat
  /\ Cardinality(Claims(d)) = Cardinality(Refs(d)) + Cardinality(DiskRefs(d))

LEMMA ClaimsFinite == ClaimsCounted
<1> SUFFICES ASSUME NEW d \in Digests
             PROVE  /\ IsFiniteSet(Refs(d)) /\ IsFiniteSet(DiskRefs(d)) /\ IsFiniteSet(Claims(d))
                    /\ Cardinality(Refs(d)) \in Nat /\ Cardinality(DiskRefs(d)) \in Nat
                    /\ Cardinality(Claims(d)) = Cardinality(Refs(d)) + Cardinality(DiskRefs(d))
  BY DEF ClaimsCounted
<1>1. IsFiniteSet(Positions)
  BY StoreAssumption, FS_Interval DEF Positions
<1>2. IsFiniteSet(({"disk"} \X Files) \X Positions)
  BY <1>1, StoreAssumption, FS_Singleton, FS_Product
<1>3. IsFiniteSet(DiskRefs(d)) /\ IsFiniteSet(Refs(d))
  BY <1>2, FS_Subset, RefsFinite DEF DiskRefs
<1>4. Refs(d) \cap DiskRefs(d) = {}
  BY DEF Refs, FileRefs, HeldRefs, OwedRefs, DiskRefs
<1>5. Cardinality(Refs(d) \cap DiskRefs(d)) = 0
  BY <1>4, FS_EmptySet
<1>6. Cardinality(Refs(d)) \in Nat /\ Cardinality(DiskRefs(d)) \in Nat
  BY <1>3, FS_CardinalityType
<1>7. /\ IsFiniteSet(Claims(d))
      /\ Cardinality(Claims(d)) = Cardinality(Refs(d)) + Cardinality(DiskRefs(d)) - 0
  BY <1>3, <1>5, FS_Union DEF Claims
<1> QED BY <1>3, <1>6, <1>7

LEMMA ClaimsFiniteAfter == ClaimsCounted'
BY ClaimsFinite, PTL

\* Every chunk of a file on the backend is claimed: by the file in memory, by the
\* call that changes it, or by the backend itself.
DurablyClaimed == \A d \in Digests :
  /\ Cardinality(DurableRefs(d)) <= Cardinality(Claims(d))
  /\ DurableRefs(d) # {} => Claims(d) # {}

LEMMA DurableWithin == TypeInv => DurablyClaimed
<1> SUFFICES ASSUME TypeInv, NEW d \in Digests
             PROVE  /\ Cardinality(DurableRefs(d)) <= Cardinality(Claims(d))
                    /\ DurableRefs(d) # {} => Claims(d) # {}
  BY DEF DurablyClaimed
<1> DEFINE Mover(f) == CHOOSE t \in Threads :
                         /\ call[t].pc \in {"save_manifest", "remove_manifest"}
                         /\ call[t].file = f /\ call[t].old = LoadedFile(f)
           holder(f) == IF LoadedFile(f) = manifest[f] THEN <<"file", f>>
                        ELSE IF InTransit(f) THEN <<"owed", Mover(f)>> ELSE <<"disk", f>>
           m == [r \in DurableRefs(d) |-> <<holder(r[1]), r[2]>>]
<1>1. ASSUME NEW f \in Files, InTransit(f)
      PROVE  /\ Mover(f) \in Threads /\ call[Mover(f)].pc \in {"save_manifest", "remove_manifest"}
             /\ call[Mover(f)].file = f /\ call[Mover(f)].old = LoadedFile(f)
             /\ call[Mover(f)].released = 0
  <2>1. /\ Mover(f) \in Threads /\ call[Mover(f)].pc \in {"save_manifest", "remove_manifest"}
        /\ call[Mover(f)].file = f /\ call[Mover(f)].old = LoadedFile(f)
    BY <1>1 DEF InTransit
  <2> QED BY <2>1 DEF TypeInv, WellFormed
<1> HIDE DEF Mover
<1>2. ASSUME NEW r \in DurableRefs(d) PROVE m[r] \in Claims(d)
  <2>1. /\ r[1] \in Files /\ r[2] \in Positions /\ LoadedFile(r[1]) # None
        /\ r[2] <= Len(LoadedFile(r[1])) /\ LoadedFile(r[1])[r[2]] = d
        /\ r[2] \in Nat /\ r[2] > 0
    BY DEF DurableRefs, Positions
  <2>2. CASE LoadedFile(r[1]) = manifest[r[1]]
    <3>1. <<<<"file", r[1]>>, r[2]>> \in FileRefs(d)
      BY <2>1, <2>2 DEF FileRefs
    <3> QED BY <2>2, <3>1 DEF Claims, Refs
  <2>3. CASE LoadedFile(r[1]) # manifest[r[1]] /\ InTransit(r[1])
    <3>1. <<<<"owed", Mover(r[1])>>, r[2]>> \in OwedRefs(d)
      BY <1>1, <2>1, <2>3 DEF OwedRefs
    <3> QED BY <2>3, <3>1 DEF Claims, Refs
  <2>4. CASE LoadedFile(r[1]) # manifest[r[1]] /\ ~InTransit(r[1])
    <3>1. <<<<"disk", r[1]>>, r[2]>> \in DiskRefs(d)
      BY <2>1, <2>4 DEF DiskRefs
    <3> QED BY <2>4, <3>1 DEF Claims
  <2> QED BY <2>2, <2>3, <2>4
<1>3. ASSUME NEW q \in DurableRefs(d), NEW r \in DurableRefs(d), m[q] = m[r] PROVE q = r
  <2>1. q = <<q[1], q[2]>> /\ r = <<r[1], r[2]>> /\ q[1] \in Files /\ r[1] \in Files
    BY DEF DurableRefs
  <2>2. holder(q[1]) = holder(r[1]) /\ q[2] = r[2]
    BY <1>3
  <2>3. q[1] = r[1]
    <3>1. CASE InTransit(q[1]) /\ InTransit(r[1])
      BY <1>1, <2>1, <2>2, <3>1
    <3>2. CASE ~(InTransit(q[1]) /\ InTransit(r[1]))
      BY <2>2, <3>2
    <3> QED BY <3>1, <3>2
  <2> QED BY <2>1, <2>2, <2>3
<1> HIDE DEF holder
<1>4. m \in Injection(DurableRefs(d), Claims(d))
  BY <1>2, <1>3 DEF Injection, IsInjective
<1>5. Cardinality(DurableRefs(d)) <= Cardinality(Claims(d))
  BY <1>4, ClaimsFinite, FS_Injection DEF ClaimsCounted
<1> QED BY <1>2, <1>5

LEMMA DurableWithinAfter == TypeInv' => DurablyClaimed'
BY DurableWithin, PTL

-------------------------------------------------------------------------------
(* The invariant                                                                *)

SavingPcs  == {"save_refcount", "index_get", "index_put"}
CollectPcs == {"gc_blob", "gc_refcount", "gc_index_get", "gc_index_put"}

\* What a call has written so far of the file it changes.
FileSaved(t) ==
  LET c == call[t] IN
  /\ c.pc = "save_manifest" => manifest[c.file] = c.new
  /\ c.pc \in {"man_index_get", "man_index_put"} =>
       manifest[c.file] = c.new /\ mrec[c.file] = c.new
  /\ c.pc = "remove_manifest" => manifest[c.file] = None
  /\ c.pc \in {"rm_index_get", "rm_index_put"} =>
       manifest[c.file] = None /\ mrec[c.file] = None
  /\ c.pc \in {"man_index_put", "rm_index_put"} => c.seen = midx

\* What it has written of the count it changes.
CountSaved(t) ==
  LET c == call[t] IN
  /\ c.pc \in SavingPcs => c.count = rc[c.cur]
  /\ c.pc \in {"index_get", "index_put"} => rrec[c.cur] = c.count
  /\ c.pc \in CollectPcs => rc[c.cur] = 0
  /\ c.pc \in {"gc_index_get", "gc_index_put"} => rrec[c.cur] = 0
  /\ c.pc \in {"index_put", "gc_index_put"} => c.seen = ridx

\* The chunks an ingest has counted so far have their counts on the backend: it
\* does not enter a file there before all of the counts that it adds to.
ChunksSaved(t) ==
  LET c == call[t] IN
  /\ c.pc = "increment" => Chunk(t) \in blobs
  /\ c.pc \in {"save_manifest", "man_index_get", "man_index_put"} => c.done = Len(c.new)
  /\ c.pc \in StorePcs \cup CommitPcs /\ c.released = 0 =>
       \A i \in 1 .. c.done : \/ LoadedCount(c.new[i]) = rc[c.new[i]]
                              \/ c.pc \in SavingPcs /\ c.new[i] = c.cur

\* A repair deletes only what nobody counts.
SweepsUncounted(t) ==
  LET c == call[t] IN
  /\ c.pc = "fsck_list" => \A d \in Digests : rc[d] > 0 => d \in c.seen
  /\ c.pc = "fsck_unlink" => \A d \in c.seen : d \in Digests /\ rc[d] = 0

Local(t) == FileSaved(t) /\ CountSaved(t) /\ ChunksSaved(t) /\ SweepsUncounted(t)

ClaimsCovered == \A d \in Digests : Cardinality(Claims(d)) <= rc[d]
ClaimsStored  == \A d \in Digests : Claims(d) # {} => d \in blobs

\* A process that has died keeps nothing.
Down == ~up => /\ \A t \in Threads : call[t] = Idle
               /\ manifest = [f \in Files |-> None]

DurableInv ==
  /\ WritersInv
  /\ Down
  /\ up => /\ \A t \in Threads : Local(t)
           /\ ClaimsCovered /\ ClaimsStored
  /\ DurableRefcountCovers
  /\ DurableFilesIntact

LEMMA ClaimedIntact == TypeInv /\ DurablyClaimed /\ ClaimsStored => DurableFilesIntact
<1> SUFFICES ASSUME TypeInv, DurablyClaimed, ClaimsStored, NEW f \in Files,
                    NEW d \in Needed(LoadedFile(f))
             PROVE  d \in blobs
  BY DEF DurableFilesIntact
<1> DEFINE c == LoadedFile(f)
<1>1. c # None /\ c \in Contents
  BY DEF Needed, LoadedFile, TypeInv, TypeOK
<1>2. c \in Seq(Digests) /\ Len(c) <= MaxChunks
  BY <1>1, StoreAssumption
<1> HIDE DEF c
<1>3. PICK i \in DOMAIN c : c[i] = d
  BY <1>1 DEF Needed, ChunksOf, c
<1>4. i \in Positions /\ i <= Len(c) /\ d \in Digests
  BY <1>2, <1>3, StoreAssumption DEF Positions
<1>5. <<f, i>> \in DurableRefs(d)
  BY <1>1, <1>3, <1>4 DEF DurableRefs, c
<1> QED BY <1>4, <1>5 DEF DurablyClaimed, ClaimsStored

-------------------------------------------------------------------------------
(* What a step of a running store must show for the invariant to be kept: that  *)
(* it loses no claim that is not counted down, that it counts only chunks whose *)
(* blobs are there, and so on. Most actions satisfy most of this trivially.     *)

KeepsClaims == \A d \in Digests :
  Cardinality(Claims(d)') + rc[d] <= Cardinality(Claims(d)) + rc'[d]
CountsStored   == \A d \in Digests : rc'[d] > rc[d] => d \in blobs'
DropsUncounted == \A d \in blobs : d \notin blobs' => rc'[d] = 0
KeepsDurable   == \A d \in Digests :
  \/ LoadedCount(d)' = rc'[d]
  \/ LoadedCount(d)' = LoadedCount(d) /\ DurableRefs(d)' \subseteq DurableRefs(d)

LEMMA SoundStep ==
  ASSUME DurableInv, up, TypeInv, TypeInv', KeepsClaims, CountsStored, DropsUncounted,
         KeepsDurable
  PROVE  ClaimsCovered' /\ ClaimsStored' /\ DurableRefcountCovers' /\ DurableFilesIntact'
<1>1. ClaimsCounted /\ ClaimsCounted' /\ DurablyClaimed' /\ DurablyClaimed
  BY ClaimsFinite, ClaimsFiniteAfter, DurableWithin, DurableWithinAfter
<1>2. rc \in [Digests -> Nat] /\ rc' \in [Digests -> Nat]
  BY DEF TypeInv, TypeOK
<1>3. ClaimsCovered'
  <2>1. ASSUME NEW d \in Digests PROVE Cardinality(Claims(d)') <= rc'[d]
    <3>1. Cardinality(Claims(d)) <= rc[d]
      BY DEF DurableInv, ClaimsCovered
    <3>2. /\ Cardinality(Claims(d)) \in Nat /\ Cardinality(Claims(d)') \in Nat
          /\ rc[d] \in Nat /\ rc'[d] \in Nat
      BY <1>1, <1>2 DEF ClaimsCounted
    <3> QED BY <3>1, <3>2 DEF KeepsClaims
  <2> QED BY <2>1 DEF ClaimsCovered
<1>4. ClaimsStored'
  <2>1. ASSUME NEW d \in Digests, Claims(d)' # {}, d \notin blobs' PROVE FALSE
    <3>1. /\ Cardinality(Claims(d)) \in Nat /\ Cardinality(Claims(d)') \in Nat
          /\ rc[d] \in Nat /\ rc'[d] \in Nat
          /\ IsFiniteSet(Claims(d)) /\ IsFiniteSet(Claims(d)')
      BY <1>1, <1>2 DEF ClaimsCounted
    <3>2. Cardinality(Claims(d)') # 0
      BY <2>1, <3>1, FS_EmptySet
    <3>3. rc'[d] # 0 /\ rc'[d] <= rc[d]
      BY <1>3, <2>1, <3>1, <3>2 DEF ClaimsCovered, CountsStored
    <3>4. d \notin blobs
      BY <2>1, <3>3 DEF DropsUncounted
    <3>5. Cardinality(Claims(d)) = 0
      <4>1. Claims(d) = {}
        BY <3>4 DEF DurableInv, ClaimsStored
      <4> QED BY <4>1, FS_EmptySet
    <3> QED BY <3>1, <3>2, <3>3, <3>5 DEF KeepsClaims
  <2> QED BY <2>1 DEF ClaimsStored
<1>5. DurableRefcountCovers'
  <2>1. ASSUME NEW d \in Digests PROVE Cardinality(DurableRefs(d)') <= LoadedCount(d)'
    <3>1. /\ Cardinality(Claims(d)') \in Nat /\ rc'[d] \in Nat /\ IsFiniteSet(Claims(d)')
          /\ Cardinality(DurableRefs(d)') <= Cardinality(Claims(d)')
          /\ Cardinality(Claims(d)') <= rc'[d]
      BY <1>1, <1>2, <1>3 DEF ClaimsCounted, DurablyClaimed, ClaimsCovered
    <3>2. IsFiniteSet(DurableRefs(d)) /\ IsFiniteSet(DurableRefs(d)')
      <4>1. IsFiniteSet(Positions)
        BY StoreAssumption, FS_Interval DEF Positions
      <4>2. IsFiniteSet(Files \X Positions)
        BY <4>1, StoreAssumption, FS_Product
      <4> QED BY <4>2, FS_Subset DEF DurableRefs
    <3>3. Cardinality(DurableRefs(d)) \in Nat /\ Cardinality(DurableRefs(d)') \in Nat
      BY <3>2, FS_CardinalityType
    <3>4. CASE LoadedCount(d)' = rc'[d]
      BY <3>1, <3>3, <3>4
    <3>5. CASE LoadedCount(d)' = LoadedCount(d) /\ DurableRefs(d)' \subseteq DurableRefs(d)
      <4>1. Cardinality(DurableRefs(d)') <= Cardinality(DurableRefs(d))
        BY <3>2, <3>5, FS_Subset
      <4>2. Cardinality(DurableRefs(d)) <= LoadedCount(d)
        BY DEF DurableInv, DurableRefcountCovers
      <4>3. LoadedCount(d) \in Nat
        BY DEF LoadedCount, TypeInv, TypeOK
      <4> QED BY <3>3, <3>5, <4>1, <4>2, <4>3
    <3> QED BY <3>4, <3>5 DEF KeepsDurable
  <2> QED BY <2>1 DEF DurableRefcountCovers
<1>6. DurableFilesIntact'
  BY <1>1, <1>4, ClaimedIntact, PTL
<1> QED BY <1>1, <1>3, <1>4, <1>5, <1>6

\* What the backend has of f is what memory has, is nothing, is what the caller
\* is about to change, or was out of date before.
Follows(f) ==
  \/ LoadedFile(f)' \in {None, <<>>, manifest'[f]}
  \/ InTransit(f)'
  \/ LoadedFile(f)' = LoadedFile(f) /\ LoadedFile(f) # manifest[f] /\ ~InTransit(f)

LEMMA ClaimsFollow ==
  ASSUME TypeInv, TypeInv', \A d \in Digests : NoLoss(d), \A f \in Files : Follows(f)
  PROVE  KeepsClaims
<1> SUFFICES ASSUME NEW d \in Digests
             PROVE  Cardinality(Claims(d)') + rc[d] <= Cardinality(Claims(d)) + rc'[d]
  BY DEF KeepsClaims
<1>1. ASSUME NEW r \in DiskRefs(d)' PROVE r \in DiskRefs(d)
  <2>1. r \in ({"disk"} \X Files) \X Positions /\ r[1][2] \in Files /\ r[2] > 0 /\ Len(<<>>) = 0
    BY DEF DiskRefs, Positions
  <2>2. PICK f \in Files : f = r[1][2]
    BY <2>1
  <2>3. /\ LoadedFile(f)' # None /\ LoadedFile(f)' # manifest'[f] /\ ~InTransit(f)'
        /\ r[2] <= Len(LoadedFile(f)') /\ LoadedFile(f)'[r[2]] = d
    BY <2>2 DEF DiskRefs
  <2>4. LoadedFile(f)' # <<>>
    <3>1. r[2] \in Nat
      BY <2>1 DEF Positions
    <3> QED BY <2>1, <2>3, <3>1
  <2>5. LoadedFile(f)' = LoadedFile(f) /\ LoadedFile(f) # manifest[f] /\ ~InTransit(f)
    BY <2>3, <2>4 DEF Follows
  <2> QED BY <2>1, <2>2, <2>3, <2>5 DEF DiskRefs
<1>2. ClaimsCounted /\ ClaimsCounted'
  BY ClaimsFinite, ClaimsFiniteAfter
<1>3. /\ IsFiniteSet(DiskRefs(d))
      /\ Cardinality(Refs(d)) \in Nat /\ Cardinality(DiskRefs(d)) \in Nat
      /\ Cardinality(Refs(d)') \in Nat /\ Cardinality(DiskRefs(d)') \in Nat
      /\ Cardinality(Claims(d)) = Cardinality(Refs(d)) + Cardinality(DiskRefs(d))
      /\ Cardinality(Claims(d)') = Cardinality(Refs(d)') + Cardinality(DiskRefs(d)')
      /\ rc[d] \in Nat /\ rc'[d] \in Nat
  BY <1>2 DEF ClaimsCounted, TypeInv, TypeOK
<1>4. Cardinality(DiskRefs(d)') <= Cardinality(DiskRefs(d))
  BY <1>1, <1>3, FS_Subset
<1> QED BY <1>3, <1>4 DEF NoLoss

Sound(t) == /\ \A f \in Files : Follows(f)
            /\ CountsStored /\ DropsUncounted /\ KeepsDurable
            /\ Local(t)'

\* A step that writes no file leaves the files' claims as they are.
LEMMA FilesRest ==
  ASSUME OneCaller, NEW t \in Threads, call[t].pc \notin {"save_manifest", "remove_manifest"},
         mrec' = mrec, midx' = midx, manifest' = manifest
  PROVE  /\ \A f \in Files : Follows(f)
         /\ \A d : DurableRefs(d)' = DurableRefs(d)
<1>1. ASSUME NEW f \in Files PROVE LoadedFile(f)' = LoadedFile(f) /\ ~InTransit(f)
  BY DEF LoadedFile, InTransit, OneCaller
<1>2. ASSUME NEW d PROVE DurableRefs(d)' = DurableRefs(d)
  BY <1>1 DEF DurableRefs
<1> QED BY <1>1, <1>2 DEF Follows

LEMMA BackendRests ==
  ASSUME OneCaller, TypeInv, NEW t \in Threads,
         call[t].pc \notin {"save_manifest", "remove_manifest"},
         backend' = backend, manifest' = manifest, rc' = rc, Local(t)'
  PROVE  Sound(t)
<1>1. UNCHANGED <<blobs, mrec, midx, rrec, ridx>>
  BY DEF backend
<1>2. CountsStored /\ DropsUncounted
  BY <1>1 DEF CountsStored, DropsUncounted, TypeInv, TypeOK
<1>3. KeepsDurable
  BY <1>1, FilesRest DEF KeepsDurable, LoadedCount
<1> QED BY <1>1, <1>2, <1>3, FilesRest DEF Sound

-------------------------------------------------------------------------------
(* Where a call goes, and with what.                                            *)

LEMMA FreeLocal ==
  ASSUME NEW t \in Threads,
         call'[t].pc \in {"idle", "size", "decrement", "remove", "lookup", "fetch", "fsck_live"}
  PROVE  Local(t)'
BY DEF Local, FileSaved, CountSaved, ChunksSaved, SweepsUncounted, SavingPcs, CollectPcs

\* A call keeps everything but the step it is at and the index it has read.
Keeps(t) == /\ call'[t].op = call[t].op /\ call'[t].file = call[t].file
            /\ call'[t].new = call[t].new /\ call'[t].done = call[t].done
            /\ call'[t].old = call[t].old /\ call'[t].released = call[t].released
            /\ call'[t].cur = call[t].cur /\ call'[t].count = call[t].count

LEMMA GotoKeeps ==
  ASSUME TypeInv, NEW t \in Threads, NEW label, Goto(t, label)
  PROVE  Keeps(t) /\ call'[t].pc = label /\ call'[t].seen = call[t].seen
<1>1. call'[t] = [call[t] EXCEPT !.pc = label] /\ call[t] \in Records
  BY GoesOn DEF Goto, TypeInv, TypeOK
<1> QED BY <1>1 DEF Records, Keeps

LEMMA SeenKeeps ==
  ASSUME TypeInv, NEW t \in Threads, NEW label, NEW s,
         Become(t, [call[t] EXCEPT !.pc = label, !.seen = s])
  PROVE  Keeps(t) /\ call'[t].pc = label /\ call'[t].seen = s
<1>1. call'[t] = [call[t] EXCEPT !.pc = label, !.seen = s] /\ call[t] \in Records
  BY GoesOn DEF TypeInv, TypeOK
<1> QED BY <1>1 DEF Records, Keeps

LEMMA ReturnIdle ==
  ASSUME TypeInv, NEW t \in Threads, NEW res, Return(t, res)
  PROVE  call'[t].pc = "idle"
<1> DEFINE r == Returned(t, res)
<1>1. r.pc = "idle"
  BY DEF Returned, Idle
<1>2. call'[t] = r
  BY GoesOn DEF Return
<1> QED BY <1>1, <1>2

LEMMA ReleaseRestFree ==
  ASSUME TypeInv, NEW t \in Threads, ReleaseRest(t)
  PROVE  Local(t)'
BY GoesTo, ReturnIdle, FreeLocal DEF ReleaseRest

\* The counts of the chunks counted so far stay as they were saved.
SavedSoFar(t) == LET c == call[t] IN
  \A i \in 1 .. c.done : LoadedCount(c.new[i]) = rc[c.new[i]]

LEMMA ChunksStaySaved ==
  ASSUME TypeInv, NEW t \in Threads, Local(t), Keeps(t),
         call[t].pc \in (StorePcs \cup CommitPcs) \ SavingPcs,
         \A d \in Digests : LoadedCount(d)' = LoadedCount(d), rc' = rc
  PROVE  SavedSoFar(t)'
<1> DEFINE c == call[t]
<1>1. c \in Records /\ WellFormed(c)
  BY DEF TypeInv, TypeOK
<1>2. c.new \in Contents /\ c.done \in Nat /\ c.done <= Len(c.new) /\ c.released = 0
  BY <1>1 DEF WellFormed, Records, SavingPcs
<1>3. \A i \in 1 .. c.done : c.new[i] \in Digests /\ LoadedCount(c.new[i]) = rc[c.new[i]]
  <2>1. c.new \in Seq(Digests)
    BY <1>2, StoreAssumption
  <2>2. \A i \in 1 .. c.done : i \in 1 .. Len(c.new)
    BY <1>2
  <2> QED BY <1>2, <2>1, <2>2 DEF Local, ChunksSaved
<1> QED BY <1>3 DEF Keeps, SavedSoFar, LoadedCount

-------------------------------------------------------------------------------
(* Each step is sound                                                           *)

LEMMA StoreSound ==
  ASSUME OneCaller, TypeInv, NEW t \in Threads, Local(t),
         StoreExists(t) \/ StorePut(t) \/ Increment(t)
  PROVE  Sound(t)
<1> DEFINE c == call[t]
<1>1. /\ c \in Records /\ WellFormed(c) /\ Chunk(t) \in Digests
      /\ rc \in [Digests -> Nat] /\ blobs \subseteq Digests
  BY ChunkType DEF TypeInv, TypeOK, StoreExists, StorePut, Increment
<1>2. /\ c.released = 0 /\ c.done \in Nat
      /\ c.pc \in {"exists", "put", "increment"}
  BY <1>1 DEF WellFormed, Records, StoreExists, StorePut, Increment
<1>3. UNCHANGED <<mrec, midx, rrec, ridx, manifest>>
  BY DEF StoreExists, StorePut, Increment, backend, memory
<1>4. /\ \A f \in Files : Follows(f)
      /\ \A d \in Digests : LoadedCount(d)' = LoadedCount(d) /\ DurableRefs(d)' = DurableRefs(d)
  BY <1>2, <1>3, FilesRest DEF LoadedCount
<1>5. CASE StoreExists(t)
  <2>1. PICK p \in {"increment", "put"}, x \in BOOLEAN :
               /\ Become(t, [c EXCEPT !.pc = p, !.existed = x])
               /\ p = "increment" => Chunk(t) \in blobs
    BY <1>5 DEF StoreExists
  <2>2. call'[t] = [c EXCEPT !.pc = p, !.existed = x]
    BY <2>1, GoesOn
  <2>3. call'[t].pc = p /\ Keeps(t)
    BY <1>1, <2>2 DEF Keeps, Records
  <2>4. blobs' = blobs /\ rc' = rc
    BY <1>5 DEF StoreExists, backend, memory
  <2>5. SavedSoFar(t)'
    BY <1>2, <1>4, <2>3, <2>4, ChunksStaySaved DEF SavingPcs
  <2>6. Local(t)'
    BY <2>1, <2>3, <2>4, <2>5 DEF Local, FileSaved, CountSaved, ChunksSaved, SweepsUncounted,
       SavingPcs, CollectPcs, Chunk, Keeps, SavedSoFar
  <2> QED BY <1>2, <1>3, <2>4, <2>6, BackendRests DEF backend
<1>6. CASE StorePut(t)
  <2>1. /\ Keeps(t) /\ call'[t].pc = "increment"
        /\ blobs' = blobs \cup {Chunk(t)} /\ rc' = rc
    BY <1>6, GotoKeeps DEF StorePut, memory
  <2>2. SavedSoFar(t)'
    BY <1>2, <1>4, <2>1, ChunksStaySaved DEF SavingPcs
  <2>3. Local(t)'
    BY <2>1, <2>2 DEF Local, FileSaved, CountSaved, ChunksSaved, SweepsUncounted,
       SavingPcs, CollectPcs, Chunk, Keeps, SavedSoFar
  <2>4. CountsStored /\ DropsUncounted /\ KeepsDurable
    BY <1>1, <1>4, <2>1 DEF CountsStored, DropsUncounted, KeepsDurable
  <2> QED BY <1>4, <2>3, <2>4 DEF Sound
<1>7. CASE Increment(t)
  <2> DEFINE D == Chunk(t)
             r == [c EXCEPT !.pc = "save_refcount", !.done = @ + 1,
                            !.cur = D, !.count = Incremented(D)]
  <2>1. c.pc = "increment" /\ blobs' = blobs /\ rc' = [rc EXCEPT ![D] = @ + 1]
    BY <1>7 DEF Increment, backend
  <2>2. call'[t] = r
    BY <1>7, GoesOn DEF Increment
  <2>3. /\ call'[t].pc = "save_refcount" /\ call'[t].done = c.done + 1
        /\ call'[t].new = c.new /\ call'[t].cur = D /\ call'[t].count = rc[D] + 1
    BY <1>1, <2>2 DEF Records, Incremented
  <2> HIDE DEF r
  <2>4. D \in blobs
    BY <2>1 DEF Local, ChunksSaved
  <2>5. CountsStored
    BY <1>1, <2>1, <2>4 DEF CountsStored
  <2>6. DropsUncounted /\ KeepsDurable
    BY <1>4, <2>1 DEF DropsUncounted, KeepsDurable
  <2>7. ASSUME NEW i \in 1 .. c.done + 1, c.new[i] # D
        PROVE  LoadedCount(c.new[i]) = rc'[c.new[i]]
    <3>1. i # c.done + 1
      BY <2>7 DEF Chunk
    <3>2. i \in 1 .. c.done
      BY <1>2, <3>1
    <3>3. LoadedCount(c.new[i]) = rc[c.new[i]]
      BY <1>2, <2>1, <3>2 DEF Local, ChunksSaved, SavingPcs
    <3>4. c.new[i] \in Digests
      <4>1. c.new \in Contents /\ c.done < Len(c.new)
        BY <1>1, <2>1 DEF WellFormed
      <4>2. c.new \in Seq(Digests)
        BY <4>1, StoreAssumption
      <4>3. i \in 1 .. Len(c.new)
        BY <1>2, <3>2, <4>1, <4>2
      <4> QED BY <4>2, <4>3
    <3> QED BY <1>1, <2>1, <2>7, <3>3, <3>4
  <2>8. ChunksSaved(t)'
    BY <1>3, <2>3, <2>7 DEF ChunksSaved, SavingPcs, LoadedCount
  <2>9. rc'[D] = rc[D] + 1
    BY <1>1, <2>1
  <2> HIDE DEF D
  <2>10. FileSaved(t)' /\ SweepsUncounted(t)'
    BY <2>3 DEF FileSaved, SweepsUncounted
  <2>11. CountSaved(t)'
    BY <2>3, <2>9 DEF CountSaved, SavingPcs, CollectPcs
  <2> QED BY <1>4, <2>5, <2>6, <2>8, <2>10, <2>11 DEF Sound, Local
<1> QED BY <1>5, <1>6, <1>7

\* Where save_refcount ends, the count of cur is on the backend.
LEMMA RefcountSavedSound ==
  ASSUME TypeInv, NEW t \in Threads, Local(t), call[t].pc \in {"index_get", "index_put"},
         RefcountSaved(t), rc' = rc, UNCHANGED <<rrec, blobs, manifest, mrec, midx>>,
         ridx' = ridx \cup {call[t].cur}
  PROVE  Local(t)'
<1> DEFINE c == call[t]
<1>1. c \in Records /\ WellFormed(c) /\ rc \in [Digests -> Nat]
  BY DEF TypeInv, TypeOK
<1>2. CASE Releasing(t)
  BY <1>2, ReleaseRestFree DEF RefcountSaved
<1>3. CASE ~Releasing(t)
  <2>1. Keeps(t) /\ call'[t].pc \in {"exists", "peek"}
    BY <1>3, GotoKeeps DEF RefcountSaved
  <2>2. /\ c.released = 0 /\ c.op = "ingest" /\ c.new \in Contents /\ c.done <= Len(c.new)
        /\ c.done \in Nat /\ c.cur \in Digests
    BY <1>1, <1>3 DEF WellFormed, Records, Releasing
  <2>3. rrec[c.cur] = rc[c.cur]
    BY DEF Local, CountSaved, SavingPcs
  <2>4. ASSUME NEW i \in 1 .. c.done
        PROVE  (IF c.new[i] \in ridx' THEN rrec[c.new[i]] ELSE 0) = rc[c.new[i]]
    <3>1. LoadedCount(c.new[i]) = rc[c.new[i]] \/ c.new[i] = c.cur
      BY <2>2 DEF Local, ChunksSaved
    <3> QED BY <2>3, <3>1 DEF LoadedCount
  <2>5. SavedSoFar(t)'
    BY <2>1, <2>4 DEF SavedSoFar, LoadedCount, Keeps
  <2> QED BY <2>1, <2>5 DEF Local, FileSaved, CountSaved, ChunksSaved, SweepsUncounted,
       SavingPcs, CollectPcs, SavedSoFar
<1> QED BY <1>2, <1>3

LEMMA SaveSound ==
  ASSUME OneCaller, TypeInv, NEW t \in Threads, Local(t),
         SaveRefcount(t) \/ RefIndexGet(t) \/ RefIndexPut(t)
  PROVE  Sound(t)
<1> DEFINE c == call[t]
<1>1. /\ c \in Records /\ WellFormed(c)
      /\ rc \in [Digests -> Nat] /\ blobs \subseteq Digests /\ rrec \in [Digests -> Nat]
  BY DEF TypeInv, TypeOK
<1>2. /\ c.cur \in Digests /\ c.count = rc[c.cur] /\ c.pc \in SavingPcs
      /\ c.released = 0 => c.op = "ingest" /\ c.new \in Contents /\ c.done <= Len(c.new)
      /\ c.done \in Nat
  BY <1>1 DEF WellFormed, Records, Local, CountSaved, SavingPcs, SaveRefcount, RefIndexGet,
     RefIndexPut
<1>3. UNCHANGED <<blobs, mrec, midx, manifest, rc>>
  BY DEF SaveRefcount, RefIndexGet, RefIndexPut, backend, memory
<1>4. /\ \A f \in Files : Follows(f)
      /\ \A d \in Digests : DurableRefs(d)' = DurableRefs(d)
  BY <1>2, <1>3, FilesRest DEF SavingPcs
<1>5. CountsStored /\ DropsUncounted
  BY <1>1, <1>3 DEF CountsStored, DropsUncounted
<1>6. CASE SaveRefcount(t)
  <2>1. /\ Keeps(t) /\ call'[t].pc = "index_get"
        /\ rrec' = [rrec EXCEPT ![c.cur] = c.count] /\ ridx' = ridx
    BY <1>6, GotoKeeps DEF SaveRefcount
  <2>2. \A d \in Digests : d # c.cur => LoadedCount(d)' = LoadedCount(d)
    BY <1>1, <2>1 DEF LoadedCount
  <2>3. rrec'[c.cur] = rc[c.cur]
    BY <1>1, <1>2, <2>1
  <2>4. KeepsDurable
    BY <1>3, <1>4, <2>1, <2>2, <2>3 DEF KeepsDurable, LoadedCount
  <2>5. ASSUME NEW i \in 1 .. c.done, c.released = 0, c.new[i] # c.cur
        PROVE  LoadedCount(c.new[i])' = rc[c.new[i]]
    <3>1. LoadedCount(c.new[i]) = rc[c.new[i]]
      BY <1>2, <2>5 DEF Local, ChunksSaved, SavingPcs
    <3>2. c.new[i] \in Digests
      <4>1. c.new \in Seq(Digests) /\ i \in 1 .. Len(c.new)
        BY <1>2, <2>5, StoreAssumption
      <4> QED BY <4>1
    <3> QED BY <2>1, <2>2, <2>5, <3>1, <3>2 DEF Keeps
  <2>6. ChunksSaved(t)'
    BY <1>3, <2>1, <2>5 DEF ChunksSaved, SavingPcs, LoadedCount, Keeps
  <2>7. FileSaved(t)' /\ SweepsUncounted(t)'
    BY <2>1 DEF FileSaved, SweepsUncounted
  <2>8. CountSaved(t)'
    BY <1>2, <1>3, <2>1, <2>3 DEF CountSaved, SavingPcs, CollectPcs, Keeps
  <2> QED BY <1>4, <1>5, <2>4, <2>6, <2>7, <2>8 DEF Sound, Local
<1>7. CASE RefIndexGet(t)
  <2>1. c.pc = "index_get" /\ rrec' = rrec /\ ridx' = ridx
    BY <1>7 DEF RefIndexGet, backend
  <2>2. CASE c.cur \in ridx
    <3>1. ridx' = ridx \cup {c.cur}
      BY <2>1, <2>2
    <3>2. Local(t)'
      BY <1>3, <1>7, <2>1, <2>2, <3>1, RefcountSavedSound DEF RefIndexGet
    <3> QED BY <1>3, <2>1, <3>2, BackendRests DEF backend
  <2>3. CASE c.cur \notin ridx
    <3>1. Keeps(t) /\ call'[t].pc = "index_put" /\ call'[t].seen = ridx
      BY <1>7, <2>3, SeenKeeps DEF RefIndexGet
    <3>2. CountSaved(t)'
      BY <1>3, <2>1, <3>1 DEF Local, CountSaved, Keeps, SavingPcs, CollectPcs
    <3>3. ChunksSaved(t)'
      BY <1>2, <1>3, <2>1, <3>1 DEF Local, ChunksSaved, Keeps, SavingPcs, LoadedCount
    <3>4. FileSaved(t)' /\ SweepsUncounted(t)'
      BY <3>1 DEF FileSaved, SweepsUncounted
    <3>5. Local(t)'
      BY <3>2, <3>3, <3>4 DEF Local
    <3> QED BY <1>3, <2>1, <3>5, BackendRests DEF backend
  <2> QED BY <2>2, <2>3
<1>8. CASE RefIndexPut(t)
  <2>1. c.pc = "index_put" /\ rrec' = rrec /\ ridx' = ridx \cup {c.cur}
    BY <1>8 DEF RefIndexPut, IndexWith, Local, CountSaved
  <2>2. Local(t)'
    BY <1>3, <1>8, <2>1, RefcountSavedSound DEF RefIndexPut
  <2>3. rrec[c.cur] = rc[c.cur]
    BY <1>2, <2>1 DEF Local, CountSaved
  <2>4. KeepsDurable
    BY <1>3, <1>4, <2>1, <2>3 DEF KeepsDurable, LoadedCount
  <2> QED BY <1>4, <1>5, <2>2, <2>4 DEF Sound
<1> QED BY <1>6, <1>7, <1>8

\* A call that writes its file to the backend leaves there what memory has of it.
LEMMA OneFile ==
  ASSUME OneCaller, NEW t \in Threads, NEW f \in Files, call[t].file = f,
         \A g \in Files \ {f} : LoadedFile(g)' = LoadedFile(g) /\ manifest'[g] = manifest[g],
         LoadedFile(f)' \in {None, manifest'[f]}
  PROVE  /\ \A g \in Files : Follows(g)
         /\ \A d : \/ \E i \in Positions : /\ LoadedFile(f)' # None
                                           /\ i <= Len(LoadedFile(f)') /\ LoadedFile(f)'[i] = d
                   \/ DurableRefs(d)' \subseteq DurableRefs(d)
<1>1. ASSUME NEW g \in Files PROVE Follows(g)
  <2>1. CASE g = f
    BY <2>1 DEF Follows
  <2>2. CASE g # f
    <3>1. ~InTransit(g)
      BY <2>2 DEF InTransit, OneCaller
    <3> QED BY <2>2, <3>1 DEF Follows
  <2> QED BY <2>1, <2>2
<1>2. ASSUME NEW d, NEW r \in DurableRefs(d)', r \notin DurableRefs(d)
      PROVE  \E i \in Positions : /\ LoadedFile(f)' # None
                                  /\ i <= Len(LoadedFile(f)') /\ LoadedFile(f)'[i] = d
  <2>1. /\ r \in Files \X Positions /\ LoadedFile(r[1])' # None
        /\ r[2] <= Len(LoadedFile(r[1])') /\ LoadedFile(r[1])'[r[2]] = d
    BY <1>2 DEF DurableRefs
  <2>2. r[1] = f
    BY <1>2, <2>1 DEF DurableRefs
  <2> QED BY <2>1, <2>2
<1> QED BY <1>1, <1>2

\* An ingest that enters its file on the backend has all of its counts there.
LEMMA EnteredSaved ==
  ASSUME TypeInv, NEW t \in Threads, Local(t), call[t].pc \in {"save_manifest", "man_index_put"},
         NEW i \in Positions, i <= Len(call[t].new)
  PROVE  LoadedCount(call[t].new[i]) = rc[call[t].new[i]]
<1> DEFINE c == call[t]
<1>1. c \in Records /\ WellFormed(c)
  BY DEF TypeInv, TypeOK
<1>2. c.released = 0 /\ c.done = Len(c.new) /\ c.done \in Nat
  BY <1>1 DEF WellFormed, Records, Local, ChunksSaved
<1>3. i \in 1 .. c.done
  BY <1>2 DEF Positions
<1> QED BY <1>2, <1>3 DEF Local, ChunksSaved, SavingPcs

LEMMA EntersFile ==
  ASSUME OneCaller, TypeInv, NEW t \in Threads, Local(t),
         call[t].pc \in {"save_manifest", "man_index_put"},
         NEW f \in Files, call[t].file = f, NEW new, call[t].new = new, manifest[f] = new,
         \A g \in Files \ {f} : LoadedFile(g)' = LoadedFile(g), manifest' = manifest,
         LoadedFile(f)' \in {None, new},
         \A d \in Digests : LoadedCount(d)' = LoadedCount(d), rc' = rc
  PROVE  KeepsDurable /\ \A g \in Files : Follows(g)
<1>1. ASSUME NEW d \in Digests, NEW i \in Positions, LoadedFile(f)' # None,
             i <= Len(LoadedFile(f)'), LoadedFile(f)'[i] = d
      PROVE  LoadedCount(d)' = rc'[d]
  BY <1>1, EnteredSaved
<1>2. /\ \A g \in Files : Follows(g)
      /\ \A d : \/ \E i \in Positions : /\ LoadedFile(f)' # None
                                        /\ i <= Len(LoadedFile(f)') /\ LoadedFile(f)'[i] = d
                \/ DurableRefs(d)' \subseteq DurableRefs(d)
  BY OneFile
<1> QED BY <1>1, <1>2 DEF KeepsDurable

LEMMA CommitSound ==
  ASSUME OneCaller, WritersInv, NEW t \in Threads, Local(t),
         Peek(t) \/ Insert(t) \/ SaveManifest(t) \/ ManIndexGet(t) \/ ManIndexPut(t)
  PROVE  Sound(t)
<1> DEFINE c == call[t]
           f == call[t].file
<1>1. /\ TypeInv /\ c \in Records /\ WellFormed(c)
      /\ rc \in [Digests -> Nat] /\ manifest \in [Files -> Contents \cup {None}]
      /\ mrec \in [Files -> Contents \cup {None}] /\ call \in [Threads -> Records]
  BY DEF WritersInv, TypeInv, TypeOK
<1>2. /\ c.pc \in CommitPcs /\ c.op = "ingest" /\ c.released = 0
      /\ f \in Files /\ c.new \in Contents
  BY <1>1 DEF WellFormed, Peek, Insert, SaveManifest, ManIndexGet, ManIndexPut
<1>3. UNCHANGED <<blobs, rrec, ridx, rc>>
  BY DEF Peek, Insert, SaveManifest, ManIndexGet, ManIndexPut, backend, memory
<1>4. CountsStored /\ DropsUncounted
  BY <1>1, <1>3 DEF CountsStored, DropsUncounted
<1>5. \A d \in Digests : LoadedCount(d)' = LoadedCount(d)
  BY <1>3 DEF LoadedCount
<1>6. Keeps(t) => SavedSoFar(t)'
  BY <1>1, <1>2, <1>3, <1>5, ChunksStaySaved DEF SavingPcs
<1>7. CASE Peek(t)
  <2> DEFINE o == IF manifest[f] = None THEN <<>> ELSE manifest[f]
             r == [c EXCEPT !.pc = "insert", !.old = o]
  <2>1. call'[t] = r /\ backend' = backend /\ manifest' = manifest /\ c.pc = "peek"
    BY <1>1, <1>7, GoesOn DEF Peek, memory
  <2> HIDE DEF o
  <2>2. /\ call'[t].pc = "insert" /\ call'[t].new = c.new /\ call'[t].done = c.done
        /\ call'[t].released = 0
    BY <1>1, <1>2, <2>1 DEF Records
  <2>3. \A i \in 1 .. c.done : LoadedCount(c.new[i]) = rc[c.new[i]]
    BY <1>2, <2>1 DEF Local, ChunksSaved, SavingPcs
  <2>4. Local(t)'
    BY <1>3, <2>2, <2>3 DEF Local, FileSaved, CountSaved, ChunksSaved, SweepsUncounted,
       SavingPcs, CollectPcs, LoadedCount
  <2> QED BY <1>1, <1>3, <2>1, <2>4, BackendRests
<1>8. CASE Insert(t)
  <2>1. c.pc = "insert" /\ mrec' = mrec /\ midx' = midx
    BY <1>8 DEF Insert, backend
  <2>2. CASE f \in EmptyIds
    <3>1. Return(t, "err") /\ manifest' = manifest /\ backend' = backend
      BY <1>8, <2>2 DEF Insert
    <3>2. Local(t)'
      BY <1>1, <3>1, ReturnIdle, FreeLocal
    <3> QED BY <1>1, <1>3, <2>1, <3>1, <3>2, BackendRests
  <2>3. CASE f \notin EmptyIds
    <3>1. /\ Keeps(t) /\ call'[t].pc = "save_manifest"
          /\ manifest' = [manifest EXCEPT ![f] = c.new]
      BY <1>1, <1>8, <2>3, GotoKeeps DEF Insert
    <3>2. c.done = Len(c.new)
      BY <1>1, <2>1 DEF WellFormed
    <3>3. Local(t)'
      BY <1>1, <1>2, <1>6, <3>1, <3>2 DEF Local, FileSaved, CountSaved, ChunksSaved,
         SweepsUncounted, SavingPcs, CollectPcs, Keeps, SavedSoFar
    <3>4. \A g \in Files : LoadedFile(g)' = LoadedFile(g) /\ ~InTransit(g)
      BY <2>1 DEF LoadedFile, InTransit, OneCaller
    <3>5. c.old = ContentOf(f)
      BY <2>1 DEF WritersInv, PeekedIsCurrent
    <3>6. ASSUME NEW g \in Files PROVE Follows(g)
      <4>1. CASE g # f
        BY <1>1, <3>1, <3>4, <4>1 DEF Follows
      <4>2. CASE g = f /\ LoadedFile(f) = manifest[f] /\ manifest[f] # None
        <5>1. call'[t].pc = "save_manifest" /\ call'[t].file = f /\ call'[t].old = LoadedFile(f)'
          BY <3>1, <3>4, <3>5, <4>2 DEF ContentOf, Keeps
        <5>2. InTransit(f)'
          BY <5>1, <3>1 DEF InTransit, Keeps
        <5> QED BY <4>2, <5>2, <3>1 DEF Follows, Keeps
      <4>3. CASE g = f /\ ~(LoadedFile(f) = manifest[f] /\ manifest[f] # None)
        BY <3>4, <4>3 DEF Follows
      <4> QED BY <4>1, <4>2, <4>3
    <3>7. KeepsDurable
      BY <1>5, <3>4 DEF KeepsDurable, DurableRefs
    <3> QED BY <1>4, <3>3, <3>6, <3>7 DEF Sound
  <2> QED BY <2>2, <2>3
<1>9. CASE SaveManifest(t)
  <2>1. /\ c.pc = "save_manifest" /\ mrec' = [mrec EXCEPT ![f] = c.new] /\ midx' = midx
        /\ manifest' = manifest /\ Keeps(t) /\ call'[t].pc = "man_index_get"
    BY <1>1, <1>9, GotoKeeps DEF SaveManifest, memory
  <2>2. manifest[f] = c.new /\ c.done = Len(c.new)
    BY <2>1 DEF Local, FileSaved, ChunksSaved
  <2>3. mrec'[f] = c.new
    BY <1>1, <1>2, <2>1
  <2>4. Local(t)'
    BY <1>2, <1>6, <2>1, <2>2, <2>3 DEF Local, FileSaved, CountSaved, ChunksSaved,
       SweepsUncounted, SavingPcs, CollectPcs, Keeps, SavedSoFar
  <2>5. PICK g \in Files : g = f
    BY <1>2
  <2>6. \A h \in Files \ {g} : LoadedFile(h)' = LoadedFile(h)
    BY <1>1, <2>1, <2>5 DEF LoadedFile
  <2>7. LoadedFile(g)' \in {None, c.new} /\ manifest[g] = c.new
    BY <2>1, <2>2, <2>3, <2>5 DEF LoadedFile
  <2>8. KeepsDurable /\ \A h \in Files : Follows(h)
    BY <1>1, <1>3, <1>5, <2>1, <2>5, <2>6, <2>7, EntersFile
  <2> QED BY <1>4, <2>4, <2>8 DEF Sound
<1>10. CASE ManIndexGet(t)
  <2>1. c.pc = "man_index_get" /\ backend' = backend /\ manifest' = manifest
    BY <1>10 DEF ManIndexGet, memory
  <2>2. CASE f \in midx
    <3>1. Local(t)'
      BY <1>1, <1>10, <2>2, ReleaseRestFree DEF ManIndexGet
    <3> QED BY <1>1, <1>3, <2>1, <3>1, BackendRests
  <2>3. CASE f \notin midx
    <3>1. Keeps(t) /\ call'[t].pc = "man_index_put" /\ call'[t].seen = midx
      BY <1>1, <1>10, <2>3, SeenKeeps DEF ManIndexGet
    <3>2. manifest[f] = c.new /\ mrec[f] = c.new /\ c.done = Len(c.new)
          /\ mrec' = mrec /\ midx' = midx
      BY <2>1 DEF Local, FileSaved, ChunksSaved, backend
    <3>3. Local(t)'
      BY <1>2, <1>6, <2>1, <3>1, <3>2 DEF Local, FileSaved, CountSaved, ChunksSaved,
         SweepsUncounted, SavingPcs, CollectPcs, Keeps, SavedSoFar
    <3> QED BY <1>1, <1>3, <2>1, <3>3, BackendRests
  <2> QED BY <2>2, <2>3
<1>11. CASE ManIndexPut(t)
  <2>1. /\ c.pc = "man_index_put" /\ midx' = midx \cup {f} /\ mrec' = mrec
        /\ manifest' = manifest /\ ReleaseRest(t)
    BY <1>11 DEF ManIndexPut, memory, IndexWith, Local, FileSaved
  <2>2. manifest[f] = c.new /\ mrec[f] = c.new
    BY <2>1 DEF Local, FileSaved
  <2>3. Local(t)'
    BY <1>1, <2>1, ReleaseRestFree
  <2>5. PICK g \in Files : g = f
    BY <1>2
  <2>6. \A h \in Files \ {g} : LoadedFile(h)' = LoadedFile(h)
    BY <2>1, <2>5 DEF LoadedFile
  <2>7. LoadedFile(g)' = c.new /\ manifest[g] = c.new
    BY <2>1, <2>2, <2>5 DEF LoadedFile
  <2>8. KeepsDurable /\ \A h \in Files : Follows(h)
    BY <1>1, <1>3, <1>5, <2>1, <2>5, <2>6, <2>7, EntersFile
  <2> QED BY <1>4, <2>3, <2>8 DEF Sound
<1> QED BY <1>7, <1>8, <1>9, <1>10, <1>11

\* A file that is taken off the backend takes its references along.
LEMMA LeavesFile ==
  ASSUME OneCaller, NEW t \in Threads, NEW f \in Files, call[t].file = f,
         \A g \in Files \ {f} : LoadedFile(g)' = LoadedFile(g), manifest' = manifest,
         LoadedFile(f)' = None, rrec' = rrec, ridx' = ridx
  PROVE  KeepsDurable /\ \A g \in Files : Follows(g)
<1>1. /\ \A g \in Files : Follows(g)
      /\ \A d : DurableRefs(d)' \subseteq DurableRefs(d)
  BY OneFile
<1> QED BY <1>1 DEF KeepsDurable, LoadedCount

LEMMA DeleteSound ==
  ASSUME OneCaller, TypeInv, NEW t \in Threads, Local(t),
         Remove(t) \/ RemoveManifest(t) \/ RmIndexGet(t) \/ RmIndexPut(t)
  PROVE  Sound(t)
<1> DEFINE c == call[t]
           f == call[t].file
<1>1. /\ TypeInv /\ c \in Records /\ WellFormed(c)
      /\ rc \in [Digests -> Nat] /\ manifest \in [Files -> Contents \cup {None}]
      /\ mrec \in [Files -> Contents \cup {None}]
  BY DEF TypeInv, TypeOK
<1>2. c.pc \in DeletePcs /\ f \in Files
  BY <1>1 DEF WellFormed, Remove, RemoveManifest, RmIndexGet, RmIndexPut
<1>3. UNCHANGED <<blobs, rrec, ridx, rc>>
  BY DEF Remove, RemoveManifest, RmIndexGet, RmIndexPut, backend, memory
<1>4. CountsStored /\ DropsUncounted
  BY <1>1, <1>3 DEF CountsStored, DropsUncounted
<1>5. CASE Remove(t)
  <2>1. c.pc = "remove" /\ mrec' = mrec /\ midx' = midx /\ backend' = backend
    BY <1>5 DEF Remove, backend
  <2>2. CASE manifest[f] = None
    <3>1. Return(t, "err") /\ manifest' = manifest
      BY <1>5, <2>2 DEF Remove
    <3>2. Local(t)'
      BY <1>1, <3>1, ReturnIdle, FreeLocal
    <3> QED BY <1>3, <2>1, <3>1, <3>2, BackendRests
  <2>3. CASE manifest[f] # None
    <3> DEFINE r == [c EXCEPT !.pc = "remove_manifest", !.old = manifest[f]]
    <3>1. manifest' = [manifest EXCEPT ![f] = None] /\ call'[t] = r
      BY <1>1, <1>5, <2>3, GoesOn DEF Remove
    <3>2. call'[t].pc = "remove_manifest" /\ call'[t].file = f /\ call'[t].old = manifest[f]
      BY <1>1, <3>1 DEF Records
    <3>3. Local(t)'
      BY <1>1, <1>2, <3>1, <3>2 DEF Local, FileSaved, CountSaved, ChunksSaved,
         SweepsUncounted, SavingPcs, CollectPcs
    <3>4. \A g \in Files : LoadedFile(g)' = LoadedFile(g) /\ ~InTransit(g)
      BY <2>1 DEF LoadedFile, InTransit, OneCaller
    <3>5. ASSUME NEW g \in Files PROVE Follows(g)
      <4>1. CASE g # f
        BY <1>1, <3>1, <3>4, <4>1 DEF Follows
      <4>2. CASE g = f /\ LoadedFile(g) = manifest[g]
        <5>1. call'[t].file = g /\ call'[t].old = LoadedFile(g)'
          BY <3>2, <3>4, <4>2
        <5>2. InTransit(g)'
          BY <5>1, <3>2 DEF InTransit
        <5> QED BY <5>2 DEF Follows
      <4>3. CASE g = f /\ LoadedFile(g) # manifest[g]
        BY <3>4, <4>3 DEF Follows
      <4> QED BY <4>1, <4>2, <4>3
    <3>6. KeepsDurable
      BY <1>3, <3>4 DEF KeepsDurable, DurableRefs, LoadedCount
    <3> QED BY <1>4, <3>3, <3>5, <3>6 DEF Sound
  <2> QED BY <2>2, <2>3
<1>6. CASE RemoveManifest(t)
  <2>1. /\ c.pc = "remove_manifest" /\ mrec' = [mrec EXCEPT ![f] = None] /\ midx' = midx
        /\ manifest' = manifest /\ Keeps(t) /\ call'[t].pc = "rm_index_get"
    BY <1>1, <1>6, GotoKeeps DEF RemoveManifest, memory
  <2>2. manifest[f] = None /\ mrec'[f] = None
    BY <1>1, <1>2, <2>1 DEF Local, FileSaved
  <2>3. Local(t)'
    BY <2>1, <2>2 DEF Local, FileSaved, CountSaved, ChunksSaved,
       SweepsUncounted, SavingPcs, CollectPcs, Keeps
  <2>4. PICK g \in Files : g = f
    BY <1>2
  <2>5. \A h \in Files \ {g} : LoadedFile(h)' = LoadedFile(h)
    BY <1>1, <2>1, <2>4 DEF LoadedFile
  <2>6. LoadedFile(g)' = None
    BY <2>1, <2>2, <2>4 DEF LoadedFile
  <2>7. KeepsDurable /\ \A h \in Files : Follows(h)
    BY <1>3, <2>1, <2>4, <2>5, <2>6, LeavesFile
  <2> QED BY <1>4, <2>3, <2>7 DEF Sound
<1>7. CASE RmIndexGet(t)
  <2>1. /\ c.pc = "rm_index_get" /\ backend' = backend /\ manifest' = manifest
        /\ Keeps(t) /\ call'[t].pc = "rm_index_put" /\ call'[t].seen = midx
    BY <1>1, <1>7, SeenKeeps DEF RmIndexGet, memory
  <2>2. manifest[f] = None /\ mrec[f] = None /\ mrec' = mrec /\ midx' = midx
    BY <2>1 DEF Local, FileSaved, backend
  <2>3. Local(t)'
    BY <2>1, <2>2 DEF Local, FileSaved, CountSaved, ChunksSaved,
       SweepsUncounted, SavingPcs, CollectPcs, Keeps
  <2> QED BY <1>3, <2>1, <2>3, BackendRests
<1>8. CASE RmIndexPut(t)
  <2>1. /\ c.pc = "rm_index_put" /\ midx' = midx \ {f} /\ mrec' = mrec
        /\ manifest' = manifest /\ ReleaseRest(t)
    BY <1>8 DEF RmIndexPut, memory, Local, FileSaved
  <2>2. Local(t)'
    BY <1>1, <2>1, ReleaseRestFree
  <2>4. PICK g \in Files : g = f
    BY <1>2
  <2>5. \A h \in Files \ {g} : LoadedFile(h)' = LoadedFile(h)
    BY <2>1, <2>4 DEF LoadedFile
  <2>6. LoadedFile(g)' = None
    BY <2>1, <2>4 DEF LoadedFile
  <2>7. KeepsDurable /\ \A h \in Files : Follows(h)
    BY <1>3, <2>1, <2>4, <2>5, <2>6, LeavesFile
  <2> QED BY <1>4, <2>2, <2>7 DEF Sound
<1> QED BY <1>5, <1>6, <1>7, <1>8

LEMMA ReleaseSound ==
  ASSUME OneCaller, TypeInv, NEW t \in Threads, Local(t),
         \/ Size(t) \/ Decrement(t)
         \/ GcBlob(t) \/ GcRefcount(t) \/ GcIndexGet(t) \/ GcIndexPut(t)
  PROVE  Sound(t)
<1> DEFINE c == call[t]
<1>1. /\ TypeInv /\ c \in Records /\ WellFormed(c)
      /\ rc \in [Digests -> Nat] /\ rrec \in [Digests -> Nat] /\ blobs \subseteq Digests
  BY DEF TypeInv, TypeOK
<1>2. c.pc \in ReleasePcs
  BY DEF Size, Decrement, GcBlob, GcRefcount, GcIndexGet, GcIndexPut
<1>3. UNCHANGED <<mrec, midx, manifest>>
  BY DEF Size, Decrement, GcBlob, GcRefcount, GcIndexGet, GcIndexPut, backend, memory
<1>4. /\ \A f \in Files : Follows(f)
      /\ \A d \in Digests : DurableRefs(d)' = DurableRefs(d)
  BY <1>2, <1>3, FilesRest
<1>5. CASE Size(t)
  <2>1. call'[t].pc \in {"idle", "decrement"} /\ backend' = backend /\ rc' = rc
    BY <1>1, <1>5, GoesTo, ReturnIdle DEF Size, memory
  <2> QED BY <1>2, <1>3, <2>1, FreeLocal, BackendRests
<1>6. CASE Decrement(t)
  <2> DEFINE D == OldChunk(t)
             r == [c EXCEPT !.pc = IF LastReference(D) THEN "gc_blob" ELSE "save_refcount",
                            !.released = @ + 1, !.cur = D, !.count = Remaining(D)]
  <2>1. D \in Digests /\ backend' = backend /\ c.released \in Nat
    BY <1>1, <1>6, ChunkType DEF Decrement, Records
  <2>2. CASE rc[D] = 0
    <3>1. call'[t].pc = "idle" /\ rc' = rc
      BY <1>1, <1>6, <2>2, ReturnIdle DEF Decrement
    <3> QED BY <1>2, <1>3, <2>1, <3>1, FreeLocal, BackendRests
  <2>3. CASE rc[D] # 0
    <3>1. call'[t] = r /\ rc' = [rc EXCEPT ![D] = @ - 1]
      BY <1>1, <1>6, <2>3, GoesOn DEF Decrement
    <3>2. /\ call'[t].cur = D /\ call'[t].count = rc[D] - 1
          /\ call'[t].released = c.released + 1
          /\ call'[t].pc = IF rc[D] = 1 THEN "gc_blob" ELSE "save_refcount"
      BY <1>1, <3>1 DEF Records, Remaining, LastReference
    <3> HIDE DEF r, D
    <3>3. rc'[D] = rc[D] - 1 /\ \A d \in Digests : d # D => rc'[d] = rc[d]
      BY <1>1, <2>1, <3>1
    <3>4. CountsStored
      BY <1>1, <2>1, <3>3 DEF CountsStored
    <3>5. UNCHANGED <<blobs, rrec, ridx>>
      BY <2>1 DEF backend
    <3>6. DropsUncounted /\ KeepsDurable
      BY <1>4, <3>5 DEF DropsUncounted, KeepsDurable, LoadedCount
    <3>7. CountSaved(t)'
      BY <3>2, <3>3 DEF CountSaved, SavingPcs, CollectPcs
    <3>8. ChunksSaved(t)'
      BY <2>1, <3>2 DEF ChunksSaved
    <3>9. FileSaved(t)' /\ SweepsUncounted(t)'
      BY <3>2 DEF FileSaved, SweepsUncounted
    <3> QED BY <1>4, <3>4, <3>6, <3>7, <3>8, <3>9 DEF Sound, Local
  <2> QED BY <2>2, <2>3
<1>7. CASE GcBlob(t) \/ GcRefcount(t)
  <2>1. /\ c.cur \in Digests /\ rc[c.cur] = 0 /\ rc' = rc /\ ridx' = ridx /\ Keeps(t)
        /\ \/ blobs' = blobs \ {c.cur} /\ rrec' = rrec /\ call'[t].pc = "gc_refcount"
           \/ blobs' = blobs /\ rrec' = [rrec EXCEPT ![c.cur] = 0] /\ call'[t].pc = "gc_index_get"
    BY <1>1, <1>7, GotoKeeps DEF GcBlob, GcRefcount, memory, WellFormed, Local, CountSaved,
       CollectPcs
  <2>2. CountsStored /\ DropsUncounted
    BY <1>1, <2>1 DEF CountsStored, DropsUncounted
  <2>3. KeepsDurable
    BY <1>1, <1>4, <2>1 DEF KeepsDurable, LoadedCount
  <2>4. Local(t)'
    BY <1>1, <2>1 DEF Local, FileSaved, CountSaved, ChunksSaved, SweepsUncounted, SavingPcs,
       CollectPcs, Keeps
  <2> QED BY <1>4, <2>2, <2>3, <2>4 DEF Sound
<1>8. CASE GcIndexGet(t)
  <2>1. /\ c.pc = "gc_index_get" /\ backend' = backend /\ rc' = rc
        /\ Keeps(t) /\ call'[t].pc = "gc_index_put" /\ call'[t].seen = ridx
    BY <1>1, <1>8, SeenKeeps DEF GcIndexGet, memory
  <2>2. UNCHANGED <<rrec, ridx>>
    BY <2>1 DEF backend
  <2>3. Local(t)'
    BY <2>1, <2>2 DEF Local, FileSaved, CountSaved, ChunksSaved, SweepsUncounted, SavingPcs,
       CollectPcs, Keeps
  <2> QED BY <1>2, <1>3, <2>1, <2>3, BackendRests
<1>9. CASE GcIndexPut(t)
  <2>1. /\ c.cur \in Digests /\ rc[c.cur] = 0 /\ rc' = rc /\ rrec' = rrec /\ blobs' = blobs
        /\ ridx' = ridx \ {c.cur} /\ ReleaseRest(t)
    BY <1>1, <1>9 DEF GcIndexPut, WellFormed, Local, CountSaved, CollectPcs
  <2>2. CountsStored /\ DropsUncounted
    BY <1>1, <2>1 DEF CountsStored, DropsUncounted
  <2>3. KeepsDurable
    BY <1>1, <1>4, <2>1 DEF KeepsDurable, LoadedCount
  <2> QED BY <1>1, <1>4, <2>1, <2>2, <2>3, ReleaseRestFree DEF Sound
<1> QED BY <1>5, <1>6, <1>7, <1>8, <1>9

LEMMA ReadSound ==
  ASSUME OneCaller, TypeInv, NEW t \in Threads, Lookup(t) \/ Fetch(t)
  PROVE  Sound(t)
<1> DEFINE c == call[t]
<1>1. /\ c \in Records /\ c.pc \in {"lookup", "fetch"}
      /\ backend' = backend /\ manifest' = manifest /\ rc' = rc
  BY DEF TypeInv, TypeOK, Lookup, Fetch, memory
<1>2. CASE \E res \in {"ok", "err"} : Return(t, res)
  BY <1>1, <1>2, ReturnIdle, FreeLocal, BackendRests
<1>3. CASE Become(t, [c EXCEPT !.pc = "fetch", !.new = manifest[c.file]])
  <2> DEFINE m == manifest[c.file]
  <2>1. call'[t] = [c EXCEPT !.pc = "fetch", !.new = m]
    BY <1>3, GoesOn
  <2> HIDE DEF m
  <2>2. call'[t].pc = "fetch"
    BY <1>1, <2>1 DEF Records
  <2> QED BY <1>1, <2>2, FreeLocal, BackendRests
<1>4. CASE Become(t, [c EXCEPT !.done = @ + 1])
  <2>1. call'[t] = [c EXCEPT !.done = @ + 1]
    BY <1>4, GoesOn
  <2>2. call'[t].pc = c.pc
    BY <1>1, <2>1 DEF Records
  <2> QED BY <1>1, <2>2, FreeLocal, BackendRests
<1> QED BY <1>2, <1>3, <1>4 DEF Lookup, Fetch

LEMMA RepairSound ==
  ASSUME OneCaller, TypeInv, NEW t \in Threads, Local(t),
         FsckLive(t) \/ FsckList(t) \/ FsckUnlink(t)
  PROVE  Sound(t)
<1> DEFINE c == call[t]
<1>1. /\ c \in Records /\ c.pc \in RepairPcs /\ rc \in [Digests -> Nat] /\ blobs \subseteq Digests
      /\ UNCHANGED <<mrec, midx, rrec, ridx, manifest, rc>>
  BY DEF TypeInv, TypeOK, FsckLive, FsckList, FsckUnlink, backend, memory
<1>2. CASE FsckLive(t)
  <2> DEFINE s == {d \in Digests : rc[d] > 0}
  <2>1. backend' = backend /\ Become(t, [c EXCEPT !.pc = "fsck_list", !.seen = s])
    BY <1>2 DEF FsckLive
  <2> HIDE DEF s
  <2>2. call'[t].pc = "fsck_list" /\ call'[t].seen = s
    BY <2>1, SeenKeeps
  <2>3. Local(t)'
    BY <1>1, <2>2 DEF s, Local, FileSaved, CountSaved, ChunksSaved, SweepsUncounted, SavingPcs,
       CollectPcs
  <2> QED BY <1>1, <2>1, <2>3, BackendRests
<1>3. CASE FsckList(t)
  <2> DEFINE s == blobs \ c.seen
  <2>1. backend' = backend /\ c.pc = "fsck_list"
    BY <1>3 DEF FsckList
  <2>2. CASE Return(t, "ok")
    BY <1>1, <2>1, <2>2, ReturnIdle, FreeLocal, BackendRests
  <2>3. CASE Become(t, [c EXCEPT !.pc = "fsck_unlink", !.seen = s])
    <3> HIDE DEF s
    <3>1. call'[t].pc = "fsck_unlink" /\ call'[t].seen = s
      BY <2>3, SeenKeeps
    <3>2. \A d \in s : d \in Digests /\ rc[d] = 0
      BY <1>1, <2>1 DEF s, Local, SweepsUncounted
    <3>3. Local(t)'
      BY <1>1, <3>1, <3>2 DEF Local, FileSaved, CountSaved, ChunksSaved, SweepsUncounted,
         SavingPcs, CollectPcs
    <3> QED BY <1>1, <2>1, <3>3, BackendRests
  <2> QED BY <1>3, <2>2, <2>3 DEF FsckList
<1>4. CASE FsckUnlink(t)
  <2>1. c.pc = "fsck_unlink" /\ \A d \in c.seen : d \in Digests /\ rc[d] = 0
    BY <1>4 DEF FsckUnlink, Local, SweepsUncounted
  <2>2. CASE Return(t, "ok") /\ blobs' = blobs
    BY <1>1, <2>2, ReturnIdle, FreeLocal, BackendRests DEF backend
  <2>3. ASSUME NEW d \in c.seen, blobs' = blobs \ {d}, Become(t, [c EXCEPT !.seen = @ \ {d}])
        PROVE  Sound(t)
    <3>1. call'[t] = [c EXCEPT !.seen = @ \ {d}]
      BY <2>3, GoesOn
    <3>2. call'[t].pc = "fsck_unlink" /\ call'[t].seen = c.seen \ {d}
      BY <1>1, <2>1, <3>1 DEF Records
    <3>3. Local(t)'
      BY <1>1, <2>1, <3>2 DEF Local, FileSaved, CountSaved, ChunksSaved, SweepsUncounted,
         SavingPcs, CollectPcs
    <3>4. CountsStored /\ DropsUncounted
      BY <1>1, <2>1, <2>3 DEF CountsStored, DropsUncounted
    <3>5. \A f \in Files : Follows(f)
      BY <1>1, FilesRest
    <3>6. KeepsDurable
      <4>1. \A x \in Digests : DurableRefs(x)' = DurableRefs(x)
        BY <1>1, FilesRest
      <4> QED BY <1>1, <4>1 DEF KeepsDurable, LoadedCount
    <3> QED BY <3>3, <3>4, <3>5, <3>6 DEF Sound
  <2> QED BY <1>4, <2>2, <2>3 DEF FsckUnlink
<1> QED BY <1>2, <1>3, <1>4

LEMMA BeginSound ==
  ASSUME OneCaller, TypeInv, NEW t \in Threads, BeginCall(t)
  PROVE  Sound(t)
<1>1. ASSUME NEW op, NEW f, NEW x, NEW label, Begin(t, op, f, x, label),
             label \in {"peek", "exists", "remove", "lookup", "fsck_live"}
      PROVE  Sound(t)
  <2> DEFINE r == [Idle EXCEPT !.pc = label, !.op = op, !.file = f, !.new = x]
  <2>1. /\ call[t].pc = "idle" /\ call'[t] = r
        /\ backend' = backend /\ manifest' = manifest /\ rc' = rc
    BY <1>1, GoesOn DEF Begin, Busy, memory
  <2>2. call'[t].pc = label /\ call'[t].done = 0
    BY <2>1 DEF Idle
  <2> HIDE DEF r
  <2>3. Local(t)'
    BY <1>1, <2>2 DEF Local, FileSaved, CountSaved, ChunksSaved, SweepsUncounted, SavingPcs,
       CollectPcs
  <2> QED BY <2>1, <2>3, BackendRests
<1>2. ASSUME NEW f \in Files, NEW x \in Contents, BeginIngest(t, f, x)
      PROVE  \E label \in {"peek", "exists"} : Begin(t, "ingest", f, x, label)
  BY <1>2 DEF BeginIngest
<1>3. CASE \E f \in Files, x \in Contents : BeginIngest(t, f, x)
  BY <1>1, <1>2, <1>3
<1>4. CASE \E f \in Files : BeginDelete(t, f)
  BY <1>1, <1>4 DEF BeginDelete
<1>5. CASE \E f \in Files : BeginRead(t, f)
  BY <1>1, <1>5 DEF BeginRead
<1>6. CASE BeginRepair(t)
  BY <1>1, <1>6 DEF BeginRepair
<1> QED BY <1>3, <1>4, <1>5, <1>6 DEF BeginCall

\* A call that fails with its file changed in memory only leaves to the backend
\* what it would have released: those chunks stay counted, and stay claimed.
LEMMA FailClaims ==
  ASSUME OneCaller, TypeInv, TypeInv', NEW t \in Threads, Fail(t),
         call[t].pc \in {"save_manifest", "remove_manifest"}
  PROVE  KeepsClaims
<1> SUFFICES ASSUME NEW d \in Digests
             PROVE  Cardinality(Claims(d)') + rc[d] <= Cardinality(Claims(d)) + rc'[d]
  BY DEF KeepsClaims
<1> DEFINE owed(y) == <<<<"owed", t>>, y[2]>>
           m == [y \in Claims(d)' |-> IF y \in Claims(d) THEN y ELSE owed(y)]
<1>1. /\ manifest' = manifest /\ rc' = rc /\ mrec' = mrec /\ midx' = midx
      /\ OthersStay(t) /\ NoRefs(t)
  BY QuietReturn DEF Fail, backend, memory, QuietMove, Continues
<1>2. Refs(d)' \subseteq Refs(d)
  BY <1>1, NoRefsStep
<1>3. ASSUME NEW f \in Files PROVE LoadedFile(f)' = LoadedFile(f)
  BY <1>1 DEF LoadedFile
<1>4. call[t].released = 0
  BY DEF TypeInv, WellFormed
<1>5. ASSUME NEW y \in Claims(d)', y \notin Claims(d)
      PROVE  /\ y = <<<<"disk", call[t].file>>, y[2]>>
             /\ owed(y) \in Claims(d)
  <2>1. y \in DiskRefs(d)' /\ y \notin DiskRefs(d)
    BY <1>2, <1>5 DEF Claims
  <2>2. PICK f \in Files, i \in Positions : y = <<<<"disk", f>>, i>>
    BY <2>1 DEF DiskRefs
  <2>3. /\ LoadedFile(f) # None /\ LoadedFile(f) # manifest[f]
        /\ i <= Len(LoadedFile(f)) /\ LoadedFile(f)[i] = d
    BY <1>1, <1>3, <2>1, <2>2 DEF DiskRefs
  <2>4. InTransit(f)
    BY <2>1, <2>2, <2>3 DEF DiskRefs
  <2>5. call[t].file = f /\ call[t].old = LoadedFile(f)
    BY <2>4 DEF InTransit, OneCaller
  <2>6. i \in Nat /\ i > 0
    BY DEF Positions
  <2>7. <<<<"owed", t>>, i>> \in OwedRefs(d)
    BY <1>4, <2>3, <2>5, <2>6 DEF OwedRefs
  <2> QED BY <2>2, <2>5, <2>7 DEF Claims, Refs
<1>6. ASSUME NEW y \in Claims(d)' PROVE y[1] # <<"owed", t>>
  <2>1. CASE y \in Refs(d)'
    <3>1. ASSUME NEW i \in Positions, y = <<<<"owed", t>>, i>> PROVE y \notin OwedRefs(d)'
      <4>1. i \in Nat /\ i > 0 /\ Len(<<>>) = 0
        BY DEF Positions
      <4> QED BY <1>1, <3>1, <4>1 DEF OwedRefs, NoRefs
    <3> QED BY <2>1, <3>1, RefShapeAfter
  <2>2. CASE y \in DiskRefs(d)'
    BY <2>2 DEF DiskRefs
  <2> QED BY <2>1, <2>2 DEF Claims
<1>7. ASSUME NEW y \in Claims(d)', NEW z \in Claims(d)', m[y] = m[z] PROVE y = z
  <2>1. CASE y \in Claims(d) /\ z \in Claims(d)
    BY <1>7, <2>1
  <2>2. CASE y \notin Claims(d) /\ z \notin Claims(d)
    <3>1. y[2] = z[2]
      BY <1>7, <2>2
    <3> QED BY <1>5, <2>2, <3>1
  <2>3. CASE y \in Claims(d) /\ z \notin Claims(d)
    BY <1>6, <1>7, <2>3
  <2>4. CASE y \notin Claims(d) /\ z \in Claims(d)
    BY <1>6, <1>7, <2>4
  <2> QED BY <2>1, <2>2, <2>3, <2>4
<1>8. m \in [Claims(d)' -> Claims(d)]
  BY <1>5
<1> HIDE DEF m
<1>9. m \in Injection(Claims(d)', Claims(d))
  BY <1>7, <1>8 DEF Injection, IsInjective
<1>10. /\ IsFiniteSet(Claims(d)) /\ Cardinality(Claims(d)) \in Nat
       /\ Cardinality(Claims(d)') \in Nat /\ rc[d] \in Nat
  BY ClaimsFinite, ClaimsFiniteAfter DEF ClaimsCounted, TypeInv, TypeOK
<1>11. Cardinality(Claims(d)') <= Cardinality(Claims(d))
  BY <1>9, <1>10, FS_Injection
<1> QED BY <1>1, <1>10, <1>11

-------------------------------------------------------------------------------
(* The invariant is kept                                                        *)

LEMMA ThreadStep ==
  ASSUME OneCaller, DurableInv, up, TypeInv', NEW t \in Threads,
         BeginCall(t) \/ Step(t) \/ Fail(t), WritersInv', up' = up, \A d \in Digests : NoLoss(d)
  PROVE  DurableInv'
<1>1. TypeInv /\ WritersInv /\ Local(t)
  BY DEF DurableInv, WritersInv
<1>2. Local(t)' => \A u \in Threads : Local(u)'
  BY DEF OneCaller
<1>3. ASSUME Sound(t) PROVE DurableInv'
  <2>1. KeepsClaims /\ CountsStored /\ DropsUncounted /\ KeepsDurable /\ Local(t)'
    BY <1>1, <1>3, ClaimsFollow DEF Sound
  <2>2. ClaimsCovered' /\ ClaimsStored' /\ DurableRefcountCovers' /\ DurableFilesIntact'
    BY <1>1, <2>1, SoundStep
  <2> QED BY <1>2, <2>1, <2>2 DEF DurableInv, Down
<1>4. CASE Step(t)
  <2>1. Sound(t)
    BY <1>1, <1>4, StoreSound, SaveSound, CommitSound, DeleteSound, ReleaseSound, ReadSound,
       RepairSound DEF Step
  <2> QED BY <1>3, <2>1
<1>5. CASE BeginCall(t)
  BY <1>1, <1>3, <1>5, BeginSound
<1>6. CASE Fail(t)
  <2>1. /\ backend' = backend /\ manifest' = manifest /\ rc' = rc /\ Local(t)'
    BY <1>1, <1>6, ReturnIdle, FreeLocal DEF Fail, memory
  <2>2. CASE call[t].pc \notin {"save_manifest", "remove_manifest"}
    BY <1>1, <1>3, <2>1, <2>2, BackendRests
  <2>3. CASE call[t].pc \in {"save_manifest", "remove_manifest"}
    <3>1. KeepsClaims
      BY <1>1, <1>6, <2>3, FailClaims
    <3>2. UNCHANGED <<blobs, mrec, midx, rrec, ridx>>
      BY <2>1 DEF backend
    <3>3. CountsStored /\ DropsUncounted
      BY <1>1, <2>1, <3>2 DEF CountsStored, DropsUncounted, TypeInv, TypeOK
    <3>4. KeepsDurable
      BY <3>2 DEF KeepsDurable, DurableRefs, LoadedFile, LoadedCount
    <3>5. ClaimsCovered' /\ ClaimsStored' /\ DurableRefcountCovers' /\ DurableFilesIntact'
      BY <1>1, <3>1, <3>3, <3>4, SoundStep
    <3> QED BY <1>2, <2>1, <3>5 DEF DurableInv, Down
  <2> QED BY <2>2, <2>3
<1> QED BY <1>4, <1>5, <1>6

\* Calls that have been cut short by the end of the process exclude nobody.
LEMMA AllIdle == TypeInv /\ (\A t \in Threads : call[t] = Idle) => WritersInv
BY DEF WritersInv, Exclusive, PeekedIsCurrent, Writing, Busy, Idle

LEMMA AllIdleAfter == (TypeInv /\ (\A t \in Threads : call[t] = Idle) => WritersInv)'
BY AllIdle, PTL

LEMMA CrashStep ==
  ASSUME DurableInv, TypeInv', Crash
  PROVE  DurableInv'
<1>1. /\ backend' = backend /\ up' = FALSE /\ \A t \in Threads : call'[t] = Idle
      /\ manifest' = [f \in Files |-> None]
  BY DEF Crash
<1>2. UNCHANGED <<blobs, mrec, midx, rrec, ridx>>
  BY <1>1 DEF backend
<1>3. DurableRefcountCovers' /\ DurableFilesIntact'
  BY <1>2 DEF DurableInv, DurableRefcountCovers, DurableFilesIntact, DurableRefs, LoadedFile,
     LoadedCount, Needed, ChunksOf
<1> QED BY <1>1, <1>3, AllIdleAfter DEF DurableInv, Down

\* Opening the store makes a reference of each durable one and of nothing else.
LEMMA OpenStep ==
  ASSUME DurableInv, TypeInv', Open
  PROVE  DurableInv'
<1>1. /\ UNCHANGED <<blobs, mrec, midx, rrec, ridx, call>> /\ up' = TRUE
      /\ manifest' = [f \in Files |-> LoadedFile(f)]
      /\ rc' = [d \in Digests |-> LoadedCount(d)]
  BY DEF Open, backend
<1>2. \A t \in Threads : call'[t] = Idle
  BY <1>1 DEF Open, DurableInv, Down
<1>3. \A f \in Files : LoadedFile(f)' = LoadedFile(f) /\ manifest'[f] = LoadedFile(f)
  BY <1>1 DEF LoadedFile
<1>4. \A d \in Digests : LoadedCount(d)' = LoadedCount(d) /\ rc'[d] = LoadedCount(d)
  BY <1>1 DEF LoadedCount
<1>5. DurableRefcountCovers' /\ DurableFilesIntact'
  BY <1>1, <1>3, <1>4 DEF DurableInv, DurableRefcountCovers, DurableFilesIntact, DurableRefs
<1>6. \A t \in Threads : Local(t)'
  BY <1>2, FreeLocal DEF Idle
<1>7. ASSUME NEW d \in Digests, NEW y \in Claims(d)'
      PROVE  \E f \in Files, i \in Positions : y = <<<<"file", f>>, i>> /\ <<f, i>> \in DurableRefs(d)
  <2>1. y \notin HeldRefs(d)'
    BY <1>2 DEF HeldRefs, Uncommitted, Idle
  <2>2. y \notin OwedRefs(d)'
    <3>1. ASSUME y \in OwedRefs(d)' PROVE FALSE
      <4>1. y[2] \in Nat /\ y[2] > 0 /\ y[2] <= Len(<<>>)
        BY <1>2, <3>1 DEF OwedRefs, Idle, Positions
      <4> QED BY <4>1
    <3> QED BY <3>1
  <2>3. y \notin DiskRefs(d)'
    BY <1>3 DEF DiskRefs
  <2>4. y \in FileRefs(d)'
    BY <1>7, <2>1, <2>2, <2>3 DEF Claims, Refs
  <2>5. PICK f \in Files, i \in Positions : y = <<<<"file", f>>, i>>
    BY <2>4 DEF FileRefs
  <2>6. manifest'[f] # None /\ i <= Len(manifest'[f]) /\ manifest'[f][i] = d
    BY <2>4, <2>5 DEF FileRefs
  <2> QED BY <1>3, <2>5, <2>6 DEF DurableRefs
<1>8. ClaimsCovered'
  <2>1. ASSUME NEW d \in Digests PROVE Cardinality(Claims(d)') <= rc'[d]
    <3> DEFINE m == [y \in Claims(d)' |-> <<y[1][2], y[2]>>]
    <3>0. ASSUME NEW y \in Claims(d)'
          PROVE  /\ y = <<<<"file", m[y][1]>>, m[y][2]>>
                 /\ m[y] \in DurableRefs(d)
      <4>1. PICK f \in Files, i \in Positions :
                   y = <<<<"file", f>>, i>> /\ <<f, i>> \in DurableRefs(d)
        BY <1>7, <3>0
      <4>2. m[y] = <<f, i>>
        BY <4>1
      <4> QED BY <4>1, <4>2
    <3>1. \A y \in Claims(d)' : m[y] \in DurableRefs(d)
      BY <3>0
    <3>2. ASSUME NEW y \in Claims(d)', NEW z \in Claims(d)', m[y] = m[z] PROVE y = z
      <4>1. /\ y = <<<<"file", m[y][1]>>, m[y][2]>>
            /\ z = <<<<"file", m[z][1]>>, m[z][2]>>
        BY <3>0
      <4> QED BY <3>2, <4>1
    <3>3. m \in Injection(Claims(d)', DurableRefs(d))
      BY <3>1, <3>2 DEF Injection, IsInjective
    <3>4. IsFiniteSet(DurableRefs(d))
      <4>1. IsFiniteSet(Positions)
        BY StoreAssumption, FS_Interval DEF Positions
      <4>2. IsFiniteSet(Files \X Positions)
        BY <4>1, StoreAssumption, FS_Product
      <4> QED BY <4>2, FS_Subset DEF DurableRefs
    <3> HIDE DEF m
    <3>5. IsFiniteSet(Claims(d)') /\ Cardinality(Claims(d)') <= Cardinality(DurableRefs(d))
      BY <3>3, <3>4, FS_Injection
    <3>6. Cardinality(Claims(d)') \in Nat /\ Cardinality(DurableRefs(d)) \in Nat
      BY <3>4, <3>5, FS_CardinalityType
    <3>7. Cardinality(DurableRefs(d)) <= LoadedCount(d) /\ rc'[d] = LoadedCount(d)
      BY <1>4 DEF DurableInv, DurableRefcountCovers
    <3>8. rc'[d] \in Nat
      BY DEF TypeInv, TypeOK
    <3> QED BY <3>5, <3>6, <3>7, <3>8
  <2> QED BY <2>1 DEF ClaimsCovered
<1>9. ClaimsStored'
  <2>1. ASSUME NEW d \in Digests, NEW y \in Claims(d)' PROVE d \in blobs
    <3>1. PICK f \in Files, i \in Positions : <<f, i>> \in DurableRefs(d)
      BY <1>7, <2>1
    <3>2. LoadedFile(f) # None /\ i <= Len(LoadedFile(f)) /\ LoadedFile(f)[i] = d
      BY <3>1 DEF DurableRefs
    <3>3. LoadedFile(f) \in Contents
      BY <1>1, <3>2 DEF LoadedFile, TypeInv, TypeOK
    <3>4. i \in DOMAIN LoadedFile(f)
      BY <3>2, <3>3, StoreAssumption DEF Positions
    <3>5. d \in Needed(LoadedFile(f))
      BY <3>2, <3>4 DEF Needed, ChunksOf
    <3> QED BY <3>5 DEF DurableInv, DurableFilesIntact
  <2> QED BY <1>1, <2>1 DEF ClaimsStored
<1> QED BY <1>1, <1>2, <1>5, <1>6, <1>8, <1>9, AllIdleAfter DEF DurableInv, Down

\* Only a thread that is in a call takes a step of one.
LEMMA OnlyBusy ==
  ASSUME NEW t \in Threads, Step(t) \/ Fail(t)
  PROVE  Busy(t)
BY DEF Busy, Fail, Step, StoreExists, StorePut, Increment, SaveRefcount, RefIndexGet, RefIndexPut,
   Peek, Insert, SaveManifest, ManIndexGet, ManIndexPut, Remove, RemoveManifest, RmIndexGet,
   RmIndexPut, Size, Decrement, GcBlob, GcRefcount, GcIndexGet, GcIndexPut, Lookup, Fetch,
   FsckLive, FsckList, FsckUnlink

LEMMA IdleNoStep ==
  ASSUME NEW t \in Threads, call[t] = Idle
  PROVE  ~Step(t) /\ ~Fail(t)
BY OnlyBusy DEF Idle, Busy

LEMMA DurableStays ==
  ASSUME DurableInv, TypeInv', UNCHANGED vars
  PROVE  DurableInv'
<1>1. UNCHANGED <<blobs, mrec, midx, rrec, ridx, manifest, rc, call, up>>
  BY DEF vars, backend, memory
<1>2. \A d : DurableRefs(d)' = DurableRefs(d) /\ LoadedCount(d)' = LoadedCount(d)
  BY <1>1 DEF DurableRefs, LoadedFile, LoadedCount
<1>3. DurableRefcountCovers' /\ DurableFilesIntact'
  BY <1>1, <1>2 DEF DurableInv, DurableRefcountCovers, DurableFilesIntact, LoadedFile, Needed,
     ChunksOf
<1>4. \A d : Claims(d)' = Claims(d)
  <2>1. \A d : Refs(d)' = Refs(d)
    BY <1>1 DEF Refs, FileRefs, HeldRefs, OwedRefs, Uncommitted
  <2>2. \A d : DiskRefs(d)' = DiskRefs(d)
    BY <1>1 DEF DiskRefs, LoadedFile, InTransit
  <2> QED BY <2>1, <2>2 DEF Claims
<1>5. (ClaimsCovered' <=> ClaimsCovered) /\ (ClaimsStored' <=> ClaimsStored)
  BY <1>1, <1>4 DEF ClaimsCovered, ClaimsStored
<1>6. ASSUME NEW t \in Threads PROVE Local(t)' <=> Local(t)
  BY <1>1 DEF Local, FileSaved, CountSaved, ChunksSaved, SweepsUncounted, LoadedCount, Chunk
<1>7. WritersInv'
  BY <1>1 DEF DurableInv, WritersInv, Exclusive, PeekedIsCurrent, ContentOf, Writing, Busy
<1> QED BY <1>1, <1>3, <1>5, <1>6, <1>7 DEF DurableInv, Down

LEMMA DurableInit == Init => DurableInv
<1> SUFFICES ASSUME Init PROVE DurableInv
  OBVIOUS
<1>1. WritersInv /\ \A d \in Digests : Refs(d) = {}
  BY WritersInit
<1>2. /\ up /\ midx = {} /\ \A t \in Threads : call[t] = Idle
      /\ manifest = [f \in Files |-> None] /\ rc = [d \in Digests |-> 0] /\ ridx = {}
  BY DEF Init
<1>3. \A f : LoadedFile(f) = None
  BY <1>2 DEF LoadedFile
<1>4. \A d \in Digests : Claims(d) = {} /\ DurableRefs(d) = {}
  BY <1>1, <1>3 DEF Claims, DiskRefs, DurableRefs
<1>5. ClaimsCovered /\ ClaimsStored /\ DurableRefcountCovers
  BY <1>2, <1>4, FS_EmptySet DEF ClaimsCovered, ClaimsStored, DurableRefcountCovers, LoadedCount
<1>6. DurableFilesIntact
  BY <1>3 DEF DurableFilesIntact, Needed
<1>7. \A t \in Threads : Local(t)
  BY <1>2 DEF Idle, Local, FileSaved, CountSaved, ChunksSaved, SweepsUncounted, SavingPcs, CollectPcs
<1> QED BY <1>1, <1>2, <1>5, <1>6, <1>7 DEF DurableInv, Down

LEMMA DurableStep ==
  ASSUME OneCaller, DurableInv, [Next]_vars
  PROVE  DurableInv'
<1>1. TypeInv /\ TypeInv' /\ WritersInv
  BY TypeInvStep DEF DurableInv, WritersInv
<1>2. CASE \E t \in Threads : BeginCall(t) \/ Step(t) \/ Fail(t)
  <2>1. PICK t \in Threads : BeginCall(t) \/ Step(t) \/ Fail(t)
    BY <1>2
  <2>2. up
    <3>1. CASE call[t] # Idle
      BY <3>1 DEF DurableInv, Down
    <3>2. CASE call[t] = Idle
      <4>1. BeginCall(t)
        BY <2>1, <3>2, IdleNoStep
      <4> QED BY <4>1 DEF BeginCall, BeginIngest, BeginDelete, BeginRead, BeginRepair, Begin
    <3> QED BY <3>1, <3>2
  <2>3. WritersInv' /\ up' = up /\ \A d \in Digests : NoLoss(d)
    BY <1>1, <2>1, RunningThread DEF OneCaller, WritersApart
  <2> QED BY <1>1, <2>1, <2>2, <2>3, ThreadStep
<1>3. CASE UNCHANGED vars
  BY <1>1, <1>3, DurableStays
<1> QED BY <1>1, <1>2, <1>3, CrashStep, OpenStep DEF Next, Rest

LEMMA DurableAlways ==
  ASSUME OneCaller
  PROVE  Spec => []DurableInv
<1>1. DurableInv /\ [Next]_vars => DurableInv'
  BY DurableStep
<1> QED BY <1>1, DurableInit, PTL DEF Spec

\* For a store with one caller at a time: wherever the process dies, and whichever
\* backend calls have failed before, every chunk of a file that a reopened store
\* would list has its blob. save_manifest comes after every put, and no blob goes
\* while the backend still lists a file with it.
THEOREM FilesSurvive ==
  ASSUME OneCaller
  PROVE  Spec => []DurableFilesIntact
<1>1. DurableInv => DurableFilesIntact
  BY DEF DurableInv
<1> QED BY <1>1, DurableAlways, PTL

\* The counts that a reopened store would load cover the files it would list: a
\* delete after a crash does not collect a chunk of another file.
THEOREM CountsSurvive ==
  ASSUME OneCaller
  PROVE  Spec => []DurableRefcountCovers
<1>1. DurableInv => DurableRefcountCovers
  BY DEF DurableInv
<1> QED BY <1>1, DurableAlways, PTL

LEMMA DurableReadable == ASSUME DurableInv PROVE FilesReadable
<1>1. ASSUME NEW f \in Files, NEW d \in Needed(manifest[f])
      PROVE  d \in blobs
  <2> DEFINE c == manifest[f]
  <2>1. c # None /\ c \in Contents
    BY <1>1 DEF Needed, DurableInv, WritersInv, TypeInv, TypeOK
  <2>2. c \in Seq(Digests) /\ Len(c) <= MaxChunks
    BY <2>1, StoreAssumption
  <2> HIDE DEF c
  <2>3. PICK i \in DOMAIN c : c[i] = d
    BY <2>1, <1>1 DEF Needed, ChunksOf, c
  <2>4. i \in Positions /\ i <= Len(c) /\ d \in Digests
    BY <2>2, <2>3, StoreAssumption DEF Positions
  <2>5. <<<<"file", f>>, i>> \in FileRefs(d)
    BY <2>1, <2>3, <2>4 DEF FileRefs, c
  <2>6. up
    BY <1>1, <2>1 DEF DurableInv, Down, c
  <2> QED BY <1>1, <2>4, <2>5, <2>6 DEF DurableInv, ClaimsStored, Claims, Refs
<1> QED BY <1>1 DEF FilesReadable, Referenced

\* With one caller, every chunk of a file has its blob: no read fails for want of
\* one, whatever calls have failed and however often the process has died. (Two
\* callers may break this: release_digests unlinks a chunk that another has just
\* found there.)
THEOREM OneCallerReads ==
  ASSUME OneCaller
  PROVE  Spec => []FilesReadable
<1>1. DurableInv => FilesReadable
  BY DurableReadable
<1> QED BY <1>1, DurableAlways, PTL

-------------------------------------------------------------------------------
(* Memory and the backend: as long as no call is cut short, what the two say of *)
(* a file or a count differs only while a call is about to make them agree.     *)

LandingPcs  == {"save_manifest", "man_index_get", "man_index_put", "remove_manifest"}
CountingPcs == SavingPcs \cup {"gc_blob", "gc_refcount"}

FilesMatch == \A f \in Files :
  \/ LoadedFile(f) = manifest[f]
  \/ \E t \in Threads : call[t].pc \in LandingPcs /\ call[t].file = f
CountsMatch == \A d \in Digests :
  \/ LoadedCount(d) = rc[d]
  \/ \E t \in Threads : call[t].pc \in CountingPcs /\ call[t].cur = d

MatchInv == DurableInv /\ (up /\ faults = 0 => FilesMatch /\ CountsMatch)

\* A step that leaves the files alone cannot make them differ, unless it ends the
\* call that was to make them agree.
LEMMA FilesStayMatched ==
  ASSUME OneCaller, FilesMatch, NEW t \in Threads, call[t].pc \notin LandingPcs,
         mrec' = mrec, midx' = midx, manifest' = manifest
  PROVE  FilesMatch'
BY DEF FilesMatch, LoadedFile, OneCaller

LEMMA CountsStayMatched ==
  ASSUME OneCaller, CountsMatch, NEW t \in Threads, call[t].pc \notin CountingPcs,
         rrec' = rrec, ridx' = ridx, rc' = rc
  PROVE  CountsMatch'
BY DEF CountsMatch, LoadedCount, OneCaller

\* A step of a call on f: the other files have not changed, and f agrees or is
\* still to be made to.
LEMMA FileMatched ==
  ASSUME OneCaller, FilesMatch, NEW t \in Threads, NEW f \in Files, call[t].file = f,
         \A g \in Files \ {f} : LoadedFile(g)' = LoadedFile(g) /\ manifest'[g] = manifest[g],
         \/ LoadedFile(f)' = manifest'[f]
         \/ call'[t].pc \in LandingPcs /\ call'[t].file = f
  PROVE  FilesMatch'
<1> SUFFICES ASSUME NEW g \in Files
             PROVE  \/ LoadedFile(g)' = manifest'[g]
                    \/ \E u \in Threads : call'[u].pc \in LandingPcs /\ call'[u].file = g
  BY DEF FilesMatch
<1>1. CASE g = f
  BY <1>1
<1>2. CASE g # f
  BY <1>2 DEF FilesMatch, OneCaller
<1> QED BY <1>1, <1>2

LEMMA CountMatched ==
  ASSUME OneCaller, CountsMatch, NEW t \in Threads, NEW d \in Digests,
         call[t].pc \in CountingPcs => call[t].cur = d,
         \A x \in Digests \ {d} : LoadedCount(x)' = LoadedCount(x) /\ rc'[x] = rc[x],
         \/ LoadedCount(d)' = rc'[d]
         \/ call'[t].pc \in CountingPcs /\ call'[t].cur = d
  PROVE  CountsMatch'
<1> SUFFICES ASSUME NEW x \in Digests
             PROVE  \/ LoadedCount(x)' = rc'[x]
                    \/ \E u \in Threads : call'[u].pc \in CountingPcs /\ call'[u].cur = x
  BY DEF CountsMatch
<1>1. CASE x = d
  BY <1>1
<1>2. CASE x # d
  BY <1>2 DEF CountsMatch, OneCaller
<1> QED BY <1>1, <1>2

\* The steps that change what memory or the backend says of the files.
FileStep(t) == \/ Insert(t) \/ SaveManifest(t) \/ ManIndexGet(t) \/ ManIndexPut(t)
               \/ Remove(t) \/ RemoveManifest(t) \/ RmIndexPut(t)

LEMMA FilesStep ==
  ASSUME OneCaller, TypeInv, FilesMatch, NEW t \in Threads, Local(t), FileStep(t)
  PROVE  FilesMatch'
<1> DEFINE c == call[t]
           f == call[t].file
<1>1. /\ c \in Records /\ WellFormed(c)
      /\ manifest \in [Files -> Contents \cup {None}]
      /\ mrec \in [Files -> Contents \cup {None}]
  BY DEF TypeInv, TypeOK
<1>2. c.pc \in CommitPcs \cup DeletePcs /\ f \in Files
  BY <1>1 DEF FileStep, WellFormed, Insert, SaveManifest, ManIndexGet, ManIndexPut, Remove,
     RemoveManifest, RmIndexPut
<1>3. PICK g \in Files : g = f
  BY <1>2
<1>4. CASE Insert(t)
  <2>1. c.pc = "insert" /\ mrec' = mrec /\ midx' = midx
    BY <1>4 DEF Insert, backend
  <2>2. CASE f \in EmptyIds
    BY <1>4, <2>1, <2>2, FilesStayMatched DEF Insert, LandingPcs
  <2>3. CASE f \notin EmptyIds
    <3>1. /\ Keeps(t) /\ call'[t].pc = "save_manifest"
          /\ manifest' = [manifest EXCEPT ![f] = c.new]
      BY <1>1, <1>4, <2>3, GotoKeeps DEF Insert
    <3> QED BY <1>1, <1>3, <2>1, <3>1, FileMatched DEF LoadedFile, LandingPcs, Keeps
  <2> QED BY <2>2, <2>3
<1>5. CASE SaveManifest(t)
  <2>1. /\ mrec' = [mrec EXCEPT ![f] = c.new] /\ midx' = midx
        /\ manifest' = manifest /\ Keeps(t) /\ call'[t].pc = "man_index_get"
    BY <1>5, GotoKeeps DEF SaveManifest, memory
  <2> QED BY <1>1, <1>3, <2>1, FileMatched DEF LoadedFile, LandingPcs, Keeps
<1>6. CASE ManIndexGet(t)
  <2>1. /\ c.pc = "man_index_get" /\ mrec' = mrec /\ midx' = midx /\ manifest' = manifest
    BY <1>6 DEF ManIndexGet, backend, memory
  <2>2. CASE f \in midx
    <3>1. manifest[f] = c.new /\ mrec[f] = c.new
      BY <2>1 DEF Local, FileSaved
    <3> QED BY <1>3, <2>1, <2>2, <3>1, FileMatched DEF LoadedFile
  <2>3. CASE f \notin midx
    <3>1. Keeps(t) /\ call'[t].pc = "man_index_put"
      BY <1>6, <2>3, SeenKeeps DEF ManIndexGet
    <3> QED BY <1>3, <2>1, <3>1, FileMatched DEF LoadedFile, LandingPcs, Keeps
  <2> QED BY <2>2, <2>3
<1>7. CASE ManIndexPut(t)
  <2>1. /\ c.pc = "man_index_put" /\ midx' = midx \cup {f} /\ mrec' = mrec
        /\ manifest' = manifest
    BY <1>7 DEF ManIndexPut, memory, IndexWith, Local, FileSaved
  <2>2. manifest[f] = c.new /\ mrec[f] = c.new
    BY <2>1 DEF Local, FileSaved
  <2> QED BY <1>3, <2>1, <2>2, FileMatched DEF LoadedFile
<1>8. CASE Remove(t)
  <2>1. c.pc = "remove" /\ mrec' = mrec /\ midx' = midx
    BY <1>8 DEF Remove, backend
  <2>2. CASE manifest[f] = None
    BY <1>8, <2>1, <2>2, FilesStayMatched DEF Remove, LandingPcs
  <2>3. CASE manifest[f] # None
    <3> DEFINE r == [c EXCEPT !.pc = "remove_manifest", !.old = manifest[f]]
    <3>1. manifest' = [manifest EXCEPT ![f] = None] /\ call'[t] = r
      BY <1>8, <2>3, GoesOn DEF Remove
    <3>2. call'[t].pc = "remove_manifest" /\ call'[t].file = f
      BY <1>1, <3>1 DEF Records
    <3> HIDE DEF r
    <3> QED BY <1>1, <1>3, <2>1, <3>1, <3>2, FileMatched DEF LoadedFile, LandingPcs
  <2> QED BY <2>2, <2>3
<1>9. CASE RemoveManifest(t)
  <2>1. /\ c.pc = "remove_manifest" /\ mrec' = [mrec EXCEPT ![f] = None] /\ midx' = midx
        /\ manifest' = manifest
    BY <1>9 DEF RemoveManifest, memory
  <2>2. manifest[f] = None
    BY <2>1 DEF Local, FileSaved
  <2> QED BY <1>1, <1>3, <2>1, <2>2, FileMatched DEF LoadedFile
<1>10. CASE RmIndexPut(t)
  <2>1. /\ c.pc = "rm_index_put" /\ midx' = midx \ {f} /\ mrec' = mrec /\ manifest' = manifest
    BY <1>10 DEF RmIndexPut, memory, Local, FileSaved
  <2>2. manifest[f] = None
    BY <2>1 DEF Local, FileSaved
  <2> QED BY <1>3, <2>1, <2>2, FileMatched DEF LoadedFile
<1> QED BY <1>4, <1>5, <1>6, <1>7, <1>8, <1>9, <1>10 DEF FileStep

\* The steps that change what memory or the backend says of the counts.
CountStep(t) == \/ Increment(t) \/ SaveRefcount(t) \/ RefIndexGet(t) \/ RefIndexPut(t)
                \/ Decrement(t) \/ GcBlob(t) \/ GcRefcount(t) \/ GcIndexPut(t)

LEMMA CountsStep ==
  ASSUME OneCaller, TypeInv, CountsMatch, NEW t \in Threads, Local(t), CountStep(t)
  PROVE  CountsMatch'
<1> DEFINE c == call[t]
<1>1. /\ c \in Records /\ WellFormed(c)
      /\ rc \in [Digests -> Nat] /\ rrec \in [Digests -> Nat]
  BY DEF TypeInv, TypeOK
<1>2. CASE Increment(t)
  <2> DEFINE D == Chunk(t)
             r == [c EXCEPT !.pc = "save_refcount", !.done = @ + 1,
                            !.cur = D, !.count = Incremented(D)]
  <2>1. /\ c.pc = "increment" /\ rrec' = rrec /\ ridx' = ridx
        /\ rc' = [rc EXCEPT ![D] = @ + 1] /\ D \in Digests
    BY <1>2, ChunkType DEF Increment, backend
  <2>2. call'[t] = r
    BY <1>2, GoesOn DEF Increment
  <2>3. call'[t].pc = "save_refcount" /\ call'[t].cur = D
    BY <1>1, <2>2 DEF Records
  <2> HIDE DEF r, D
  <2>4. PICK d \in Digests : d = D
    BY <2>1
  <2> QED BY <1>1, <2>1, <2>3, <2>4, CountMatched DEF CountingPcs, SavingPcs, LoadedCount
<1>3. CASE SaveRefcount(t) \/ RefIndexGet(t) \/ RefIndexPut(t)
  <2>1. c.pc \in SavingPcs /\ c.cur \in Digests /\ rc' = rc
    BY <1>1, <1>3 DEF WellFormed, SavingPcs, SaveRefcount, RefIndexGet, RefIndexPut, memory
  <2>2. PICK d \in Digests : d = c.cur
    BY <2>1
  <2>3. c.count = rc[d] /\ (c.pc # "save_refcount" => rrec[d] = rc[d])
    BY <2>1, <2>2 DEF Local, CountSaved, SavingPcs
  <2>4. CASE SaveRefcount(t)
    <3>1. /\ rrec' = [rrec EXCEPT ![d] = c.count] /\ ridx' = ridx
          /\ Keeps(t) /\ call'[t].pc = "index_get"
      BY <2>2, <2>4, GotoKeeps DEF SaveRefcount
    <3> QED BY <1>1, <2>1, <2>2, <3>1, CountMatched DEF CountingPcs, SavingPcs, LoadedCount, Keeps
  <2>5. CASE RefIndexGet(t)
    <3>1. rrec' = rrec /\ ridx' = ridx /\ c.pc = "index_get"
      BY <2>5 DEF RefIndexGet, backend
    <3>2. CASE d \in ridx
      BY <2>1, <2>2, <2>3, <3>1, <3>2, CountMatched DEF LoadedCount
    <3>3. CASE d \notin ridx
      <4>1. Keeps(t) /\ call'[t].pc = "index_put"
        BY <2>2, <2>5, <3>3, SeenKeeps DEF RefIndexGet
      <4> QED BY <2>1, <2>2, <3>1, <4>1, CountMatched DEF CountingPcs, SavingPcs, LoadedCount, Keeps
    <3> QED BY <3>2, <3>3
  <2>6. CASE RefIndexPut(t)
    <3>1. rrec' = rrec /\ ridx' = ridx \cup {d} /\ c.pc = "index_put"
      BY <2>2, <2>6 DEF RefIndexPut, IndexWith, Local, CountSaved
    <3> QED BY <2>1, <2>2, <2>3, <3>1, CountMatched DEF LoadedCount
  <2> QED BY <1>3, <2>4, <2>5, <2>6
<1>4. CASE Decrement(t)
  <2> DEFINE D == OldChunk(t)
             p == IF LastReference(D) THEN "gc_blob" ELSE "save_refcount"
             r == [c EXCEPT !.pc = p, !.released = @ + 1, !.cur = D, !.count = Remaining(D)]
  <2>1. c.pc = "decrement" /\ rrec' = rrec /\ ridx' = ridx /\ D \in Digests
    BY <1>4, ChunkType DEF Decrement, backend
  <2>2. CASE rc[D] = 0
    BY <1>4, <2>1, <2>2, CountsStayMatched DEF Decrement, CountingPcs, SavingPcs
  <2>3. CASE rc[D] # 0
    <3>1. rc' = [rc EXCEPT ![D] = @ - 1] /\ call'[t] = r
      BY <1>4, <2>3, GoesOn DEF Decrement
    <3>2. call'[t].pc = p /\ call'[t].cur = D
      BY <1>1, <3>1 DEF Records
    <3>3. p \in {"gc_blob", "save_refcount"}
      OBVIOUS
    <3> HIDE DEF r, D, p
    <3>4. PICK d \in Digests : d = D
      BY <2>1
    <3> QED BY <1>1, <2>1, <3>1, <3>2, <3>3, <3>4, CountMatched DEF CountingPcs, SavingPcs, LoadedCount
  <2> QED BY <2>2, <2>3
<1>5. CASE GcBlob(t) \/ GcRefcount(t) \/ GcIndexPut(t)
  <2>1. c.pc \in CollectPcs /\ c.cur \in Digests /\ rc' = rc
    BY <1>1, <1>5 DEF WellFormed, CollectPcs, GcBlob, GcRefcount, GcIndexPut, memory
  <2>2. PICK d \in Digests : d = c.cur
    BY <2>1
  <2>3. rc[d] = 0
    BY <2>1, <2>2 DEF Local, CountSaved
  <2>4. CASE GcBlob(t)
    <3>1. /\ rrec' = rrec /\ ridx' = ridx /\ Keeps(t) /\ call'[t].pc = "gc_refcount"
      BY <2>4, GotoKeeps DEF GcBlob
    <3> QED BY <2>1, <2>2, <3>1, CountMatched DEF CountingPcs, LoadedCount, Keeps
  <2>5. CASE GcRefcount(t)
    <3>1. rrec' = [rrec EXCEPT ![d] = 0] /\ ridx' = ridx
      BY <2>2, <2>5 DEF GcRefcount
    <3> QED BY <1>1, <2>1, <2>2, <2>3, <3>1, CountMatched DEF LoadedCount
  <2>6. CASE GcIndexPut(t)
    <3>1. rrec' = rrec /\ ridx' = ridx \ {d}
      BY <2>2, <2>6 DEF GcIndexPut, Local, CountSaved
    <3> QED BY <2>1, <2>2, <2>3, <3>1, CountMatched DEF LoadedCount
  <2> QED BY <1>5, <2>4, <2>5, <2>6
<1> QED BY <1>2, <1>3, <1>4, <1>5 DEF CountStep

LEMMA OtherStepsMatched ==
  ASSUME TypeInv, NEW t \in Threads, Step(t) \/ Fail(t) \/ BeginCall(t)
  PROVE  /\ ~FileStep(t) /\ ~Fail(t) =>
              /\ mrec' = mrec /\ midx' = midx /\ manifest' = manifest
              /\ call[t].pc \notin LandingPcs
         /\ ~CountStep(t) /\ ~Fail(t) =>
              /\ rrec' = rrec /\ ridx' = ridx /\ rc' = rc
              /\ call[t].pc \notin CountingPcs
<1> USE DEF backend, memory, LandingPcs, CountingPcs, SavingPcs
<1>1. CASE BeginCall(t)
  BY <1>1 DEF BeginCall, BeginIngest, BeginDelete, BeginRead, BeginRepair, Begin, Busy
<1>2. CASE StoreExists(t) \/ StorePut(t) \/ Increment(t)
  BY <1>2 DEF StoreExists, StorePut, Increment, CountStep
<1>3. CASE SaveRefcount(t) \/ RefIndexGet(t) \/ RefIndexPut(t)
  BY <1>3 DEF SaveRefcount, RefIndexGet, RefIndexPut, CountStep
<1>4. CASE \/ Peek(t) \/ Insert(t) \/ SaveManifest(t) \/ ManIndexGet(t) \/ ManIndexPut(t)
           \/ Remove(t) \/ RemoveManifest(t) \/ RmIndexGet(t) \/ RmIndexPut(t)
  BY <1>4 DEF Peek, Insert, SaveManifest, ManIndexGet, ManIndexPut, Remove, RemoveManifest,
     RmIndexGet, RmIndexPut, FileStep
<1>5. CASE \/ Size(t) \/ Decrement(t) \/ GcBlob(t) \/ GcRefcount(t) \/ GcIndexGet(t)
           \/ GcIndexPut(t)
  BY <1>5 DEF Size, Decrement, GcBlob, GcRefcount, GcIndexGet, GcIndexPut, CountStep
<1>6. CASE Lookup(t) \/ Fetch(t) \/ FsckLive(t) \/ FsckList(t) \/ FsckUnlink(t)
  BY <1>6 DEF Lookup, Fetch, FsckLive, FsckList, FsckUnlink
<1> QED BY <1>1, <1>2, <1>3, <1>4, <1>5, <1>6 DEF Step

\* Who moves tells what the bounds count.
LEMMA BoundsCount ==
  ASSUME TypeInv, NEW t \in Threads, Step(t) \/ Fail(t) \/ BeginCall(t)
  PROVE  /\ faults' = 0 => faults = 0 /\ ~Fail(t)
         /\ crashes' = crashes
<1>1. /\ crashes' = crashes
      /\ faults' \in {faults, faults + 1} /\ (Fail(t) => faults' = faults + 1)
  BY DEF Step, Fail, bounds, StoreExists, StorePut, Increment, SaveRefcount, RefIndexGet,
     RefIndexPut, Peek, Insert, SaveManifest, ManIndexGet, ManIndexPut, Remove, RemoveManifest,
     RmIndexGet, RmIndexPut, Size, Decrement, GcBlob, GcRefcount, GcIndexGet, GcIndexPut,
     Lookup, Fetch, FsckLive, FsckList, FsckUnlink, BeginCall, BeginIngest, BeginDelete,
     BeginRead, BeginRepair, Begin
<1>2. faults \in Nat
  BY DEF TypeInv, TypeOK
<1> QED BY <1>1, <1>2

LEMMA MatchStep ==
  ASSUME OneCaller, MatchInv, [Next]_vars
  PROVE  MatchInv'
<1>1. DurableInv /\ DurableInv' /\ TypeInv
  BY DurableStep DEF MatchInv, DurableInv, WritersInv
<1>2. SUFFICES ASSUME up', faults' = 0
               PROVE  FilesMatch' /\ CountsMatch'
  BY <1>1 DEF MatchInv
<1>3. CASE \E t \in Threads : BeginCall(t) \/ Step(t) \/ Fail(t)
  <2>1. PICK t \in Threads : BeginCall(t) \/ Step(t) \/ Fail(t)
    BY <1>3
  <2>2. faults = 0 /\ ~Fail(t)
    BY <1>1, <1>2, <2>1, BoundsCount
  <2>3. up
    BY <2>1, <2>2, <1>1, <1>2 DEF Step, backend, memory, locks, StoreExists, StorePut, Increment, SaveRefcount,
     RefIndexGet, RefIndexPut, Peek, Insert, SaveManifest, ManIndexGet, ManIndexPut, Remove,
     RemoveManifest, RmIndexGet, RmIndexPut, Size, Decrement, GcBlob, GcRefcount, GcIndexGet,
     GcIndexPut, Lookup, Fetch, FsckLive, FsckList, FsckUnlink, BeginCall, BeginIngest,
     BeginDelete, BeginRead, BeginRepair, Begin
  <2>4. Local(t) /\ FilesMatch /\ CountsMatch
    BY <2>2, <2>3 DEF MatchInv, DurableInv
  <2>5. FilesMatch'
    <3>1. CASE FileStep(t)
      BY <1>1, <2>4, <3>1, FilesStep
    <3>2. CASE ~FileStep(t)
      BY <1>1, <2>1, <2>2, <2>4, <3>2, OtherStepsMatched, FilesStayMatched
    <3> QED BY <3>1, <3>2
  <2>6. CountsMatch'
    <3>1. CASE CountStep(t)
      BY <1>1, <2>4, <3>1, CountsStep
    <3>2. CASE ~CountStep(t)
      BY <1>1, <2>1, <2>2, <2>4, <3>2, OtherStepsMatched, CountsStayMatched
    <3> QED BY <3>1, <3>2
  <2> QED BY <2>5, <2>6
<1>4. CASE Crash
  BY <1>2, <1>4 DEF Crash
<1>5. CASE Open
  <2>1. /\ UNCHANGED <<mrec, midx, rrec, ridx>>
        /\ manifest' = [f \in Files |-> LoadedFile(f)]
        /\ rc' = [d \in Digests |-> LoadedCount(d)]
    BY <1>5 DEF Open, backend
  <2> QED BY <2>1 DEF FilesMatch, CountsMatch, LoadedFile, LoadedCount
<1>6. CASE UNCHANGED vars
  <2>1. UNCHANGED <<mrec, midx, rrec, ridx, manifest, rc, call, up, faults>>
    BY <1>6 DEF vars, backend, memory, bounds
  <2>2. FilesMatch /\ CountsMatch
    BY <1>2, <2>1 DEF MatchInv
  <2> QED BY <2>1, <2>2 DEF FilesMatch, CountsMatch, LoadedFile, LoadedCount
<1> QED BY <1>3, <1>4, <1>5, <1>6 DEF Next, Rest

LEMMA MatchAlways ==
  ASSUME OneCaller
  PROVE  Spec => []MatchInv
<1>1. Init => MatchInv
  BY DurableInit DEF Init, MatchInv, FilesMatch, CountsMatch, LoadedFile, LoadedCount
<1>2. MatchInv /\ [Next]_vars => MatchInv'
  BY MatchStep
<1> QED BY <1>1, <1>2, PTL DEF Spec

\* Between the calls of one caller, as long as none has been cut short, the
\* backend lists the files that memory does, crashes or not: dying there loses and
\* brings back nothing.
THEOREM ManifestSurvives ==
  ASSUME OneCaller
  PROVE  Spec => []DurableManifestMatches
<1>1. MatchInv => DurableManifestMatches
  BY DEF MatchInv, FilesMatch, DurableManifestMatches, Quiet, Busy, LandingPcs
<1> QED BY <1>1, MatchAlways, PTL

\* And it counts what memory does: nobody adds to a count that has to be lowered
\* again after reopening.
THEOREM CountsStaySame ==
  ASSUME OneCaller
  PROVE  Spec => []DurableCountsMatch
<1>1. MatchInv => DurableCountsMatch
  BY DEF MatchInv, CountsMatch, DurableCountsMatch, Quiet, Busy, CountingPcs, SavingPcs
<1> QED BY <1>1, MatchAlways, PTL

-------------------------------------------------------------------------------
(* Garbage collection is complete: as long as no call is cut short and the      *)
(* process lives, a blob that nobody counts is in the hands of a call, which is *)
(* about to count it or to delete it; and what is counted is referred to.       *)

InHand(d) == \E t \in Threads : \/ call[t].pc = "increment" /\ Chunk(t) = d
                                \/ call[t].pc = "gc_blob" /\ call[t].cur = d

NothingWasted  == \A d \in blobs : rc[d] > 0 \/ InHand(d)
CountsExactly  == \A d \in Digests : Cardinality(Refs(d)) = rc[d]

CollectInv == /\ DurableInv
              /\ ~up => crashes > 0
              /\ faults = 0 /\ crashes = 0 => NothingWasted /\ CountsExactly

\* The steps that change which blobs there are or what is counted of them.
BlobStep(t) == \/ StoreExists(t) \/ StorePut(t) \/ Increment(t) \/ Decrement(t)
               \/ GcBlob(t) \/ FsckUnlink(t)

LEMMA WasteStep ==
  ASSUME OneCaller, TypeInv, NothingWasted, NEW t \in Threads, BlobStep(t)
  PROVE  NothingWasted'
<1> DEFINE c == call[t]
<1>1. /\ c \in Records /\ WellFormed(c)
      /\ rc \in [Digests -> Nat] /\ blobs \subseteq Digests
  BY DEF TypeInv, TypeOK
<1>2. c.pc \notin {"increment", "gc_blob"} => \A d \in blobs : rc[d] > 0
  BY DEF NothingWasted, InHand, OneCaller
<1>3. CASE StoreExists(t)
  BY <1>2, <1>3 DEF StoreExists, backend, memory, NothingWasted
<1>4. CASE StorePut(t)
  <2>1. /\ Keeps(t) /\ call'[t].pc = "increment" /\ c.pc = "put"
        /\ blobs' = blobs \cup {Chunk(t)} /\ rc' = rc
    BY <1>4, GotoKeeps DEF StorePut, memory
  <2>2. PICK e : e = Chunk(t) /\ e = Chunk(t)'
    BY <2>1 DEF Chunk, Keeps
  <2>3. InHand(e)'
    BY <2>1, <2>2 DEF InHand
  <2>4. \A d \in blobs' : rc'[d] > 0 \/ d = e
    BY <1>2, <2>1, <2>2
  <2> QED BY <2>3, <2>4 DEF NothingWasted
<1>5. CASE Increment(t)
  <2>1. /\ c.pc = "increment" /\ blobs' = blobs /\ Chunk(t) \in Digests
        /\ rc' = [rc EXCEPT ![Chunk(t)] = @ + 1]
    BY <1>5, ChunkType DEF Increment, backend
  <2>2. ASSUME NEW d \in blobs PROVE rc'[d] > 0
    <3>1. CASE d = Chunk(t)
      BY <1>1, <2>1, <3>1
    <3>2. CASE d # Chunk(t)
      BY <1>1, <2>1, <3>2 DEF NothingWasted, InHand, OneCaller
    <3> QED BY <3>1, <3>2
  <2> QED BY <2>1, <2>2 DEF NothingWasted
<1>6. CASE Decrement(t)
  <2> DEFINE D == OldChunk(t)
             p == IF LastReference(D) THEN "gc_blob" ELSE "save_refcount"
             r == [c EXCEPT !.pc = p, !.released = @ + 1, !.cur = D, !.count = Remaining(D)]
  <2>1. c.pc = "decrement" /\ blobs' = blobs /\ D \in Digests
    BY <1>6, ChunkType DEF Decrement, backend
  <2>2. CASE rc[D] = 0
    BY <1>2, <1>6, <2>1, <2>2 DEF Decrement, NothingWasted
  <2>3. CASE rc[D] # 0
    <3>1. rc' = [rc EXCEPT ![D] = @ - 1] /\ call'[t] = r
      BY <1>6, <2>3, GoesOn DEF Decrement
    <3>2. call'[t].pc = p /\ call'[t].cur = D
      BY <1>1, <3>1 DEF Records
    <3>3. rc[D] = 1 => p = "gc_blob"
      BY DEF LastReference
    <3> HIDE DEF r, D, p
    <3>4. ASSUME NEW d \in blobs, rc'[d] = 0 PROVE d = D /\ rc[D] = 1
      BY <1>1, <1>2, <2>1, <2>3, <3>1, <3>4
    <3>5. \A d \in blobs : rc'[d] \in Nat
      BY <1>1, <2>1, <2>3, <3>1
    <3>6. ASSUME NEW d \in blobs PROVE rc'[d] > 0 \/ InHand(d)'
      <4>1. CASE rc'[d] = 0
        <5>1. d = D /\ rc[D] = 1
          BY <3>4, <4>1
        <5>2. call'[t].pc = "gc_blob" /\ call'[t].cur = d
          BY <3>2, <3>3, <5>1
        <5> QED BY <5>2 DEF InHand
      <4>2. CASE rc'[d] # 0
        BY <3>5, <4>2
      <4> QED BY <4>1, <4>2
    <3> QED BY <2>1, <3>6 DEF NothingWasted
  <2> QED BY <2>2, <2>3
<1>7. CASE GcBlob(t)
  BY <1>7 DEF GcBlob, memory, NothingWasted, InHand, OneCaller
<1>8. CASE FsckUnlink(t)
  BY <1>2, <1>8 DEF FsckUnlink, memory, NothingWasted
<1> QED BY <1>3, <1>4, <1>5, <1>6, <1>7, <1>8 DEF BlobStep

LEMMA OtherStepsWasteNothing ==
  ASSUME OneCaller, TypeInv, NothingWasted, NEW t \in Threads, Step(t) \/ BeginCall(t),
         ~BlobStep(t)
  PROVE  NothingWasted'
<1>1. blobs' = blobs /\ rc' = rc /\ call[t].pc \notin {"increment", "gc_blob"}
  <2> USE DEF backend, memory
  <2>1. CASE BeginCall(t)
    BY <2>1 DEF BeginCall, BeginIngest, BeginDelete, BeginRead, BeginRepair, Begin, Busy
  <2>2. CASE SaveRefcount(t) \/ RefIndexGet(t) \/ RefIndexPut(t)
    BY <2>2 DEF SaveRefcount, RefIndexGet, RefIndexPut
  <2>3. CASE \/ Peek(t) \/ Insert(t) \/ SaveManifest(t) \/ ManIndexGet(t) \/ ManIndexPut(t)
             \/ Remove(t) \/ RemoveManifest(t) \/ RmIndexGet(t) \/ RmIndexPut(t)
    BY <2>3 DEF Peek, Insert, SaveManifest, ManIndexGet, ManIndexPut, Remove, RemoveManifest,
       RmIndexGet, RmIndexPut
  <2>4. CASE \/ Size(t) \/ GcRefcount(t) \/ GcIndexGet(t) \/ GcIndexPut(t)
             \/ Lookup(t) \/ Fetch(t) \/ FsckLive(t) \/ FsckList(t)
    BY <2>4 DEF Size, GcRefcount, GcIndexGet, GcIndexPut, Lookup, Fetch, FsckLive, FsckList
  <2> QED BY <2>1, <2>2, <2>3, <2>4 DEF Step, BlobStep
<1> QED BY <1>1 DEF NothingWasted, InHand, OneCaller

\* Every chunk in use has a size that chunk_size finds, in its entry or in its blob.
SizesKnown == \A d \in Digests : Refs(d) # {} => SizeOf[d] > 0 \/ d \in blobs

\* A store that is open keeps every chunk in use.
LEMMA OpenCovers == ASSUME DurableInv, up PROVE CoverInv /\ SizesKnown
<1>1. ASSUME NEW d \in Digests PROVE Cardinality(Refs(d)) <= rc[d]
  <2>1. /\ Cardinality(Refs(d)) \in Nat /\ Cardinality(DiskRefs(d)) \in Nat
        /\ Cardinality(Claims(d)) = Cardinality(Refs(d)) + Cardinality(DiskRefs(d))
    BY ClaimsFinite DEF ClaimsCounted
  <2>2. Cardinality(Claims(d)) <= rc[d] /\ rc[d] \in Nat
    BY DEF DurableInv, ClaimsCovered, WritersInv, TypeInv, TypeOK
  <2> QED BY <2>1, <2>2
<1>2. SizesKnown
  BY DEF DurableInv, ClaimsStored, Claims, SizesKnown
<1> QED BY <1>1, <1>2 DEF CoverInv, RefcountCovers, DurableInv

LEMMA CollectStep ==
  ASSUME OneCaller, CollectInv, [Next]_vars
  PROVE  CollectInv'
<1>1. /\ DurableInv /\ DurableInv' /\ TypeInv /\ TypeInv' /\ WritersInv
      /\ faults \in Nat /\ crashes \in Nat
  BY DurableStep DEF CollectInv, DurableInv, WritersInv, TypeInv, TypeOK
<1>2. CASE \E t \in Threads : BeginCall(t) \/ Step(t) \/ Fail(t)
  <2>1. PICK t \in Threads : BeginCall(t) \/ Step(t) \/ Fail(t)
    BY <1>2
  <2>2. up' = up
    BY <1>1, <2>1, RunningThread DEF OneCaller, WritersApart
  <2>3. crashes' = crashes
    BY <1>1, <2>1, BoundsCount
  <2>4. ASSUME faults' = 0, crashes' = 0 PROVE NothingWasted' /\ CountsExactly'
    <3>1. faults = 0 /\ ~Fail(t) /\ crashes = 0
      BY <1>1, <2>1, <2>3, <2>4, BoundsCount
    <3>2. up /\ NothingWasted /\ CountsExactly
      BY <3>1 DEF CollectInv
    <3>3. CoverInv /\ SizesKnown
      BY <1>1, <3>2, OpenCovers
    <3>4. NothingWasted'
      BY <1>1, <2>1, <3>1, <3>2, WasteStep, OtherStepsWasteNothing
    <3>5. ASSUME NEW d \in Digests PROVE Balanced(d)
      <4>1. CASE Step(t)
        BY <1>1, <2>4, <3>1, <3>3, <4>1, ExactMove
      <4>2. CASE BeginCall(t)
        BY <1>1, <4>2, BeginStep DEF OneCaller, WritersApart
      <4> QED BY <2>1, <3>1, <4>1, <4>2
    <3>6. ASSUME NEW d \in Digests PROVE Cardinality(Refs(d)') = rc'[d]
      <4>1. Balanced(d) /\ Cardinality(Refs(d)) = rc[d]
        BY <3>2, <3>5 DEF CountsExactly
      <4> QED BY <1>1, <4>1, Counting DEF Balanced
    <3> QED BY <3>4, <3>6 DEF CountsExactly
  <2> QED BY <1>1, <2>2, <2>3, <2>4 DEF CollectInv
<1>3. CASE Crash
  BY <1>1, <1>3 DEF Crash, CollectInv
<1>4. CASE Open
  BY <1>1, <1>4 DEF Open, CollectInv, bounds
<1>5. CASE UNCHANGED vars
  <2>1. UNCHANGED <<blobs, manifest, rc, call, up, faults, crashes>>
    BY <1>5 DEF vars, backend, memory, bounds
  <2>2. \A d : Refs(d)' = Refs(d)
    BY <2>1 DEF Refs, FileRefs, HeldRefs, OwedRefs, Uncommitted
  <2>3. (NothingWasted' <=> NothingWasted) /\ (CountsExactly' <=> CountsExactly)
    BY <2>1, <2>2 DEF NothingWasted, InHand, CountsExactly, Chunk
  <2> QED BY <1>1, <2>1, <2>3 DEF CollectInv
<1> QED BY <1>2, <1>3, <1>4, <1>5 DEF Next, Rest

LEMMA CollectInit == Init => CollectInv
<1> SUFFICES ASSUME Init PROVE CollectInv
  OBVIOUS
<1>1. DurableInv /\ \A d \in Digests : Refs(d) = {} /\ rc[d] = 0
  BY DurableInit, WritersInit DEF Init
<1>2. NothingWasted /\ up
  BY DEF Init, NothingWasted
<1>3. CountsExactly
  BY <1>1, FS_EmptySet DEF CountsExactly
<1> QED BY <1>1, <1>2, <1>3 DEF CollectInv

LEMMA CollectedAll == ASSUME CollectInv PROVE NoGarbage
<1> SUFFICES ASSUME Undisturbed, NEW d \in blobs PROVE d \in Referenced
  BY DEF NoGarbage
<1>1. /\ NothingWasted /\ CountsExactly /\ \A t \in Threads : call[t].pc = "idle"
  BY DEF CollectInv, Undisturbed, Quiet, Busy
<1>2. /\ d \in Digests /\ rc[d] > 0 /\ TypeInv
  BY <1>1 DEF NothingWasted, InHand, CollectInv, DurableInv, WritersInv, TypeInv, TypeOK
<1>3. Refs(d) # {}
  BY <1>1, <1>2, FS_EmptySet DEF CountsExactly
<1>4. HeldRefs(d) = {}
  BY <1>1 DEF HeldRefs, Uncommitted
<1>5. ASSUME NEW y \in OwedRefs(d) PROVE FALSE
  <2>1. PICK t \in Threads : t = y[1][2]
    BY DEF OwedRefs
  <2>2. call[t].old = <<>>
    BY <1>1, <1>2 DEF TypeInv, WellFormed
  <2>3. y[2] \in Nat /\ y[2] > 0 /\ y[2] <= Len(<<>>)
    BY <2>1, <2>2 DEF OwedRefs, Positions
  <2> QED BY <2>3
<1>6. PICK y : y \in FileRefs(d)
  BY <1>3, <1>4, <1>5 DEF Refs
<1>7. PICK f \in Files, i \in Positions :
        manifest[f] # None /\ i <= Len(manifest[f]) /\ manifest[f][i] = d
  BY <1>6 DEF FileRefs
<1>8. manifest[f] \in Seq(Digests)
  BY <1>2, <1>7, StoreAssumption DEF TypeInv, TypeOK
<1>9. i \in DOMAIN manifest[f]
  BY <1>7, <1>8, StoreAssumption DEF Positions
<1> QED BY <1>7, <1>9 DEF Referenced, Needed, ChunksOf

\* Garbage collection is complete: between calls that have all run to their end,
\* every blob belongs to a file. An ingest that replaces a file and a delete
\* release every chunk, and collect each that nobody else counts.
THEOREM CollectsAll ==
  ASSUME OneCaller
  PROVE  Spec => []NoGarbage
<1>1. CollectInv => NoGarbage
  BY CollectedAll
<1>2. CollectInv /\ [Next]_vars => CollectInv'
  BY CollectStep
<1> QED BY <1>1, <1>2, CollectInit, PTL DEF Spec

-------------------------------------------------------------------------------
(* How a call goes on: what each phase of it does to the files, and how it can  *)
(* end.                                                                         *)

SameCall(t) == call'[t].op = call[t].op /\ call'[t].file = call[t].file

FilesAlone == UNCHANGED <<manifest, mrec, midx>>

\* The call has nothing left to do but to release chunks.
Freeing(t) == \/ call[t].pc \in ReleasePcs
              \/ call[t].pc \in SavingPcs /\ call[t].released > 0

\* The chunk that the call is about to release is counted, the one it is about to
\* stream is there: it does not end with an error that is nobody's fault.
NoError(t) ==
  /\ call[t].pc = "decrement" => rc[OldChunk(t)] > 0
  /\ call[t].pc = "lookup" => call[t].new = <<>>
  /\ call[t].pc = "fetch" => Chunk(t) \in blobs

\* chunk_size finds no size, which cuts the call short.
Unsized(t) == Size(t) /\ faults' # faults

LEMMA ReturnLeaves ==
  ASSUME TypeInv, NEW t \in Threads, NEW res, Return(t, res)
  PROVE  /\ call'[t].pc = "idle" /\ SameCall(t) /\ call'[t].result = res
         /\ call[t].op = "read" /\ res = "ok" => call'[t].new = call[t].new
<1> DEFINE n == IF call[t].op = "read" /\ res = "ok" THEN call[t].new ELSE <<>>
           r == Returned(t, res)
<1>1. r.pc = "idle" /\ r.op = call[t].op /\ r.file = call[t].file /\ r.result = res /\ r.new = n
  BY DEF Returned, Idle
<1>2. call'[t] = r
  BY GoesOn DEF Return
<1> HIDE DEF r
<1> QED BY <1>1, <1>2 DEF SameCall

\* release_digests goes on with a chunk or ends its call well.
LEMMA RestLeaves ==
  ASSUME TypeInv, NEW t \in Threads, ReleaseRest(t)
  PROVE  /\ SameCall(t)
         /\ \/ Return(t, "ok")
            \/ Keeps(t) /\ call'[t].pc = "size"
<1>1. CASE call[t].released < Len(call[t].old)
  BY <1>1, GotoKeeps DEF ReleaseRest, Keeps, SameCall
<1>2. CASE ~(call[t].released < Len(call[t].old))
  BY <1>2, ReturnLeaves DEF ReleaseRest
<1> QED BY <1>1, <1>2

LEMMA StoringGoes ==
  ASSUME TypeInv, NEW t \in Threads, Uncommitted(t), Step(t), ~Insert(t)
  PROVE  /\ FilesAlone /\ faults' = faults
         /\ SameCall(t) /\ call'[t].new = call[t].new /\ call'[t].released = 0
         /\ call'[t].pc \in StorePcs \cup {"peek", "insert"}
         /\ call'[t].old = IF call[t].pc = "peek" THEN ContentOf(call[t].file) ELSE call[t].old
<1> DEFINE c == call[t]
<1>1. c \in Records /\ c.op = "ingest" /\ c.released = 0 /\ c.pc \in StorePcs \cup {"peek", "insert"}
  BY DEF TypeInv, TypeOK, Uncommitted
<1>2. ASSUME Keeps(t), call'[t].pc \in StorePcs \cup {"peek", "insert"}, c.pc # "peek"
      PROVE  /\ SameCall(t) /\ call'[t].new = call[t].new /\ call'[t].released = 0
             /\ call'[t].pc \in StorePcs \cup {"peek", "insert"}
             /\ call'[t].old = IF c.pc = "peek" THEN ContentOf(c.file) ELSE c.old
  BY <1>1, <1>2 DEF Keeps, SameCall
<1>3. CASE StoreExists(t)
  <2>1. FilesAlone /\ faults' = faults /\ c.pc = "exists"
    BY <1>3 DEF StoreExists, backend, memory, bounds, FilesAlone
  <2>2. PICK p \in {"increment", "put"}, x \in BOOLEAN :
               Become(t, [c EXCEPT !.pc = p, !.existed = x])
    BY <1>3 DEF StoreExists
  <2>3. call'[t] = [c EXCEPT !.pc = p, !.existed = x]
    BY <2>2, GoesOn
  <2>4. Keeps(t) /\ call'[t].pc = p
    BY <1>1, <2>3 DEF Records, Keeps
  <2> QED BY <1>2, <2>1, <2>4
<1>4. CASE StorePut(t)
  <2>1. FilesAlone /\ faults' = faults /\ c.pc = "put"
    BY <1>4 DEF StorePut, memory, bounds, FilesAlone
  <2> QED BY <1>2, <1>4, <2>1, GotoKeeps DEF StorePut
<1>5. CASE Increment(t)
  <2> DEFINE D == Chunk(t)
             n == Incremented(D)
             r == [c EXCEPT !.pc = "save_refcount", !.done = @ + 1, !.cur = D, !.count = n]
  <2>1. FilesAlone /\ faults' = faults /\ call'[t] = r /\ c.pc = "increment"
    BY <1>5, GoesOn DEF Increment, backend, bounds, FilesAlone
  <2> HIDE DEF D, n
  <2>2. /\ r.pc = "save_refcount" /\ r.op = c.op /\ r.file = c.file /\ r.new = c.new
        /\ r.old = c.old /\ r.released = c.released
    BY <1>1 DEF Records
  <2> HIDE DEF r
  <2> QED BY <1>1, <2>1, <2>2 DEF SameCall
<1>6. RefcountSaved(t) => Keeps(t) /\ call'[t].pc \in {"exists", "peek"}
  BY <1>1, GotoKeeps DEF RefcountSaved, Releasing
<1>7. CASE SaveRefcount(t) \/ RefIndexGet(t) \/ RefIndexPut(t)
  <2>1. FilesAlone /\ faults' = faults /\ c.pc \in SavingPcs
    BY <1>7 DEF SaveRefcount, RefIndexGet, RefIndexPut, backend, memory, bounds, FilesAlone, SavingPcs
  <2>2. Keeps(t) /\ call'[t].pc \in StorePcs \cup {"peek", "insert"}
    BY <1>6, <1>7, GotoKeeps, SeenKeeps DEF SaveRefcount, RefIndexGet, RefIndexPut
  <2> QED BY <1>2, <2>1, <2>2 DEF SavingPcs
<1>8. CASE Peek(t)
  <2> DEFINE o == ContentOf(c.file)
             r == [c EXCEPT !.pc = "insert", !.old = o]
  <2>1. FilesAlone /\ faults' = faults /\ call'[t] = r /\ c.pc = "peek"
    BY <1>8, GoesOn DEF Peek, backend, memory, bounds, FilesAlone, ContentOf
  <2> HIDE DEF o
  <2>2. /\ r.pc = "insert" /\ r.op = c.op /\ r.file = c.file /\ r.new = c.new
        /\ r.old = o /\ r.released = c.released
    BY <1>1 DEF Records
  <2> HIDE DEF r
  <2> QED BY <1>1, <2>1, <2>2 DEF SameCall, o
<1>9. ~(SaveManifest(t) \/ ManIndexGet(t) \/ ManIndexPut(t) \/ Remove(t) \/ RemoveManifest(t)
        \/ RmIndexGet(t) \/ RmIndexPut(t))
  BY <1>1 DEF SaveManifest, ManIndexGet, ManIndexPut, Remove, RemoveManifest, RmIndexGet, RmIndexPut
<1>10. ~(Size(t) \/ Decrement(t) \/ GcBlob(t) \/ GcRefcount(t) \/ GcIndexGet(t) \/ GcIndexPut(t))
  BY <1>1 DEF Size, Decrement, GcBlob, GcRefcount, GcIndexGet, GcIndexPut
<1>11. ~(Lookup(t) \/ Fetch(t) \/ FsckLive(t) \/ FsckList(t) \/ FsckUnlink(t))
  BY <1>1 DEF Lookup, Fetch, FsckLive, FsckList, FsckUnlink
<1> QED BY <1>3, <1>4, <1>5, <1>7, <1>8, <1>9, <1>10, <1>11 DEF Step

LEMMA FreeingGoes ==
  ASSUME TypeInv, NEW t \in Threads, Freeing(t), Step(t)
  PROVE  /\ FilesAlone /\ SameCall(t)
         /\ \/ Freeing(t)'
            \/ Return(t, "ok")
            \/ (Unsized(t) \/ ~NoError(t)) /\ Return(t, "err")
<1> DEFINE c == call[t]
<1>1. c \in Records /\ WellFormed(c) /\ c.pc \in ReleasePcs \cup SavingPcs
  BY DEF TypeInv, TypeOK, Freeing
<1>2. ASSUME Keeps(t), \/ call'[t].pc \in ReleasePcs
                       \/ c.released > 0 /\ call'[t].pc \in SavingPcs
      PROVE  SameCall(t) /\ Freeing(t)'
  BY <1>2 DEF Keeps, SameCall, Freeing
<1>3. ReleaseRest(t) => SameCall(t) /\ (Freeing(t)' \/ Return(t, "ok"))
  BY <1>2, RestLeaves
<1>4. CASE Size(t)
  <2>1. /\ FilesAlone /\ faults \in Nat
        /\ Goto(t, "decrement") \/ (Return(t, "err") /\ faults' = faults + 1)
    BY <1>4 DEF Size, backend, memory, FilesAlone, TypeInv, TypeOK
  <2>2. CASE Goto(t, "decrement")
    BY <1>2, <2>1, <2>2, GotoKeeps
  <2>3. CASE Return(t, "err") /\ faults' = faults + 1
    BY <1>4, <2>1, <2>3, ReturnLeaves DEF Unsized
  <2> QED BY <2>1, <2>2, <2>3
<1>5. CASE Decrement(t)
  <2> DEFINE D == OldChunk(t)
             n == Remaining(D)
             p == IF LastReference(D) THEN "gc_blob" ELSE "save_refcount"
             r == [c EXCEPT !.pc = p, !.released = @ + 1, !.cur = D, !.count = n]
  <2>1. FilesAlone /\ faults' = faults /\ c.pc = "decrement"
    BY <1>5 DEF Decrement, backend, bounds, FilesAlone
  <2>2. CASE rc[D] = 0
    BY <1>5, <2>1, <2>2, ReturnLeaves DEF Decrement, NoError
  <2>3. CASE rc[D] # 0
    <3>1. call'[t] = r
      BY <1>5, <2>3, GoesOn DEF Decrement
    <3>2. p \in {"gc_blob", "save_refcount"} /\ c.released \in Nat
      BY <1>1 DEF Records
    <3> HIDE DEF D, n, p
    <3>3. r.pc = p /\ r.op = c.op /\ r.file = c.file /\ r.released = c.released + 1
      BY <1>1 DEF Records
    <3> HIDE DEF r
    <3> QED BY <2>1, <3>1, <3>2, <3>3 DEF SameCall, Freeing, SavingPcs
  <2> QED BY <2>2, <2>3
<1>6. CASE GcBlob(t) \/ GcRefcount(t) \/ GcIndexGet(t)
  <2>1. FilesAlone /\ faults' = faults
    BY <1>6 DEF GcBlob, GcRefcount, GcIndexGet, backend, memory, bounds, FilesAlone
  <2> QED BY <1>2, <1>6, <2>1, GotoKeeps, SeenKeeps DEF GcBlob, GcRefcount, GcIndexGet
<1>7. CASE GcIndexPut(t)
  <2>1. FilesAlone /\ faults' = faults /\ ReleaseRest(t)
    BY <1>7 DEF GcIndexPut, bounds, FilesAlone
  <2> QED BY <1>3, <2>1
<1>8. CASE SaveRefcount(t) \/ RefIndexGet(t) \/ RefIndexPut(t)
  <2>1. FilesAlone /\ faults' = faults /\ c.pc \in SavingPcs /\ c.released > 0
    BY <1>8 DEF SaveRefcount, RefIndexGet, RefIndexPut, backend, memory, bounds, FilesAlone, Freeing, SavingPcs
  <2>2. RefcountSaved(t) => ReleaseRest(t)
    BY <2>1 DEF RefcountSaved, Releasing
  <2>3. CASE SaveRefcount(t)
    BY <1>2, <2>1, <2>3, GotoKeeps DEF SaveRefcount, SavingPcs
  <2>4. CASE RefIndexGet(t)
    BY <1>2, <1>3, <2>1, <2>2, <2>4, SeenKeeps DEF RefIndexGet, SavingPcs
  <2>5. CASE RefIndexPut(t)
    BY <1>3, <2>1, <2>2, <2>5 DEF RefIndexPut
  <2> QED BY <1>8, <2>3, <2>4, <2>5
<1>9. ~(StoreExists(t) \/ StorePut(t) \/ Increment(t) \/ Peek(t) \/ Insert(t) \/ SaveManifest(t)
        \/ ManIndexGet(t) \/ ManIndexPut(t))
  BY <1>1 DEF StoreExists, StorePut, Increment, Peek, Insert, SaveManifest, ManIndexGet,
     ManIndexPut, SavingPcs
<1>10. ~(Remove(t) \/ RemoveManifest(t) \/ RmIndexGet(t) \/ RmIndexPut(t))
  BY <1>1 DEF Remove, RemoveManifest, RmIndexGet, RmIndexPut, SavingPcs
<1>11. ~(Lookup(t) \/ Fetch(t) \/ FsckLive(t) \/ FsckList(t) \/ FsckUnlink(t))
  BY <1>1 DEF Lookup, Fetch, FsckLive, FsckList, FsckUnlink, SavingPcs
<1> QED BY <1>4, <1>5, <1>6, <1>7, <1>8, <1>9, <1>10, <1>11 DEF Step

-------------------------------------------------------------------------------
(* The store implements FileStore, for readers of a running store: InMemory.    *)

\* The request that a call stands for changes only when the call takes effect.
LEMMA RequestStays ==
  ASSUME NEW t \in Threads, NEW answered \in BOOLEAN, SameCall(t),
         call[t].op = "ingest" /\ ~answered => call'[t].new = call[t].new,
         call[t].op = "read" /\ answered => call'[t].new = call[t].new,
         answered => /\ Busy(t) \/ call[t].result = "ok"
                     /\ Busy(t)' \/ call'[t].result = "ok"
  PROVE  RequestOf(t, answered)' = RequestOf(t, answered)
BY DEF RequestOf, SameCall

MemReq == [t \in Threads |-> RequestOf(t, InMemoryDone(t))]

LEMMA MemReqMoves ==
  ASSUME NEW t \in Threads, OthersStay(t)
  PROVE  MemReq' = [MemReq EXCEPT ![t] = RequestOf(t, InMemoryDone(t))']
<1>1. ASSUME NEW u \in Threads \ {t}
      PROVE  RequestOf(u, InMemoryDone(u))' = RequestOf(u, InMemoryDone(u))
  BY DEF OthersStay, RequestOf, InMemoryDone, Uncommitted, Busy
<1> QED BY <1>1 DEF MemReq

MemoryStep == InMemory!FSStep

LEMMA MemStutters ==
  ASSUME NEW t \in Threads, OthersStay(t), manifest' = manifest, NEW answered \in BOOLEAN,
         InMemoryDone(t) <=> answered, InMemoryDone(t)' <=> answered,
         RequestOf(t, answered)' = RequestOf(t, answered)
  PROVE  MemoryStep
<1>1. RequestOf(t, InMemoryDone(t))' = RequestOf(t, InMemoryDone(t))
  BY DEF RequestOf
<1>2. MemReq' = MemReq
  BY <1>1, MemReqMoves DEF MemReq
<1> QED BY <1>2 DEF MemoryStep, InMemory!FSStep, MemReq

CalledRequest(o, f, x) ==
  [op |-> o, file |-> f, phase |-> "called", result |-> "none", content |-> x]
AnsweredRequest(o, f, res, c) ==
  [op |-> o, file |-> f, phase |-> "answered", result |-> res, content |-> c]
Answering(q, res, c) == [q EXCEPT !.phase = "answered", !.result = res, !.content = c]

Invoking(q, o, f, x) == [q EXCEPT !.op = o, !.file = f, !.phase = "called", !.content = x]

LEMMA InvokeFields ==
  ASSUME NEW o, NEW f, NEW x
  PROVE  Invoking(InMemory!NoRequest, o, f, x) = CalledRequest(o, f, x)
<1> DEFINE q == InMemory!NoRequest
           r == Invoking(q, o, f, x)
<1>1. q \in [op : {"none", o}, file : {None, f}, phase : {"answered", "called"},
             result : {"none"}, content : {<<>>, x}]
  BY DEF InMemory!NoRequest
<1>2. r \in [op : {"none", o}, file : {None, f}, phase : {"answered", "called"},
             result : {"none"}, content : {<<>>, x}]
  BY <1>1 DEF Invoking
<1>3. r.op = o /\ r.file = f /\ r.phase = "called" /\ r.result = "none" /\ r.content = x
  BY <1>1 DEF Invoking
<1> HIDE DEF q, r
<1>4. r = [op |-> o, file |-> f, phase |-> "called", result |-> "none", content |-> x]
  BY <1>2, <1>3
<1> QED BY <1>4 DEF q, r, CalledRequest

LEMMA AnswerFields ==
  ASSUME NEW o, NEW f, NEW x, NEW res, NEW c
  PROVE  Answering(CalledRequest(o, f, x), res, c) = AnsweredRequest(o, f, res, c)
<1> DEFINE q == CalledRequest(o, f, x)
           r == Answering(q, res, c)
<1>1. q \in [op : {o}, file : {f}, phase : {"called", "answered"}, result : {"none", res},
             content : {x, c}]
  BY DEF CalledRequest
<1>2. r \in [op : {o}, file : {f}, phase : {"called", "answered"}, result : {"none", res},
             content : {x, c}]
  BY <1>1 DEF Answering
<1>3. r.op = o /\ r.file = f /\ r.phase = "answered" /\ r.result = res /\ r.content = c
  BY <1>1 DEF CalledRequest, Answering
<1> HIDE DEF q, r
<1>4. r = [op |-> o, file |-> f, phase |-> "answered", result |-> res, content |-> c]
  BY <1>2, <1>3
<1> QED BY <1>4 DEF q, r, AnsweredRequest

\* A call takes effect: it has been answered from now on.
MemAnswers(t, res, c) ==
  /\ OthersStay(t) /\ SameCall(t)
  /\ ~InMemoryDone(t) /\ InMemoryDone(t)'
  /\ res = IF Busy(t)' THEN "ok" ELSE call'[t].result
  /\ c = IF call[t].op = "read" THEN call'[t].new ELSE <<>>

LEMMA MemAnswered ==
  ASSUME NEW t \in Threads, NEW res, NEW c, MemAnswers(t, res, c)
  PROVE  InMemory!Answer(t, res, c) /\ MemReq[t].op = call[t].op /\ MemReq[t].file = call[t].file
         /\ MemReq[t].content = IF call[t].op = "ingest" THEN call[t].new ELSE <<>>
<1> DEFINE x == IF call[t].op = "ingest" THEN call[t].new ELSE <<>>
           old == CalledRequest(call[t].op, call[t].file, x)
           new == AnsweredRequest(call[t].op, call[t].file, res, c)
<1>1. RequestOf(t, InMemoryDone(t)) = old /\ RequestOf(t, InMemoryDone(t))' = new
  BY DEF MemAnswers, RequestOf, SameCall, CalledRequest, AnsweredRequest
<1>2. MemReq[t] = old
  BY <1>1 DEF MemReq
<1>3. MemReq' = [MemReq EXCEPT ![t] = new]
  BY <1>1, MemReqMoves DEF MemAnswers
<1>4. new = Answering(old, res, c)
  BY AnswerFields
<1>5. /\ MemReq[t].op = call[t].op /\ MemReq[t].file = call[t].file /\ MemReq[t].content = x
      /\ MemReq[t].phase = "called"
  BY <1>2 DEF CalledRequest
<1>6. MemReq' = [MemReq EXCEPT ![t] = Answering(@, res, c)]
  BY <1>2, <1>3, <1>4
<1> HIDE DEF old, new, x
<1>7. MemReq' = [MemReq EXCEPT ![t].phase = "answered", ![t].result = res, ![t].content = c]
  BY <1>6 DEF Answering
<1> QED BY <1>5, <1>7 DEF InMemory!Answer, MemReq, x

\* Steps that the callers do not see.
LEMMA MemHidden ==
  ASSUME TypeInv, NEW t \in Threads, OthersStay(t), manifest' = manifest, SameCall(t), Busy(t),
         \/ /\ ~InMemoryDone(t) /\ ~InMemoryDone(t)'
            /\ call[t].op = "ingest" => call'[t].new = call[t].new
         \/ /\ InMemoryDone(t) /\ InMemoryDone(t)'
            /\ call[t].op = "read" => call'[t].new = call[t].new
            /\ Busy(t)' \/ call'[t].result = "ok"
  PROVE  MemoryStep
<1>1. CASE ~InMemoryDone(t)
  BY <1>1, RequestStays, MemStutters
<1>2. CASE InMemoryDone(t)
  BY <1>2, RequestStays, MemStutters
<1> QED BY <1>1, <1>2

LEMMA MemStoring ==
  ASSUME TypeInv, NEW t \in Threads, OthersStay(t), Uncommitted(t), Step(t), ~Insert(t)
  PROVE  MemoryStep
<1>1. /\ manifest' = manifest /\ SameCall(t) /\ call'[t].new = call[t].new
      /\ call'[t].released = 0 /\ call'[t].pc \in StorePcs \cup {"peek", "insert"}
  BY StoringGoes DEF FilesAlone
<1>2. call[t].op = "ingest" /\ Busy(t) /\ Uncommitted(t)'
  BY <1>1 DEF Uncommitted, Busy, SameCall
<1> QED BY <1>1, <1>2, MemHidden DEF InMemoryDone, SameCall

LEMMA MemFreeing ==
  ASSUME TypeInv, NEW t \in Threads, OthersStay(t), Freeing(t), NoError(t), ~Unsized(t),
         Step(t)
  PROVE  MemoryStep
<1>1. call[t] \in Records /\ WellFormed(call[t])
  BY DEF TypeInv, TypeOK
<1>2. /\ manifest' = manifest /\ SameCall(t)
      /\ Freeing(t)' \/ (call'[t].pc = "idle" /\ call'[t].result = "ok")
  BY FreeingGoes, ReturnLeaves DEF FilesAlone
<1>3. call[t].op \in {"ingest", "delete"} /\ Busy(t) /\ ~Uncommitted(t) /\ call[t].pc # "remove"
  BY <1>1 DEF Freeing, WellFormed, SavingPcs, Busy, Uncommitted
<1>4. ~Uncommitted(t)' /\ call'[t].pc # "remove"
  BY <1>2 DEF Freeing, SavingPcs, Uncommitted
<1>5. Busy(t)' \/ call'[t].result = "ok"
  BY <1>2 DEF Busy, Freeing, SavingPcs
<1> QED BY <1>2, <1>3, <1>4, <1>5, MemHidden DEF InMemoryDone, SameCall

LEMMA MemCommit ==
  ASSUME TypeInv, NEW t \in Threads, OthersStay(t),
         Insert(t) \/ SaveManifest(t) \/ ManIndexGet(t) \/ ManIndexPut(t)
  PROVE  MemoryStep
<1> DEFINE c == call[t]
           f == call[t].file
<1>1. /\ c \in Records /\ WellFormed(c) /\ c.pc \in CommitPcs /\ c.op = "ingest" /\ f \in Files
      /\ Busy(t) /\ c.released = 0
  BY DEF TypeInv, TypeOK, WellFormed, Busy, Insert, SaveManifest, ManIndexGet, ManIndexPut
<1>2. CASE Insert(t)
  <2>1. c.pc = "insert" /\ Uncommitted(t) /\ ~InMemoryDone(t)
    BY <1>1, <1>2 DEF Insert, Uncommitted, InMemoryDone
  <2>2. CASE f \in EmptyIds
    <3>1. Return(t, "err") /\ manifest' = manifest
      BY <1>2, <2>2 DEF Insert
    <3>2. /\ call'[t].pc = "idle" /\ SameCall(t) /\ call'[t].result = "err" /\ ~Busy(t)'
          /\ InMemoryDone(t)'
      BY <1>1, <3>1, ReturnLeaves DEF InMemoryDone, SameCall, Uncommitted, Busy
    <3>3. MemAnswers(t, "err", <<>>)
      BY <1>1, <2>1, <3>2 DEF MemAnswers
    <3>4. InMemory!Refused(t)
      BY <1>1, <2>2, <3>1, <3>3, MemAnswered DEF InMemory!Refused, MemReq
    <3> QED BY <3>4 DEF MemoryStep, InMemory!FSStep, InMemory!FSNext
  <2>3. CASE f \notin EmptyIds
    <3>1. /\ Keeps(t) /\ call'[t].pc = "save_manifest"
          /\ manifest' = [manifest EXCEPT ![f] = c.new]
      BY <1>2, <2>3, GotoKeeps DEF Insert
    <3>2. MemAnswers(t, "ok", <<>>)
      BY <1>1, <2>1, <3>1 DEF MemAnswers, Keeps, SameCall, InMemoryDone, Uncommitted, Busy
    <3>3. InMemory!Ingested(t)
      BY <1>1, <2>3, <3>1, <3>2, MemAnswered DEF InMemory!Ingested, MemReq
    <3> QED BY <3>3 DEF MemoryStep, InMemory!FSStep, InMemory!FSNext
  <2> QED BY <2>2, <2>3
<1>3. ASSUME SaveManifest(t) \/ ManIndexGet(t) \/ ManIndexPut(t)
      PROVE  /\ manifest' = manifest /\ SameCall(t)
             /\ \/ call'[t].pc \in {"man_index_get", "man_index_put", "size"}
                \/ call'[t].pc = "idle" /\ call'[t].result = "ok"
  <2>1. manifest' = manifest
    BY <1>3 DEF SaveManifest, ManIndexGet, ManIndexPut, memory
  <2>2. ReleaseRest(t) => /\ SameCall(t)
                          /\ \/ call'[t].pc = "size"
                             \/ call'[t].pc = "idle" /\ call'[t].result = "ok"
    BY RestLeaves, ReturnLeaves
  <2>3. CASE SaveManifest(t)
    BY <2>1, <2>3, GotoKeeps DEF SaveManifest, Keeps, SameCall
  <2>4. CASE ManIndexGet(t)
    BY <2>1, <2>2, <2>4, SeenKeeps DEF ManIndexGet, Keeps, SameCall
  <2>5. CASE ManIndexPut(t)
    BY <2>1, <2>2, <2>5 DEF ManIndexPut
  <2> QED BY <1>3, <2>3, <2>4, <2>5
<1>4. CASE SaveManifest(t) \/ ManIndexGet(t) \/ ManIndexPut(t)
  <2>1. InMemoryDone(t)
    BY <1>1, <1>4 DEF InMemoryDone, Uncommitted, SaveManifest, ManIndexGet, ManIndexPut
  <2>2. InMemoryDone(t)'
    BY <1>1, <1>3, <1>4 DEF InMemoryDone, Uncommitted, SameCall
  <2>3. Busy(t)' \/ call'[t].result = "ok"
    BY <1>3, <1>4 DEF Busy
  <2> QED BY <1>1, <1>3, <1>4, <2>1, <2>2, <2>3, MemHidden
<1> QED BY <1>2, <1>4

LEMMA MemDelete ==
  ASSUME TypeInv, NEW t \in Threads, OthersStay(t),
         Remove(t) \/ RemoveManifest(t) \/ RmIndexGet(t) \/ RmIndexPut(t)
  PROVE  MemoryStep
<1> DEFINE c == call[t]
           f == call[t].file
<1>1. /\ c \in Records /\ WellFormed(c) /\ c.pc \in DeletePcs /\ c.op = "delete" /\ f \in Files
      /\ Busy(t)
  BY DEF TypeInv, TypeOK, WellFormed, Busy, Remove, RemoveManifest, RmIndexGet, RmIndexPut
<1>2. CASE Remove(t)
  <2>1. ~InMemoryDone(t)
    BY <1>1, <1>2 DEF Remove, InMemoryDone
  <2>2. CASE manifest[f] = None
    <3>1. Return(t, "err") /\ manifest' = manifest
      BY <1>2, <2>2 DEF Remove
    <3>2. /\ call'[t].pc = "idle" /\ SameCall(t) /\ call'[t].result = "err" /\ ~Busy(t)'
          /\ InMemoryDone(t)'
      BY <1>1, <3>1, ReturnLeaves DEF InMemoryDone, SameCall, Busy
    <3>3. MemAnswers(t, "err", <<>>)
      BY <1>1, <2>1, <3>2 DEF MemAnswers
    <3>4. InMemory!Refused(t)
      BY <1>1, <2>2, <3>1, <3>3, MemAnswered DEF InMemory!Refused, MemReq
    <3> QED BY <3>4 DEF MemoryStep, InMemory!FSStep, InMemory!FSNext
  <2>3. CASE manifest[f] # None
    <3> DEFINE r == [c EXCEPT !.pc = "remove_manifest", !.old = manifest[f]]
    <3>1. manifest' = [manifest EXCEPT ![f] = None] /\ call'[t] = r
      BY <1>2, <2>3, GoesOn DEF Remove
    <3>2. r.pc = "remove_manifest" /\ r.op = "delete" /\ r.file = f
      BY <1>1 DEF Records
    <3> HIDE DEF r
    <3>3. MemAnswers(t, "ok", <<>>)
      BY <1>1, <2>1, <3>1, <3>2 DEF MemAnswers, SameCall, InMemoryDone, Busy
    <3>4. InMemory!Deleted(t)
      BY <1>1, <2>3, <3>1, <3>3, MemAnswered DEF InMemory!Deleted, MemReq
    <3> QED BY <3>4 DEF MemoryStep, InMemory!FSStep, InMemory!FSNext
  <2> QED BY <2>2, <2>3
<1>3. ASSUME RemoveManifest(t) \/ RmIndexGet(t) \/ RmIndexPut(t)
      PROVE  /\ manifest' = manifest /\ SameCall(t) /\ c.pc # "remove"
             /\ \/ call'[t].pc \in {"rm_index_get", "rm_index_put", "size"}
                \/ call'[t].pc = "idle" /\ call'[t].result = "ok"
  <2>1. manifest' = manifest /\ c.pc # "remove"
    BY <1>3 DEF RemoveManifest, RmIndexGet, RmIndexPut, memory
  <2>2. CASE RemoveManifest(t)
    BY <2>1, <2>2, GotoKeeps DEF RemoveManifest, Keeps, SameCall
  <2>3. CASE RmIndexGet(t)
    BY <2>1, <2>3, SeenKeeps DEF RmIndexGet, Keeps, SameCall
  <2>4. CASE RmIndexPut(t)
    BY <2>1, <2>4, RestLeaves, ReturnLeaves DEF RmIndexPut
  <2> QED BY <1>3, <2>2, <2>3, <2>4
<1>4. CASE RemoveManifest(t) \/ RmIndexGet(t) \/ RmIndexPut(t)
  <2>1. InMemoryDone(t) /\ InMemoryDone(t)'
    BY <1>1, <1>3, <1>4 DEF InMemoryDone, SameCall
  <2>2. Busy(t)' \/ call'[t].result = "ok"
    BY <1>3, <1>4 DEF Busy
  <2> QED BY <1>1, <1>3, <1>4, <2>1, <2>2, MemHidden
<1> QED BY <1>2, <1>4

LEMMA MemRead ==
  ASSUME TypeInv, NEW t \in Threads, OthersStay(t), NoError(t), Lookup(t) \/ Fetch(t)
  PROVE  MemoryStep
<1> DEFINE c == call[t]
           f == call[t].file
           m == manifest[f]
<1>1. /\ c \in Records /\ WellFormed(c) /\ c.pc \in ReadPcs /\ c.op = "read" /\ f \in Files
      /\ Busy(t) /\ manifest' = manifest
  BY DEF TypeInv, TypeOK, WellFormed, Busy, Lookup, Fetch, memory
<1>2. ASSUME NEW res, Return(t, res)
      PROVE  /\ InMemoryDone(t)' /\ SameCall(t) /\ call'[t].result = res /\ ~Busy(t)'
             /\ res = "ok" => call'[t].new = c.new
  BY <1>1, <1>2, ReturnLeaves DEF InMemoryDone, SameCall, Busy
<1>3. CASE Lookup(t)
  <2>1. c.pc = "lookup" /\ ~InMemoryDone(t) /\ c.new = <<>>
    BY <1>1, <1>3 DEF Lookup, InMemoryDone, NoError
  <2>2. CASE m = None
    <3>1. Return(t, "err")
      BY <1>3, <2>2 DEF Lookup
    <3>2. call'[t].new = <<>>
      <4> DEFINE r == Returned(t, "err")
      <4>1. r.new = <<>>
        BY DEF Returned, Idle
      <4>2. call'[t] = r
        BY <3>1, GoesOn DEF Return
      <4> QED BY <4>1, <4>2
    <3>3. MemAnswers(t, "err", <<>>)
      BY <1>1, <1>2, <2>1, <3>1, <3>2 DEF MemAnswers
    <3>4. InMemory!Refused(t)
      BY <1>1, <2>2, <3>3, MemAnswered DEF InMemory!Refused, MemReq
    <3> QED BY <3>4 DEF MemoryStep, InMemory!FSStep, InMemory!FSNext
  <2>3. ASSUME m # None, MemAnswers(t, "ok", m) PROVE MemoryStep
    <3>1. InMemory!ReadBack(t)
      BY <1>1, <2>3, MemAnswered DEF InMemory!ReadBack, MemReq
    <3> QED BY <3>1 DEF MemoryStep, InMemory!FSStep, InMemory!FSNext
  <2>4. CASE m # None /\ m = <<>>
    <3>1. Return(t, "ok")
      BY <1>3, <2>4 DEF Lookup
    <3>2. MemAnswers(t, "ok", m)
      BY <1>1, <1>2, <2>1, <2>4, <3>1 DEF MemAnswers
    <3> QED BY <2>3, <2>4, <3>2
  <2>5. CASE m # None /\ m # <<>>
    <3> DEFINE r == [c EXCEPT !.pc = "fetch", !.new = m]
    <3>1. call'[t] = r
      BY <1>3, <2>5, GoesOn DEF Lookup
    <3> HIDE DEF m
    <3>2. r.pc = "fetch" /\ r.op = c.op /\ r.file = c.file /\ r.new = m
      BY <1>1 DEF Records
    <3> HIDE DEF r
    <3>3. MemAnswers(t, "ok", m)
      BY <1>1, <2>1, <3>1, <3>2 DEF MemAnswers, SameCall, InMemoryDone, Busy
    <3> QED BY <2>3, <2>5, <3>3
  <2> QED BY <2>2, <2>4, <2>5
<1>4. CASE Fetch(t)
  <2>1. InMemoryDone(t) /\ c.pc = "fetch" /\ Chunk(t) \in blobs
    BY <1>1, <1>4 DEF Fetch, InMemoryDone, NoError
  <2>2. CASE c.done + 1 = Len(c.new)
    <3>1. Return(t, "ok")
      BY <1>4, <2>1, <2>2 DEF Fetch
    <3> QED BY <1>1, <1>2, <2>1, <3>1, MemHidden
  <2>3. CASE c.done + 1 # Len(c.new)
    <3> DEFINE r == [c EXCEPT !.done = @ + 1]
    <3>1. call'[t] = r
      BY <1>4, <2>1, <2>3, GoesOn DEF Fetch
    <3>2. r.pc = "fetch" /\ r.op = c.op /\ r.file = c.file /\ r.new = c.new
      BY <1>1, <2>1 DEF Records
    <3> HIDE DEF r
    <3>3. InMemoryDone(t)' /\ SameCall(t) /\ Busy(t)' /\ call'[t].new = c.new
      BY <1>1, <3>1, <3>2 DEF SameCall, InMemoryDone, Busy
    <3> QED BY <1>1, <2>1, <3>3, MemHidden
  <2> QED BY <2>2, <2>3
<1> QED BY <1>3, <1>4

LEMMA MemRepair ==
  ASSUME TypeInv, NEW t \in Threads, OthersStay(t), FsckLive(t) \/ FsckList(t) \/ FsckUnlink(t)
  PROVE  MemoryStep
<1> DEFINE c == call[t]
<1>1. /\ c \in Records /\ WellFormed(c) /\ c.pc \in RepairPcs /\ c.op = "repair"
      /\ Busy(t) /\ manifest' = manifest /\ ~InMemoryDone(t)
  BY DEF TypeInv, TypeOK, WellFormed, Busy, FsckLive, FsckList, FsckUnlink, memory, InMemoryDone
<1>2. CASE Return(t, "ok")
  <2>1. Return(t, "ok")
    BY <1>2
  <2>2. MemAnswers(t, "ok", <<>>)
    BY <1>1, <2>1, ReturnLeaves DEF MemAnswers, InMemoryDone, SameCall, Busy
  <2>3. InMemory!Repaired(t)
    BY <1>1, <2>2, MemAnswered DEF InMemory!Repaired, MemReq
  <2> QED BY <2>3 DEF MemoryStep, InMemory!FSStep, InMemory!FSNext
<1>3. ASSUME NEW p \in RepairPcs, NEW s, call'[t] = [c EXCEPT !.pc = p, !.seen = s]
      PROVE  MemoryStep
  <2> DEFINE r == [c EXCEPT !.pc = p, !.seen = s]
  <2>1. r.pc = p /\ r.op = c.op /\ r.file = c.file
    BY <1>1 DEF Records
  <2>2. call'[t] = r
    BY <1>3
  <2> HIDE DEF r
  <2>3. SameCall(t) /\ ~InMemoryDone(t)'
    BY <1>1, <2>1, <2>2 DEF SameCall, InMemoryDone, Busy
  <2> QED BY <1>1, <2>3, MemHidden
<1>4. CASE FsckLive(t) \/ (FsckList(t) /\ ~Return(t, "ok"))
  BY <1>3, <1>4, GoesOn DEF FsckLive, FsckList
<1>5. CASE FsckUnlink(t) /\ c.seen # {}
  <2>1. PICK d \in c.seen : Become(t, [c EXCEPT !.seen = @ \ {d}])
    BY <1>5 DEF FsckUnlink
  <2>2. c.pc = "fsck_unlink"
    BY <1>5 DEF FsckUnlink
  <2>3. [c EXCEPT !.seen = @ \ {d}] = [c EXCEPT !.pc = "fsck_unlink", !.seen = c.seen \ {d}]
    BY <1>1, <2>2 DEF Records
  <2> QED BY <1>3, <2>1, <2>3, GoesOn
<1> QED BY <1>2, <1>4, <1>5 DEF FsckUnlink

LEMMA MemBegin ==
  ASSUME TypeInv, NEW t \in Threads, OthersStay(t), BeginCall(t)
  PROVE  MemoryStep
<1>1. ASSUME NEW op \in {"ingest", "delete", "read", "repair"}, NEW f \in Files \cup {None},
             NEW x \in Contents \cup {<<>>},
             NEW label \in {"peek", "exists", "remove", "lookup", "fsck_live"},
             Begin(t, op, f, x, label),
             op = "ingest" => label \in {"peek", "exists"},
             op = "delete" => label = "remove", op = "read" => label = "lookup",
             op # "ingest" => x = <<>>
      PROVE  MemoryStep
  <2> DEFINE r == [Idle EXCEPT !.pc = label, !.op = op, !.file = f, !.new = x]
             q == [InMemory!NoRequest EXCEPT !.op = op, !.file = f, !.phase = "called",
                                             !.content = x]
  <2>1. r.pc = label /\ r.op = op /\ r.file = f /\ r.new = x /\ r.released = 0
    BY DEF Idle
  <2>2. call'[t] = r /\ manifest' = manifest /\ ~Busy(t)
    BY <1>1, GoesOn DEF Begin, memory
  <2> HIDE DEF r
  <2>3. InMemoryDone(t)
    BY <2>2 DEF InMemoryDone, Uncommitted, Busy
  <2>4. ~InMemoryDone(t)'
    BY <1>1, <2>1, <2>2 DEF InMemoryDone, Uncommitted, Busy
  <2>5. RequestOf(t, InMemoryDone(t))' = CalledRequest(op, f, x)
    BY <1>1, <2>1, <2>2, <2>4 DEF RequestOf, CalledRequest
  <2>6. q = CalledRequest(op, f, x)
    BY InvokeFields DEF Invoking
  <2>7. MemReq' = [MemReq EXCEPT ![t] = q] /\ MemReq[t].phase = "answered"
    <3>1. MemReq' = [MemReq EXCEPT ![t] = q]
      BY <2>5, <2>6, MemReqMoves
    <3>2. MemReq[t] = RequestOf(t, InMemoryDone(t))
      BY DEF MemReq
    <3>3. RequestOf(t, InMemoryDone(t)).phase = "answered"
      BY <2>3 DEF RequestOf
    <3> QED BY <3>1, <3>2, <3>3
  <2> HIDE DEF q
  <2>8. \E o \in {"ingest", "delete", "read", "repair"} :
        \E g \in Files \cup {None}, y \in Contents \cup {<<>>} :
          MemReq' = [MemReq EXCEPT ![t] = [InMemory!NoRequest EXCEPT !.op = o, !.file = g,
                                       !.phase = "called", !.content = y]]
    BY <2>7 DEF q
  <2>9. InMemory!Invoke(t)
    BY <2>2, <2>7, <2>8 DEF InMemory!Invoke, MemReq
  <2> QED BY <2>9 DEF MemoryStep, InMemory!FSStep, InMemory!FSNext
<1>2. CASE \E f \in Files, x \in Contents : BeginIngest(t, f, x)
  BY <1>1, <1>2 DEF BeginIngest
<1>3. CASE (\E f \in Files : BeginDelete(t, f) \/ BeginRead(t, f)) \/ BeginRepair(t)
  BY <1>1, <1>3 DEF BeginDelete, BeginRead, BeginRepair
<1> QED BY <1>2, <1>3 DEF BeginCall

\* Each step of the store takes one call to its end, or none.
LEMMA MemThread ==
  ASSUME TypeInv, NEW t \in Threads, OthersStay(t), NoError(t), ~Unsized(t),
         BeginCall(t) \/ Step(t)
  PROVE  MemoryStep
<1>1. call[t] \in Records /\ WellFormed(call[t])
  BY DEF TypeInv, TypeOK
<1>2. CASE BeginCall(t)
  BY <1>2, MemBegin
<1>3. CASE StoreExists(t) \/ StorePut(t) \/ Increment(t) \/ Peek(t)
  <2>1. Uncommitted(t) /\ ~Insert(t) /\ Step(t)
    BY <1>1, <1>3 DEF StoreExists, StorePut, Increment, Peek, Insert, Uncommitted, WellFormed, Step
  <2> QED BY <2>1, MemStoring
<1>4. CASE SaveRefcount(t) \/ RefIndexGet(t) \/ RefIndexPut(t)
  <2>1. call[t].pc \in SavingPcs /\ ~Insert(t) /\ Step(t)
    BY <1>4 DEF SaveRefcount, RefIndexGet, RefIndexPut, SavingPcs, Insert, Step
  <2>2. Uncommitted(t) \/ Freeing(t)
    BY <1>1, <2>1 DEF Uncommitted, Freeing, SavingPcs, WellFormed, Records
  <2> QED BY <2>1, <2>2, MemStoring, MemFreeing
<1>5. CASE Insert(t) \/ SaveManifest(t) \/ ManIndexGet(t) \/ ManIndexPut(t)
  BY <1>5, MemCommit
<1>6. CASE Remove(t) \/ RemoveManifest(t) \/ RmIndexGet(t) \/ RmIndexPut(t)
  BY <1>6, MemDelete
<1>7. CASE \/ Size(t) \/ Decrement(t) \/ GcBlob(t) \/ GcRefcount(t) \/ GcIndexGet(t)
           \/ GcIndexPut(t)
  <2>1. Freeing(t) /\ Step(t)
    BY <1>7 DEF Size, Decrement, GcBlob, GcRefcount, GcIndexGet, GcIndexPut, Freeing, Step
  <2> QED BY <2>1, MemFreeing
<1>8. CASE Lookup(t) \/ Fetch(t)
  BY <1>8, MemRead
<1>9. CASE FsckLive(t) \/ FsckList(t) \/ FsckUnlink(t)
  BY <1>9, MemRepair
<1> QED BY <1>2, <1>3, <1>4, <1>5, <1>6, <1>7, <1>8, <1>9 DEF Step

LEMMA MemInit == Init => InMemory!FSInit
<1> SUFFICES ASSUME Init PROVE InMemory!FSInit
  OBVIOUS
<1>1. ASSUME NEW t \in Threads PROVE RequestOf(t, InMemoryDone(t)) = InMemory!NoRequest
  <2>1. call[t] = Idle
    BY DEF Init
  <2> QED BY <2>1 DEF RequestOf, InMemoryDone, Idle, Busy, InMemory!NoRequest
<1> QED BY <1>1 DEF Init, InMemory!FSInit
-------------------------------------------------------------------------------
(* What a reader has looked up stays in the manifest for as long as it streams. *)

LEMMA KeepsOn ==
  ASSUME TypeInv, NEW t \in Threads, Step(t) \/ Fail(t)
  PROVE  SameCall(t)
<1>1. call[t] \in Records /\ WellFormed(call[t])
  BY DEF TypeInv, TypeOK
<1>2. ASSUME NEW res, Return(t, res) PROVE SameCall(t)
  BY <1>2, ReturnLeaves
<1>3. ASSUME Keeps(t) PROVE SameCall(t)
  BY <1>3 DEF Keeps, SameCall
<1>4. CASE Fail(t)
  BY <1>2, <1>4 DEF Fail
<1>5. CASE Uncommitted(t) /\ Step(t)
  <2>1. CASE Insert(t)
    BY <1>2, <1>3, <2>1, GotoKeeps DEF Insert
  <2> QED BY <1>5, <2>1, StoringGoes
<1>6. CASE Freeing(t) /\ Step(t)
  BY <1>6, FreeingGoes
<1>7. CASE Step(t) /\ ~Uncommitted(t) /\ ~Freeing(t)
  <2>1. call[t].pc \in (CommitPcs \ {"peek", "insert"}) \cup DeletePcs \cup ReadPcs \cup RepairPcs
               \cup {"idle"}
    BY <1>1, <1>7 DEF Uncommitted, Freeing, SavingPcs, Records, WellFormed, Pcs
  <2>2. CASE SaveManifest(t) \/ ManIndexGet(t) \/ ManIndexPut(t)
    BY <1>3, <2>2, GotoKeeps, SeenKeeps, RestLeaves DEF SaveManifest, ManIndexGet, ManIndexPut
  <2>3. CASE RemoveManifest(t) \/ RmIndexGet(t) \/ RmIndexPut(t)
    BY <1>3, <2>3, GotoKeeps, SeenKeeps, RestLeaves DEF RemoveManifest, RmIndexGet, RmIndexPut
  <2>4. CASE Remove(t)
    <3> DEFINE r == [call[t] EXCEPT !.pc = "remove_manifest", !.old = manifest[call[t].file]]
    <3>1. r.op = call[t].op /\ r.file = call[t].file
      BY <1>1 DEF Records
    <3>2. (\E res : Return(t, res)) \/ call'[t] = r
      BY <2>4, GoesOn DEF Remove
    <3> HIDE DEF r
    <3> QED BY <1>2, <3>1, <3>2 DEF SameCall
  <2>5. CASE Lookup(t)
    <3> DEFINE r == [call[t] EXCEPT !.pc = "fetch", !.new = manifest[call[t].file]]
    <3>1. r.op = call[t].op /\ r.file = call[t].file
      BY <1>1 DEF Records
    <3>2. (\E res : Return(t, res)) \/ call'[t] = r
      BY <2>5, GoesOn DEF Lookup
    <3> HIDE DEF r
    <3> QED BY <1>2, <3>1, <3>2 DEF SameCall
  <2>6. CASE Fetch(t)
    <3> DEFINE r == [call[t] EXCEPT !.done = @ + 1]
    <3>1. r.op = call[t].op /\ r.file = call[t].file
      BY <1>1 DEF Records
    <3>2. (\E res : Return(t, res)) \/ call'[t] = r
      BY <2>6, GoesOn DEF Fetch
    <3> HIDE DEF r
    <3> QED BY <1>2, <3>1, <3>2 DEF SameCall
  <2>7. CASE FsckLive(t) \/ FsckList(t)
    BY <1>2, <1>3, <2>7, SeenKeeps DEF FsckLive, FsckList
  <2>8. CASE FsckUnlink(t)
    <3>1. ASSUME NEW d, Become(t, [call[t] EXCEPT !.seen = @ \ {d}]) PROVE SameCall(t)
      <4> DEFINE r == [call[t] EXCEPT !.seen = @ \ {d}]
      <4>1. r.op = call[t].op /\ r.file = call[t].file
        BY <1>1 DEF Records
      <4>2. call'[t] = r
        BY <3>1, GoesOn
      <4> HIDE DEF r
      <4> QED BY <4>1, <4>2 DEF SameCall
    <3> QED BY <1>2, <2>8, <3>1 DEF FsckUnlink
  <2>9. ~(StoreExists(t) \/ StorePut(t) \/ Increment(t) \/ SaveRefcount(t) \/ RefIndexGet(t)
          \/ RefIndexPut(t) \/ Peek(t) \/ Insert(t))
    BY <2>1 DEF StoreExists, StorePut, Increment, SaveRefcount, RefIndexGet, RefIndexPut, Peek,
       Insert
  <2>10. ~(Size(t) \/ Decrement(t) \/ GcBlob(t) \/ GcRefcount(t) \/ GcIndexGet(t)
           \/ GcIndexPut(t))
    BY <2>1 DEF Size, Decrement, GcBlob, GcRefcount, GcIndexGet, GcIndexPut
  <2> QED BY <1>7, <2>2, <2>3, <2>4, <2>5, <2>6, <2>7, <2>8, <2>9, <2>10 DEF Step
<1> QED BY <1>4, <1>5, <1>6, <1>7

ReadCurrent(t) ==
  /\ call[t].pc = "lookup" => call[t].new = <<>> /\ call[t].done = 0
  /\ call[t].pc = "fetch" => /\ call[t].new = manifest[call[t].file]
                            /\ call[t].done < Len(call[t].new)

\* The call of a step or of a begin whose thread reads afterwards.
LEMMA ReadsCurrent ==
  ASSUME TypeInv, TypeInv', NEW t \in Threads, ReadCurrent(t), BeginCall(t) \/ Step(t) \/ Fail(t)
  PROVE  ReadCurrent(t)'
<1> DEFINE c == call[t]
<1>1. /\ c \in Records /\ WellFormed(c) /\ WellFormed(c)'
  BY DEF TypeInv, TypeOK
<1>2. ASSUME call'[t].pc \notin ReadPcs PROVE ReadCurrent(t)'
  BY <1>2 DEF ReadCurrent
<1>3. ASSUME NEW res, Return(t, res) PROVE ReadCurrent(t)'
  BY <1>2, <1>3, ReturnLeaves
<1>4. ASSUME NEW op, NEW f, NEW x, NEW label, Begin(t, op, f, x, label),
             label = "lookup" => x = <<>>, label # "fetch"
      PROVE  ReadCurrent(t)'
  <2> DEFINE r == [Idle EXCEPT !.pc = label, !.op = op, !.file = f, !.new = x]
  <2>1. r.pc = label /\ r.new = x /\ r.done = 0 /\ call'[t] = r
    BY <1>4, GoesOn DEF Begin, Idle
  <2> HIDE DEF r
  <2> QED BY <1>4, <2>1 DEF ReadCurrent
<1>5. CASE BeginCall(t)
  BY <1>4, <1>5 DEF BeginCall, BeginIngest, BeginDelete, BeginRead, BeginRepair
<1>6. CASE Fail(t)
  BY <1>3, <1>6 DEF Fail
<1>7. CASE Lookup(t)
  <2> DEFINE m == manifest[c.file]
             r == [c EXCEPT !.pc = "fetch", !.new = m]
  <2>1. CASE m = None \/ m = <<>>
    BY <1>3, <1>7, <2>1 DEF Lookup
  <2>2. CASE m # None /\ m # <<>>
    <3>1. call'[t] = r
      BY <1>7, <2>2, GoesOn DEF Lookup
    <3>2. c.file \in Files /\ c.done = 0
      BY <1>1, <1>7 DEF Lookup, WellFormed, ReadCurrent
    <3>3. m \in Seq(Digests)
      BY <2>2, <3>2, StoreAssumption DEF TypeInv, TypeOK
    <3> HIDE DEF m
    <3>4. r.pc = "fetch" /\ r.new = m /\ r.file = c.file /\ r.done = c.done
      BY <1>1 DEF Records
    <3>5. 0 < Len(m)
      BY <2>2, <3>3
    <3> HIDE DEF r
    <3>6. manifest' = manifest
      BY <1>7 DEF Lookup, memory
    <3> QED BY <3>1, <3>2, <3>4, <3>5, <3>6 DEF ReadCurrent, m
  <2> QED BY <2>1, <2>2
<1>8. CASE Fetch(t)
  <2> DEFINE r == [c EXCEPT !.done = @ + 1]
  <2>1. \/ \E res : Return(t, res)
        \/ call'[t] = r /\ c.done + 1 # Len(c.new)
    BY <1>8, GoesOn DEF Fetch
  <2>2. /\ r.pc = c.pc /\ r.new = c.new /\ r.file = c.file /\ r.done = c.done + 1
        /\ c.pc = "fetch"
    BY <1>1, <1>8 DEF Records, Fetch
  <2>3. c.done < Len(c.new) /\ c.done \in Nat /\ Len(c.new) \in Nat
    <3>1. c.new \in Contents \cup {<<>>} /\ c.done \in Nat
      BY <1>1, StoreAssumption DEF Records
    <3>2. Contents \subseteq Seq(Digests) /\ <<>> \in Seq(Digests)
      BY StoreAssumption
    <3>3. c.new \in Seq(Digests)
      BY <3>1, <3>2
    <3> QED BY <2>2, <3>1, <3>3 DEF ReadCurrent
  <2> HIDE DEF r
  <2>4. manifest' = manifest
    BY <1>8 DEF Fetch, memory
  <2> QED BY <1>3, <2>1, <2>2, <2>3, <2>4 DEF ReadCurrent
<1>9. CASE Step(t) /\ ~Lookup(t) /\ ~Fetch(t)
  <2>1. c.pc \notin {"idle"} \cup ReadPcs
    BY <1>9 DEF Step, StoreExists, StorePut, Increment, SaveRefcount, RefIndexGet,
       RefIndexPut, Peek, Insert, SaveManifest, ManIndexGet, ManIndexPut, Remove, RemoveManifest,
       RmIndexGet, RmIndexPut, Size, Decrement, GcBlob, GcRefcount, GcIndexGet, GcIndexPut,
       FsckLive, FsckList, FsckUnlink
  <2>2. c.op # "read"
    BY <1>1, <2>1 DEF WellFormed, Records, Pcs
  <2>3. call'[t].op # "read"
    BY <1>9, <2>1, <2>2, KeepsOn DEF SameCall
  <2> QED BY <1>1, <1>2, <2>3 DEF WellFormed
<1> QED BY <1>5, <1>6, <1>7, <1>8, <1>9
-------------------------------------------------------------------------------
(* Steps of the whole store                                                     *)

\* What a running store's step changes of the threads: only the one that moves.
LEMMA OthersStayPut ==
  ASSUME TypeInv, NEW t \in Threads, BeginCall(t) \/ Step(t) \/ Fail(t)
  PROVE  OthersStay(t)
<1>1. (\E r : Become(t, r)) => OthersStay(t)
  BY DEF Become, OthersStay, TypeInv, TypeOK
<1> USE DEF Goto, Return, ReleaseRest, RefcountSaved
<1>2. CASE BeginCall(t) \/ Fail(t)
  BY <1>1, <1>2 DEF BeginCall, BeginIngest, BeginDelete, BeginRead, BeginRepair, Begin, Fail
<1>3. CASE StoreExists(t) \/ StorePut(t) \/ Increment(t)
  BY <1>1, <1>3 DEF StoreExists, StorePut, Increment
<1>4. CASE SaveRefcount(t) \/ RefIndexGet(t) \/ RefIndexPut(t)
  BY <1>1, <1>4 DEF SaveRefcount, RefIndexGet, RefIndexPut
<1>5. CASE Peek(t) \/ Insert(t) \/ SaveManifest(t) \/ ManIndexGet(t) \/ ManIndexPut(t)
  BY <1>1, <1>5 DEF Peek, Insert, SaveManifest, ManIndexGet, ManIndexPut
<1>6. CASE Remove(t) \/ RemoveManifest(t) \/ RmIndexGet(t) \/ RmIndexPut(t)
  BY <1>1, <1>6 DEF Remove, RemoveManifest, RmIndexGet, RmIndexPut
<1>7. CASE \/ Size(t) \/ Decrement(t) \/ GcBlob(t) \/ GcRefcount(t) \/ GcIndexGet(t)
           \/ GcIndexPut(t)
  BY <1>1, <1>7 DEF Size, Decrement, GcBlob, GcRefcount, GcIndexGet, GcIndexPut
<1>8. CASE Lookup(t) \/ Fetch(t) \/ FsckLive(t) \/ FsckList(t) \/ FsckUnlink(t)
  BY <1>1, <1>8 DEF Lookup, Fetch, FsckLive, FsckList, FsckUnlink
<1> QED BY <1>2, <1>3, <1>4, <1>5, <1>6, <1>7, <1>8 DEF Step

\* A process that has died takes no step.
LEMMA RunsUp ==
  ASSUME Down, NEW t \in Threads, BeginCall(t) \/ Step(t) \/ Fail(t)
  PROVE  up
<1>1. CASE call[t] # Idle
  BY <1>1 DEF Down
<1>2. CASE call[t] = Idle
  <2>1. BeginCall(t)
    BY <1>2, IdleNoStep
  <2> QED BY <2>1 DEF BeginCall, BeginIngest, BeginDelete, BeginRead, BeginRepair, Begin
<1> QED BY <1>1, <1>2

\* A call of the code finds what it looks for: then each step of a running store that
\* cuts no call short is one of FileStore, or none.
LEMMA LinearStep ==
  ASSUME TypeInv, Down, up, ~Crash, [Next]_vars,
         \A t \in Threads : NoError(t) /\ ~Fail(t) /\ ~Unsized(t)
  PROVE  MemoryStep
<1>1. ASSUME NEW t \in Threads, BeginCall(t) \/ Step(t) PROVE MemoryStep
  BY <1>1, OthersStayPut, MemThread
<1>2. CASE UNCHANGED vars
  <2>1. UNCHANGED <<manifest, call>>
    BY <1>2 DEF vars, memory
  <2>2. \A t \in Threads : RequestOf(t, InMemoryDone(t))' = RequestOf(t, InMemoryDone(t))
    BY <2>1 DEF RequestOf, InMemoryDone, Uncommitted, Busy
  <2> QED BY <2>1, <2>2 DEF MemoryStep, InMemory!FSStep
<1>3. ~Open
  BY DEF Open
<1> QED BY <1>1, <1>2, <1>3 DEF Next, Rest

\* release_digests finds a count for what it releases.
LEMMA ReleasesFind ==
  ASSUME CoverInv, NEW t \in Threads, ReadCurrent(t),
         call[t].pc = "fetch" => Chunk(t) \in blobs
  PROVE  NoError(t)
<1>1. TypeInv /\ RefcountCovers
  BY DEF CoverInv, WritersInv
<1>2. call[t].pc = "decrement" => rc[OldChunk(t)] > 0
  BY <1>1, OwedCounted
<1> QED BY <1>2 DEF NoError, ReadCurrent

\* When nothing fails on the backend, chunk_size finds what is there.
LEMMA SizeFound ==
  ASSUME CoverInv, SizesKnown, MaxFaults = 0, NEW t \in Threads
  PROVE  ~Fail(t) /\ ~Unsized(t)
<1>1. TypeInv /\ RefcountCovers /\ ~(faults < MaxFaults)
  BY DEF CoverInv, WritersInv, TypeInv, TypeOK
<1>2. ASSUME Unsized(t) PROVE FALSE
  <2>1. rc[OldChunk(t)] > 0 /\ (SizeOf[OldChunk(t)] > 0 \/ OldChunk(t) \in blobs)
    BY <1>1, <1>2, OwedCounted DEF SizesKnown, Unsized, Size
  <2> QED BY <1>1, <1>2, <2>1 DEF Unsized, Size
<1> QED BY <1>1, <1>2 DEF Fail

\* A read streams what the manifest says, and finds it.
LEMMA ReadsFind ==
  ASSUME TypeInv, FilesReadable, NEW t \in Threads, ReadCurrent(t), call[t].pc = "fetch"
  PROVE  Chunk(t) \in blobs
<1> DEFINE c == call[t]
           n == c.new
<1>1. /\ c.file \in Files /\ n = manifest[c.file] /\ c.done < Len(n)
      /\ n \in Contents \cup {<<>>} /\ c.done \in Nat
  BY StoreAssumption DEF TypeInv, TypeOK, Records, WellFormed, ReadCurrent
<1>2. n \in Seq(Digests)
  BY <1>1, StoreAssumption
<1> HIDE DEF n
<1>3. n \in Contents
  BY <1>1, <1>2
<1>4. n # None /\ c.done + 1 \in DOMAIN n
  <2>1. DOMAIN n = 1 .. Len(n) /\ Len(n) \in Nat
    BY <1>2
  <2>2. c.done + 1 \in 1 .. Len(n)
    BY <1>1, <2>1
  <2> QED BY <1>3, <2>1, <2>2, StoreAssumption
<1>5. n[c.done + 1] \in Needed(manifest[c.file])
  BY <1>1, <1>4 DEF Needed, ChunksOf
<1> QED BY <1>1, <1>5 DEF FilesReadable, Referenced, Chunk, n

-------------------------------------------------------------------------------
(* Linearizability                                                              *)

ReadInv == DurableInv /\ \A t \in Threads : ReadCurrent(t)

LEMMA ReadInvInit == Init => ReadInv
BY DurableInit DEF Init, Idle, ReadInv, ReadCurrent

LEMMA ReadInvStep ==
  ASSUME OneCaller, ReadInv, [Next]_vars
  PROVE  ReadInv'
<1>1. DurableInv' /\ TypeInv /\ TypeInv'
  BY DurableStep, TypeInvStep DEF ReadInv, DurableInv, WritersInv
<1> SUFFICES \A u \in Threads : ReadCurrent(u)'
  BY <1>1 DEF ReadInv
<1>2. ASSUME NEW t \in Threads, BeginCall(t) \/ Step(t) \/ Fail(t)
      PROVE  \A u \in Threads : ReadCurrent(u)'
  BY <1>1, <1>2, ReadsCurrent DEF ReadInv, OneCaller
<1>3. CASE Crash
  BY <1>3 DEF Crash, ReadCurrent, Idle
<1>4. CASE Open
  <2>1. UNCHANGED call /\ \A t \in Threads : call[t].pc = "idle"
    BY <1>4 DEF Open, ReadInv, DurableInv, Down, Idle
  <2> QED BY <2>1 DEF ReadCurrent
<1>5. CASE UNCHANGED vars
  <2>1. UNCHANGED <<manifest, call>>
    BY <1>5 DEF vars, memory
  <2> QED BY <2>1 DEF ReadInv, ReadCurrent
<1> QED BY <1>2, <1>3, <1>4, <1>5 DEF Next, Rest

\* With one caller at a time, nothing of chunks, counts, indexes and garbage
\* collection shows: each call takes effect on the whole file at one instant, and
\* fails only for want of the file or of an id.
THEOREM OneCallerLinearizable ==
  ASSUME OneCaller, MaxFaults = 0, MaxCrashes = 0
  PROVE  Spec => Linearizable
<1>1. ReadInv /\ up /\ [Next]_vars => ReadInv' /\ up'
  <2> SUFFICES ASSUME ReadInv, up, [Next]_vars PROVE ReadInv' /\ up'
    OBVIOUS
  <2>1. CoverInv
    BY OpenCovers DEF ReadInv
  <2> QED BY <2>1, ReadInvStep, CoverStep DEF WritersApart, CoverInv
<1>2. ReadInv /\ up /\ [Next]_vars => MemoryStep
  <2> SUFFICES ASSUME ReadInv, up, [Next]_vars PROVE MemoryStep
    OBVIOUS
  <2>1. CoverInv /\ SizesKnown /\ TypeInv /\ Down /\ FilesReadable
    BY OpenCovers, DurableReadable DEF ReadInv, CoverInv, WritersInv, DurableInv
  <2>2. \A t \in Threads : NoError(t)
    BY <2>1, ReadsFind, ReleasesFind DEF ReadInv
  <2>3. ~Crash
    BY <2>1 DEF Crash, TypeInv, TypeOK
  <2>4. \A t \in Threads : ~Fail(t) /\ ~Unsized(t)
    BY <2>1, SizeFound
  <2> QED BY <2>1, <2>2, <2>3, <2>4, LinearStep
<1>3. Init => ReadInv /\ up
  BY ReadInvInit DEF Init
<1> QED BY <1>1, <1>2, <1>3, MemInit, PTL DEF Spec, Linearizable, InMemory!FSSpec, MemoryStep

\* Nobody reads.
WritersOnly == \A t \in Threads : call[t].op # "read"

LEMMA WritersOnlyStep ==
  ASSUME TypeInv, Down, "read" \notin Ops, WritersOnly, ~Crash, ~Open, [Next]_vars
  PROVE  WritersOnly'
<1>1. ASSUME NEW t \in Threads, Step(t) \/ Fail(t) PROVE WritersOnly'
  <2>1. SameCall(t) /\ OthersStay(t)
    BY <1>1, KeepsOn, OthersStayPut
  <2> QED BY <2>1 DEF WritersOnly, SameCall, OthersStay
<1>2. ASSUME NEW t \in Threads, BeginCall(t) PROVE WritersOnly'
  <2>1. OthersStay(t)
    BY <1>2, OthersStayPut
  <2>2. ASSUME NEW o \in {"ingest", "delete", "repair"}, NEW f, NEW x, NEW label,
               Begin(t, o, f, x, label)
        PROVE  call'[t].op = o
    <3> DEFINE r == [Idle EXCEPT !.pc = label, !.op = o, !.file = f, !.new = x]
    <3>1. r.op = o /\ call'[t] = r
      BY <2>2, GoesOn DEF Begin, Idle
    <3> QED BY <3>1
  <2>3. call'[t].op \in {"ingest", "delete", "repair"}
    BY <1>2, <2>2 DEF BeginCall, BeginIngest, BeginDelete, BeginRead, BeginRepair
  <2> QED BY <2>1, <2>3 DEF WritersOnly, OthersStay
<1>3. CASE UNCHANGED vars
  BY <1>3 DEF vars, WritersOnly
<1> QED BY <1>1, <1>2, <1>3 DEF Next, Rest

\* Any number of threads may write, as long as no two write one file at once: their
\* ingests, deletes and repairs are linearizable, whatever chunks their files
\* share and however long the chunks are. Calls may be cut short, by a backend call
\* that fails, an id that is refused or the size of an empty chunk that is not
\* there: the step that does it may leave its file changed and say "error", but no
\* other step, then or later, is anything but a step of FileStore. (A read that
\* meets a delete may fail: it looks the file up and streams it without keeping its
\* chunks.)
THEOREM WritersLinearizable ==
  ASSUME WritersApart, "read" \notin Ops, MaxCrashes = 0
  PROVE  Spec => LinearizableUncut
<1> DEFINE Inv == CoverInv /\ WritersOnly
<1>1. ASSUME Inv, [Next]_vars PROVE Inv' /\ (faults' = faults => MemoryStep)
  <2>1. CoverInv' /\ TypeInv /\ up /\ Down
    BY <1>1, CoverStep DEF CoverInv, WritersInv, Down
  <2>2. ~Crash /\ ~Open
    BY <2>1 DEF Crash, Open, TypeInv, TypeOK
  <2>3. ASSUME NEW t \in Threads PROVE NoError(t)
    <3>1. call[t].pc \notin {"lookup", "fetch"}
      BY <1>1, <2>1 DEF WritersOnly, TypeInv, WellFormed
    <3> QED BY <1>1, <2>1, <3>1, ReleasesFind DEF ReadCurrent
  <2>4. ASSUME faults' = faults, NEW t \in Threads PROVE ~Fail(t) /\ ~Unsized(t)
    <3>1. faults' # faults + 1
      BY <2>1, <2>4 DEF TypeInv, TypeOK
    <3> QED BY <2>4, <3>1 DEF Fail, Unsized
  <2>5. faults' = faults => MemoryStep
    BY <1>1, <2>1, <2>2, <2>3, <2>4, LinearStep
  <2> QED BY <1>1, <2>1, <2>2, <2>5, WritersOnlyStep
<1>2. Init => Inv
  BY CoverInit DEF Init, Idle, WritersOnly
<1> HIDE DEF Inv
<1> QED BY <1>1, <1>2, MemInit, PTL DEF Spec, LinearizableUncut, MemoryStep

WrittenPcs == {"save_manifest", "man_index_get", "man_index_put"}
-------------------------------------------------------------------------------
(* The store implements FileStore on its backend, crashes included: OnBackend.  *)

DiskFiles == [f \in Files |-> LoadedFile(f)]
DiskReq   == [t \in Threads |-> RequestOf(t, OnBackendDone(t))]

BackendStep == OnBackend!FSStep

\* What a call that is about to change the backend's files relies on.
Pending(t) ==
  /\ call[t].pc \in WrittenPcs => call[t].file \notin EmptyIds
  /\ call[t].pc = "remove_manifest" => LoadedFile(call[t].file) # None

LEMMA DiskSame == UNCHANGED <<mrec, midx>> => DiskFiles' = DiskFiles
BY DEF DiskFiles, LoadedFile

LEMMA DiskOne ==
  ASSUME NEW f \in Files, NEW x, LoadedFile(f)' = x,
         \A g \in Files \ {f} : LoadedFile(g)' = LoadedFile(g)
  PROVE  DiskFiles' = [DiskFiles EXCEPT ![f] = x]
BY DEF DiskFiles

LEMMA DiskReqMoves ==
  ASSUME OneCaller, NEW t \in Threads
  PROVE  DiskReq' = [DiskReq EXCEPT ![t] = RequestOf(t, OnBackendDone(t))']
<1>1. \A u \in Threads : u = t
  BY DEF OneCaller
<1> QED BY <1>1 DEF DiskReq

LEMMA DiskStutters ==
  ASSUME OneCaller, NEW t \in Threads, DiskFiles' = DiskFiles, NEW answered \in BOOLEAN,
         OnBackendDone(t) <=> answered, OnBackendDone(t)' <=> answered,
         RequestOf(t, answered)' = RequestOf(t, answered)
  PROVE  BackendStep
<1>1. RequestOf(t, OnBackendDone(t))' = RequestOf(t, OnBackendDone(t))
  BY DEF RequestOf
<1>2. DiskReq' = DiskReq
  BY <1>1, DiskReqMoves DEF DiskReq
<1> QED BY <1>2 DEF BackendStep, OnBackend!FSStep, DiskReq, DiskFiles

\* A call takes effect on the backend.
DiskAnswers(t, res, c) ==
  /\ SameCall(t)
  /\ ~OnBackendDone(t) /\ OnBackendDone(t)'
  /\ res = IF Busy(t)' THEN "ok" ELSE call'[t].result
  /\ c = IF call[t].op = "read" THEN call'[t].new ELSE <<>>

LEMMA DiskAnswered ==
  ASSUME OneCaller, NEW t \in Threads, NEW res, NEW c, DiskAnswers(t, res, c)
  PROVE  /\ OnBackend!Answer(t, res, c)
         /\ DiskReq[t].op = call[t].op /\ DiskReq[t].file = call[t].file
         /\ DiskReq[t].content = IF call[t].op = "ingest" THEN call[t].new ELSE <<>>
<1> DEFINE x == IF call[t].op = "ingest" THEN call[t].new ELSE <<>>
           old == CalledRequest(call[t].op, call[t].file, x)
           new == AnsweredRequest(call[t].op, call[t].file, res, c)
<1>1. RequestOf(t, OnBackendDone(t)) = old /\ RequestOf(t, OnBackendDone(t))' = new
  BY DEF DiskAnswers, RequestOf, SameCall, CalledRequest, AnsweredRequest
<1>2. DiskReq[t] = old
  BY <1>1 DEF DiskReq
<1>3. DiskReq' = [DiskReq EXCEPT ![t] = new]
  BY <1>1, DiskReqMoves
<1>4. new = Answering(old, res, c)
  BY AnswerFields
<1>5. /\ DiskReq[t].op = call[t].op /\ DiskReq[t].file = call[t].file /\ DiskReq[t].content = x
      /\ DiskReq[t].phase = "called"
  BY <1>2 DEF CalledRequest
<1>6. DiskReq' = [DiskReq EXCEPT ![t] = Answering(@, res, c)]
  BY <1>2, <1>3, <1>4
<1> HIDE DEF old, new, x
<1>7. DiskReq' = [DiskReq EXCEPT ![t].phase = "answered", ![t].result = res, ![t].content = c]
  BY <1>6 DEF Answering
<1> QED BY <1>5, <1>7 DEF OnBackend!Answer, DiskReq, x

\* Steps that do not show on the backend.
LEMMA DiskHidden ==
  ASSUME OneCaller, NEW t \in Threads, DiskFiles' = DiskFiles, SameCall(t), Busy(t),
         \/ /\ ~OnBackendDone(t) /\ ~OnBackendDone(t)'
            /\ call[t].op = "ingest" => call'[t].new = call[t].new
         \/ /\ OnBackendDone(t) /\ OnBackendDone(t)'
            /\ call[t].op = "read" => call'[t].new = call[t].new
            /\ Busy(t)' \/ call'[t].result = "ok"
  PROVE  BackendStep
<1>1. CASE ~OnBackendDone(t)
  BY <1>1, RequestStays, DiskStutters
<1>2. CASE OnBackendDone(t)
  BY <1>2, RequestStays, DiskStutters
<1> QED BY <1>1, <1>2

LEMMA DiskStoring ==
  ASSUME OneCaller, TypeInv, NEW t \in Threads, Uncommitted(t), Step(t), ~Insert(t)
  PROVE  BackendStep /\ Pending(t)'
<1>1. /\ DiskFiles' = DiskFiles /\ SameCall(t) /\ call'[t].new = call[t].new
      /\ call'[t].released = 0 /\ call'[t].pc \in StorePcs \cup {"peek", "insert"}
  BY StoringGoes, DiskSame DEF FilesAlone
<1>2. call[t].op = "ingest" /\ Busy(t) /\ Uncommitted(t)'
  BY <1>1 DEF Uncommitted, Busy, SameCall
<1>3. Pending(t)'
  BY <1>1 DEF Pending, WrittenPcs
<1> QED BY <1>1, <1>2, <1>3, DiskHidden DEF OnBackendDone, SameCall

LEMMA DiskFreeing ==
  ASSUME OneCaller, TypeInv, NEW t \in Threads, Freeing(t), NoError(t), ~Unsized(t), Step(t)
  PROVE  BackendStep /\ Pending(t)'
<1>1. call[t] \in Records /\ WellFormed(call[t])
  BY DEF TypeInv, TypeOK
<1>2. /\ DiskFiles' = DiskFiles /\ SameCall(t)
      /\ Freeing(t)' \/ (call'[t].pc = "idle" /\ call'[t].result = "ok")
  BY FreeingGoes, ReturnLeaves, DiskSame DEF FilesAlone
<1>3. /\ call[t].op \in {"ingest", "delete"} /\ Busy(t) /\ ~Uncommitted(t)
      /\ call[t].pc \notin {"remove", "remove_manifest"} \cup WrittenPcs
  BY <1>1 DEF Freeing, WellFormed, SavingPcs, Busy, Uncommitted, WrittenPcs
<1>4. ~Uncommitted(t)' /\ call'[t].pc \notin {"remove", "remove_manifest"} \cup WrittenPcs
  BY <1>2 DEF Freeing, SavingPcs, Uncommitted, WrittenPcs
<1>5. Busy(t)' \/ call'[t].result = "ok"
  BY <1>2 DEF Busy, Freeing, SavingPcs
<1>6. OnBackendDone(t) /\ OnBackendDone(t)'
  BY <1>2, <1>3, <1>4 DEF OnBackendDone, SameCall, WrittenPcs
<1>7. Pending(t)'
  BY <1>4 DEF Pending
<1> QED BY <1>2, <1>3, <1>5, <1>6, <1>7, DiskHidden

LEMMA DiskCommit ==
  ASSUME OneCaller, TypeInv, NEW t \in Threads, FileSaved(t), Pending(t), faults' = faults,
         Insert(t) \/ SaveManifest(t) \/ ManIndexGet(t) \/ ManIndexPut(t)
  PROVE  BackendStep /\ Pending(t)'
<1> DEFINE c == call[t]
           f == call[t].file
<1>1. /\ c \in Records /\ WellFormed(c) /\ c.pc \in CommitPcs /\ c.op = "ingest" /\ f \in Files
      /\ Busy(t) /\ c.released = 0
      /\ mrec \in [Files -> Contents \cup {None}] /\ faults \in Nat
  BY DEF TypeInv, TypeOK, WellFormed, Busy, Insert, SaveManifest, ManIndexGet, ManIndexPut
<1>2. ASSUME ReleaseRest(t)
      PROVE  /\ SameCall(t) /\ Pending(t)'
             /\ call'[t].pc = "size" \/ (call'[t].pc = "idle" /\ call'[t].result = "ok")
    BY <1>2, RestLeaves, ReturnLeaves DEF Pending, WrittenPcs
<1>3. ASSUME call'[t].pc = "size" \/ (call'[t].pc = "idle" /\ call'[t].result = "ok"), SameCall(t)
      PROVE  OnBackendDone(t)' /\ (Busy(t)' \/ call'[t].result = "ok")
  BY <1>1, <1>3 DEF OnBackendDone, Uncommitted, SameCall, Busy
<1>4. CASE Insert(t)
  <2>1. f \notin EmptyIds
    BY <1>1, <1>4 DEF Insert
  <2>2. /\ Keeps(t) /\ call'[t].pc = "save_manifest" /\ UNCHANGED <<mrec, midx>>
    BY <1>4, <2>1, GotoKeeps DEF Insert, backend
  <2>3. c.pc = "insert" /\ Uncommitted(t)
    BY <1>1, <1>4 DEF Insert, Uncommitted
  <2>4. ~OnBackendDone(t) /\ ~OnBackendDone(t)'
    BY <1>1, <2>2, <2>3 DEF OnBackendDone, Keeps
  <2>5. Pending(t)'
    BY <2>1, <2>2 DEF Pending, Keeps
  <2> QED BY <1>1, <2>2, <2>4, <2>5, DiskSame, DiskHidden DEF Keeps, SameCall
<1>5. ASSUME DiskAnswers(t, "ok", <<>>), DiskFiles' = [DiskFiles EXCEPT ![f] = c.new],
             f \notin EmptyIds
      PROVE  BackendStep
  <2>1. OnBackend!Ingested(t)
    BY <1>1, <1>5, DiskAnswered DEF OnBackend!Ingested, DiskReq, DiskFiles
  <2> QED BY <2>1 DEF BackendStep, OnBackend!FSStep, OnBackend!FSNext
<1>6. CASE SaveManifest(t)
  <2>1. /\ mrec' = [mrec EXCEPT ![f] = c.new] /\ midx' = midx /\ c.pc = "save_manifest"
        /\ Keeps(t) /\ call'[t].pc = "man_index_get"
    BY <1>6, GotoKeeps DEF SaveManifest
  <2>2. f \notin EmptyIds /\ ~OnBackendDone(t) /\ ~Uncommitted(t)' /\ Busy(t)' /\ SameCall(t)
    BY <1>1, <2>1 DEF Pending, WrittenPcs, OnBackendDone, Uncommitted, Busy, Keeps, SameCall
  <2>3. Pending(t)'
    BY <2>1, <2>2 DEF Pending, SameCall
  <2>4. CASE f \in midx
    <3>1. OnBackendDone(t)'
      BY <1>1, <2>1, <2>2, <2>4 DEF OnBackendDone, SameCall
    <3>2. DiskFiles' = [DiskFiles EXCEPT ![f] = c.new]
      BY <1>1, <2>1, <2>4, DiskOne DEF LoadedFile
    <3> QED BY <1>1, <1>5, <2>2, <2>3, <3>1, <3>2 DEF DiskAnswers
  <2>5. CASE f \notin midx
    <3>1. ~OnBackendDone(t)'
      BY <1>1, <2>1, <2>2, <2>5 DEF OnBackendDone, SameCall
    <3>2. DiskFiles' = DiskFiles
      BY <1>1, <2>1, <2>5 DEF DiskFiles, LoadedFile
    <3> QED BY <1>1, <2>1, <2>2, <2>3, <3>1, <3>2, DiskHidden DEF Keeps
  <2> QED BY <2>4, <2>5
<1>7. CASE ManIndexGet(t)
  <2>1. /\ UNCHANGED <<mrec, midx>> /\ c.pc = "man_index_get" /\ ~Uncommitted(t)
    BY <1>1, <1>7 DEF ManIndexGet, backend, Uncommitted
  <2>2. CASE f \in midx
    <3>1. OnBackendDone(t) /\ ReleaseRest(t)
      BY <1>1, <1>7, <2>1, <2>2 DEF ManIndexGet, OnBackendDone
    <3> QED BY <1>1, <1>2, <1>3, <2>1, <3>1, DiskSame, DiskHidden
  <2>3. CASE f \notin midx
    <3>1. Keeps(t) /\ call'[t].pc = "man_index_put"
      BY <1>7, <2>3, SeenKeeps DEF ManIndexGet
    <3>2. ~OnBackendDone(t) /\ ~OnBackendDone(t)' /\ Pending(t)'
      BY <1>1, <2>1, <2>3, <3>1 DEF OnBackendDone, Keeps, Pending, WrittenPcs
    <3> QED BY <1>1, <2>1, <3>1, <3>2, DiskSame, DiskHidden DEF Keeps, SameCall
  <2> QED BY <2>2, <2>3
<1>8. CASE ManIndexPut(t)
  <2>1. /\ mrec' = mrec /\ midx' = midx \cup {f} /\ c.pc = "man_index_put" /\ ReleaseRest(t)
        /\ mrec[f] = c.new
    BY <1>8 DEF ManIndexPut, IndexWith, FileSaved
  <2>2. DiskFiles' = [DiskFiles EXCEPT ![f] = c.new]
    BY <1>1, <2>1, DiskOne DEF LoadedFile
  <2>3. f \notin EmptyIds /\ ~OnBackendDone(t)
    BY <1>1, <2>1 DEF Pending, WrittenPcs, OnBackendDone
  <2>4. OnBackendDone(t)' /\ SameCall(t) /\ (Busy(t)' \/ call'[t].result = "ok")
    BY <1>2, <1>3, <2>1
  <2> QED BY <1>1, <1>2, <1>5, <2>1, <2>2, <2>3, <2>4 DEF DiskAnswers
<1> QED BY <1>4, <1>6, <1>7, <1>8

LEMMA DiskDelete ==
  ASSUME OneCaller, TypeInv, FilesMatch, NEW t \in Threads, FileSaved(t), Pending(t),
         Remove(t) \/ RemoveManifest(t) \/ RmIndexGet(t) \/ RmIndexPut(t)
  PROVE  BackendStep /\ Pending(t)'
<1> DEFINE c == call[t]
           f == call[t].file
<1>1. /\ c \in Records /\ WellFormed(c) /\ c.pc \in DeletePcs /\ c.op = "delete" /\ f \in Files
      /\ Busy(t) /\ mrec \in [Files -> Contents \cup {None}]
  BY DEF TypeInv, TypeOK, WellFormed, Busy, Remove, RemoveManifest, RmIndexGet, RmIndexPut
<1>2. CASE Remove(t)
  <2>1. /\ ~OnBackendDone(t) /\ UNCHANGED <<mrec, midx>> /\ LoadedFile(f) = manifest[f]
    BY <1>1, <1>2 DEF Remove, backend, OnBackendDone, FilesMatch, OneCaller, LandingPcs
  <2>2. CASE manifest[f] = None
    <3>1. Return(t, "err")
      BY <1>2, <2>2 DEF Remove
    <3>2. /\ call'[t].pc = "idle" /\ SameCall(t) /\ call'[t].result = "err" /\ ~Busy(t)'
          /\ OnBackendDone(t)'
      BY <1>1, <3>1, ReturnLeaves DEF OnBackendDone, SameCall, Busy
    <3>3. DiskAnswers(t, "err", <<>>) /\ DiskFiles[f] = None /\ DiskFiles' = DiskFiles
      BY <1>1, <2>1, <2>2, <3>2, DiskSame DEF DiskAnswers, DiskFiles
    <3>4. OnBackend!Refused(t)
      BY <1>1, <3>3, DiskAnswered DEF OnBackend!Refused, DiskReq, DiskFiles
    <3> QED BY <3>2, <3>4 DEF BackendStep, OnBackend!FSStep, OnBackend!FSNext, Pending, WrittenPcs
  <2>3. CASE manifest[f] # None
    <3> DEFINE r == [c EXCEPT !.pc = "remove_manifest", !.old = manifest[f]]
    <3>1. call'[t] = r
      BY <1>2, <2>3, GoesOn DEF Remove
    <3>2. r.pc = "remove_manifest" /\ r.op = "delete" /\ r.file = f
      BY <1>1 DEF Records
    <3> HIDE DEF r
    <3>3. SameCall(t) /\ ~OnBackendDone(t)'
      BY <1>1, <3>1, <3>2 DEF SameCall, OnBackendDone
    <3>4. Pending(t)'
      BY <2>1, <2>3, <3>1, <3>2 DEF Pending, WrittenPcs, LoadedFile
    <3> QED BY <1>1, <2>1, <3>3, <3>4, DiskSame, DiskHidden
  <2> QED BY <2>2, <2>3
<1>3. CASE RemoveManifest(t)
  <2>1. /\ mrec' = [mrec EXCEPT ![f] = None] /\ midx' = midx /\ c.pc = "remove_manifest"
        /\ Keeps(t) /\ call'[t].pc = "rm_index_get"
    BY <1>3, GotoKeeps DEF RemoveManifest
  <2>2. DiskAnswers(t, "ok", <<>>) /\ Pending(t)'
    BY <1>1, <2>1 DEF DiskAnswers, Keeps, SameCall, OnBackendDone, Busy, Pending, WrittenPcs
  <2>3. DiskFiles' = [DiskFiles EXCEPT ![f] = None]
    BY <1>1, <2>1, DiskOne DEF LoadedFile
  <2>4. DiskFiles[f] # None
    BY <1>1, <2>1 DEF DiskFiles, Pending
  <2>5. OnBackend!Deleted(t)
    BY <1>1, <2>2, <2>3, <2>4, DiskAnswered DEF OnBackend!Deleted, DiskReq, DiskFiles
  <2> QED BY <2>2, <2>5 DEF BackendStep, OnBackend!FSStep, OnBackend!FSNext
<1>4. CASE RmIndexGet(t)
  <2>1. /\ UNCHANGED <<mrec, midx>> /\ c.pc = "rm_index_get"
        /\ Keeps(t) /\ call'[t].pc = "rm_index_put"
    BY <1>4, SeenKeeps DEF RmIndexGet, backend
  <2>2. SameCall(t) /\ OnBackendDone(t) /\ OnBackendDone(t)' /\ Busy(t)' /\ Pending(t)'
    BY <1>1, <2>1 DEF Keeps, SameCall, OnBackendDone, Busy, Pending, WrittenPcs
  <2> QED BY <1>1, <2>1, <2>2, DiskSame, DiskHidden
<1>5. CASE RmIndexPut(t)
  <2>1. /\ mrec' = mrec /\ midx' = midx \ {f} /\ c.pc = "rm_index_put" /\ ReleaseRest(t)
        /\ mrec[f] = None
    BY <1>5 DEF RmIndexPut, FileSaved
  <2>2. DiskFiles' = DiskFiles
    BY <2>1 DEF DiskFiles, LoadedFile
  <2>3. /\ SameCall(t)
        /\ call'[t].pc = "size" \/ (call'[t].pc = "idle" /\ call'[t].result = "ok")
    BY <2>1, RestLeaves, ReturnLeaves
  <2>4. /\ OnBackendDone(t) /\ OnBackendDone(t)' /\ (Busy(t)' \/ call'[t].result = "ok")
        /\ Pending(t)'
    BY <1>1, <2>1, <2>3 DEF SameCall, OnBackendDone, Busy, Pending, WrittenPcs
  <2> QED BY <1>1, <2>2, <2>3, <2>4, DiskHidden
<1> QED BY <1>2, <1>3, <1>4, <1>5

LEMMA DiskRead ==
  ASSUME OneCaller, TypeInv, FilesMatch, NEW t \in Threads, NoError(t), Lookup(t) \/ Fetch(t)
  PROVE  BackendStep /\ Pending(t)'
<1> DEFINE c == call[t]
           f == call[t].file
           m == manifest[f]
<1>1. /\ c \in Records /\ WellFormed(c) /\ c.pc \in ReadPcs /\ c.op = "read" /\ f \in Files
      /\ Busy(t) /\ DiskFiles' = DiskFiles
  BY DiskSame DEF TypeInv, TypeOK, WellFormed, Busy, Lookup, Fetch, backend
<1>2. ASSUME NEW res, Return(t, res)
      PROVE  /\ OnBackendDone(t)' /\ SameCall(t) /\ call'[t].result = res /\ ~Busy(t)'
             /\ res = "ok" => call'[t].new = c.new
             /\ Pending(t)'
  BY <1>1, <1>2, ReturnLeaves DEF OnBackendDone, SameCall, Busy, Pending, WrittenPcs
<1>3. CASE Lookup(t)
  <2>1. c.pc = "lookup" /\ ~OnBackendDone(t) /\ c.new = <<>> /\ DiskFiles[f] = m
    BY <1>1, <1>3 DEF Lookup, OnBackendDone, NoError, FilesMatch, OneCaller, LandingPcs, DiskFiles
  <2>2. CASE m = None
    <3>1. Return(t, "err")
      BY <1>3, <2>2 DEF Lookup
    <3>2. call'[t].new = <<>>
      <4> DEFINE r == Returned(t, "err")
      <4>1. r.new = <<>>
        BY DEF Returned, Idle
      <4>2. call'[t] = r
        BY <3>1, GoesOn DEF Return
      <4> QED BY <4>1, <4>2
    <3>3. DiskAnswers(t, "err", <<>>)
      BY <1>1, <1>2, <2>1, <3>1, <3>2 DEF DiskAnswers
    <3>4. OnBackend!Refused(t)
      BY <1>1, <2>1, <2>2, <3>3, DiskAnswered DEF OnBackend!Refused, DiskReq, DiskFiles
    <3> QED BY <1>2, <3>1, <3>4 DEF BackendStep, OnBackend!FSStep, OnBackend!FSNext
  <2>3. ASSUME m # None, DiskAnswers(t, "ok", m) PROVE BackendStep
    <3>1. OnBackend!ReadBack(t)
      BY <1>1, <2>1, <2>3, DiskAnswered DEF OnBackend!ReadBack, DiskReq, DiskFiles
    <3> QED BY <3>1 DEF BackendStep, OnBackend!FSStep, OnBackend!FSNext
  <2>4. CASE m # None /\ m = <<>>
    <3>1. Return(t, "ok")
      BY <1>3, <2>4 DEF Lookup
    <3>2. DiskAnswers(t, "ok", m)
      BY <1>1, <1>2, <2>1, <2>4, <3>1 DEF DiskAnswers
    <3> QED BY <1>2, <2>3, <2>4, <3>1, <3>2
  <2>5. CASE m # None /\ m # <<>>
    <3> DEFINE r == [c EXCEPT !.pc = "fetch", !.new = m]
    <3>1. call'[t] = r
      BY <1>3, <2>5, GoesOn DEF Lookup
    <3> HIDE DEF m
    <3>2. r.pc = "fetch" /\ r.op = c.op /\ r.file = c.file /\ r.new = m
      BY <1>1 DEF Records
    <3> HIDE DEF r
    <3>3. DiskAnswers(t, "ok", m) /\ Pending(t)'
      BY <1>1, <2>1, <3>1, <3>2 DEF DiskAnswers, SameCall, OnBackendDone, Busy, Pending, WrittenPcs
    <3> QED BY <2>3, <2>5, <3>3
  <2> QED BY <2>2, <2>4, <2>5
<1>4. CASE Fetch(t)
  <2>1. OnBackendDone(t) /\ c.pc = "fetch" /\ Chunk(t) \in blobs
    BY <1>1, <1>4 DEF Fetch, OnBackendDone, NoError
  <2>2. CASE c.done + 1 = Len(c.new)
    <3>1. Return(t, "ok")
      BY <1>4, <2>1, <2>2 DEF Fetch
    <3> QED BY <1>1, <1>2, <2>1, <3>1, DiskHidden
  <2>3. CASE c.done + 1 # Len(c.new)
    <3> DEFINE r == [c EXCEPT !.done = @ + 1]
    <3>1. call'[t] = r
      BY <1>4, <2>1, <2>3, GoesOn DEF Fetch
    <3>2. r.pc = "fetch" /\ r.op = c.op /\ r.file = c.file /\ r.new = c.new
      BY <1>1, <2>1 DEF Records
    <3> HIDE DEF r
    <3>3. OnBackendDone(t)' /\ SameCall(t) /\ Busy(t)' /\ call'[t].new = c.new /\ Pending(t)'
      BY <1>1, <3>1, <3>2 DEF SameCall, OnBackendDone, Busy, Pending, WrittenPcs
    <3> QED BY <1>1, <2>1, <3>3, DiskHidden
  <2> QED BY <2>2, <2>3
<1> QED BY <1>3, <1>4

LEMMA DiskRepair ==
  ASSUME OneCaller, TypeInv, NEW t \in Threads, FsckLive(t) \/ FsckList(t) \/ FsckUnlink(t)
  PROVE  BackendStep /\ Pending(t)'
<1> DEFINE c == call[t]
<1>1. /\ c \in Records /\ WellFormed(c) /\ c.pc \in RepairPcs /\ c.op = "repair"
      /\ Busy(t) /\ DiskFiles' = DiskFiles /\ ~OnBackendDone(t)
  BY DiskSame DEF TypeInv, TypeOK, WellFormed, Busy, FsckLive, FsckList, FsckUnlink, backend,
     OnBackendDone
<1>2. CASE Return(t, "ok")
  <2>1. Return(t, "ok")
    BY <1>2
  <2>2. DiskAnswers(t, "ok", <<>>) /\ Pending(t)'
    BY <1>1, <2>1, ReturnLeaves DEF DiskAnswers, OnBackendDone, SameCall, Busy, Pending, WrittenPcs
  <2>3. OnBackend!Repaired(t)
    BY <1>1, <2>2, DiskAnswered DEF OnBackend!Repaired, DiskReq, DiskFiles
  <2> QED BY <2>2, <2>3 DEF BackendStep, OnBackend!FSStep, OnBackend!FSNext
<1>3. ASSUME NEW p \in RepairPcs, NEW s, call'[t] = [c EXCEPT !.pc = p, !.seen = s]
      PROVE  BackendStep /\ Pending(t)'
  <2> DEFINE r == [c EXCEPT !.pc = p, !.seen = s]
  <2>1. r.pc = p /\ r.op = c.op /\ r.file = c.file
    BY <1>1 DEF Records
  <2>2. call'[t] = r
    BY <1>3
  <2> HIDE DEF r
  <2>3. SameCall(t) /\ ~OnBackendDone(t)' /\ Pending(t)'
    BY <1>1, <2>1, <2>2 DEF SameCall, OnBackendDone, Busy, Pending, WrittenPcs
  <2> QED BY <1>1, <2>3, DiskHidden
<1>4. CASE FsckLive(t) \/ (FsckList(t) /\ ~Return(t, "ok"))
  BY <1>3, <1>4, GoesOn DEF FsckLive, FsckList
<1>5. CASE FsckUnlink(t) /\ c.seen # {}
  <2>1. PICK d \in c.seen : Become(t, [c EXCEPT !.seen = @ \ {d}])
    BY <1>5 DEF FsckUnlink
  <2>2. c.pc = "fsck_unlink"
    BY <1>5 DEF FsckUnlink
  <2>3. [c EXCEPT !.seen = @ \ {d}] = [c EXCEPT !.pc = "fsck_unlink", !.seen = c.seen \ {d}]
    BY <1>1, <2>2 DEF Records
  <2> QED BY <1>3, <2>1, <2>3, GoesOn
<1> QED BY <1>2, <1>4, <1>5 DEF FsckUnlink

LEMMA DiskBegin ==
  ASSUME OneCaller, TypeInv, NEW t \in Threads, BeginCall(t)
  PROVE  BackendStep /\ Pending(t)'
<1>1. ASSUME NEW op \in {"ingest", "delete", "read", "repair"}, NEW f \in Files \cup {None},
             NEW x \in Contents \cup {<<>>},
             NEW label \in {"peek", "exists", "remove", "lookup", "fsck_live"},
             Begin(t, op, f, x, label),
             op = "ingest" => label \in {"peek", "exists"},
             op = "delete" => label = "remove", op = "read" => label = "lookup",
             op # "ingest" => x = <<>>
      PROVE  BackendStep /\ Pending(t)'
  <2> DEFINE r == [Idle EXCEPT !.pc = label, !.op = op, !.file = f, !.new = x]
             q == [OnBackend!NoRequest EXCEPT !.op = op, !.file = f, !.phase = "called",
                                              !.content = x]
  <2>1. r.pc = label /\ r.op = op /\ r.file = f /\ r.new = x /\ r.released = 0
    BY DEF Idle
  <2>2. call'[t] = r /\ DiskFiles' = DiskFiles /\ ~Busy(t)
    BY <1>1, GoesOn, DiskSame DEF Begin, backend
  <2> HIDE DEF r
  <2>3. OnBackendDone(t)
    BY <2>2 DEF OnBackendDone, Uncommitted, Busy
  <2>4. ~OnBackendDone(t)' /\ Pending(t)'
    BY <1>1, <2>1, <2>2 DEF OnBackendDone, Uncommitted, Busy, Pending, WrittenPcs
  <2>5. RequestOf(t, OnBackendDone(t))' = CalledRequest(op, f, x)
    BY <1>1, <2>1, <2>2, <2>4 DEF RequestOf, CalledRequest
  <2>6. q = CalledRequest(op, f, x)
    BY InvokeFields DEF Invoking, OnBackend!NoRequest, InMemory!NoRequest
  <2>7. DiskReq' = [DiskReq EXCEPT ![t] = q] /\ DiskReq[t].phase = "answered"
    <3>1. DiskReq' = [DiskReq EXCEPT ![t] = q]
      BY <2>5, <2>6, DiskReqMoves
    <3>2. DiskReq[t] = RequestOf(t, OnBackendDone(t))
      BY DEF DiskReq
    <3>3. RequestOf(t, OnBackendDone(t)).phase = "answered"
      BY <2>3 DEF RequestOf
    <3> QED BY <3>1, <3>2, <3>3
  <2> HIDE DEF q
  <2>8. \E o \in {"ingest", "delete", "read", "repair"} :
        \E g \in Files \cup {None}, y \in Contents \cup {<<>>} :
          DiskReq' = [DiskReq EXCEPT ![t] = [OnBackend!NoRequest EXCEPT !.op = o, !.file = g,
                                       !.phase = "called", !.content = y]]
    BY <2>7 DEF q
  <2>9. OnBackend!Invoke(t)
    BY <2>2, <2>7, <2>8 DEF OnBackend!Invoke, DiskReq, DiskFiles
  <2> QED BY <2>4, <2>9 DEF BackendStep, OnBackend!FSStep, OnBackend!FSNext
<1>2. CASE \E f \in Files, x \in Contents : BeginIngest(t, f, x)
  BY <1>1, <1>2 DEF BeginIngest
<1>3. CASE (\E f \in Files : BeginDelete(t, f) \/ BeginRead(t, f)) \/ BeginRepair(t)
  BY <1>1, <1>3 DEF BeginDelete, BeginRead, BeginRepair
<1> QED BY <1>2, <1>3 DEF BeginCall

LEMMA DiskThread ==
  ASSUME OneCaller, TypeInv, FilesMatch, NEW t \in Threads, FileSaved(t), Pending(t), NoError(t),
         faults' = faults, BeginCall(t) \/ Step(t)
  PROVE  BackendStep /\ Pending(t)'
<1>1. call[t] \in Records /\ WellFormed(call[t])
  BY DEF TypeInv, TypeOK
<1>2. ~Unsized(t)
  BY DEF Unsized
<1>3. CASE BeginCall(t)
  BY <1>3, DiskBegin
<1>4. CASE StoreExists(t) \/ StorePut(t) \/ Increment(t) \/ Peek(t)
  <2>1. Uncommitted(t) /\ ~Insert(t) /\ Step(t)
    BY <1>1, <1>4 DEF StoreExists, StorePut, Increment, Peek, Insert, Uncommitted, WellFormed, Step
  <2> QED BY <2>1, DiskStoring
<1>5. CASE SaveRefcount(t) \/ RefIndexGet(t) \/ RefIndexPut(t)
  <2>1. call[t].pc \in SavingPcs /\ ~Insert(t) /\ Step(t)
    BY <1>5 DEF SaveRefcount, RefIndexGet, RefIndexPut, SavingPcs, Insert, Step
  <2>2. Uncommitted(t) \/ Freeing(t)
    BY <1>1, <2>1 DEF Uncommitted, Freeing, SavingPcs, WellFormed, Records
  <2> QED BY <1>2, <2>1, <2>2, DiskStoring, DiskFreeing
<1>6. CASE Insert(t) \/ SaveManifest(t) \/ ManIndexGet(t) \/ ManIndexPut(t)
  BY <1>6, DiskCommit
<1>7. CASE Remove(t) \/ RemoveManifest(t) \/ RmIndexGet(t) \/ RmIndexPut(t)
  BY <1>7, DiskDelete
<1>8. CASE \/ Size(t) \/ Decrement(t) \/ GcBlob(t) \/ GcRefcount(t) \/ GcIndexGet(t)
           \/ GcIndexPut(t)
  <2>1. Freeing(t) /\ Step(t)
    BY <1>8 DEF Size, Decrement, GcBlob, GcRefcount, GcIndexGet, GcIndexPut, Freeing, Step
  <2> QED BY <1>2, <2>1, DiskFreeing
<1>9. CASE Lookup(t) \/ Fetch(t)
  BY <1>9, DiskRead
<1>10. CASE FsckLive(t) \/ FsckList(t) \/ FsckUnlink(t)
  BY <1>10, DiskRepair
<1> QED BY <1>3, <1>4, <1>5, <1>6, <1>7, <1>8, <1>9, <1>10 DEF Step

PendingInv == /\ MatchInv /\ ReadInv
              /\ faults = 0 => \A t \in Threads : Pending(t)

LEMMA IdlePending == ASSUME NEW t \in Threads, call[t] = Idle PROVE Pending(t)
BY DEF Idle, Pending, WrittenPcs

\* A step of a call changes the backend's files at one instant, if at all, and a
\* crash leaves them as they are.
LEMMA DiskStep ==
  ASSUME OneCaller, PendingInv, [Next]_vars
  PROVE  PendingInv' /\ (faults' = 0 => BackendStep)
<1>1. /\ MatchInv' /\ ReadInv' /\ DurableInv /\ TypeInv /\ Down /\ faults \in Nat
  BY MatchStep, ReadInvStep DEF PendingInv, MatchInv, DurableInv, WritersInv, TypeInv, TypeOK
<1>2. ASSUME NEW t \in Threads, BeginCall(t) \/ Step(t) \/ Fail(t), faults' = 0
      PROVE  BackendStep /\ \A u \in Threads : Pending(u)'
  <2>1. faults = 0 /\ ~Fail(t) /\ up /\ faults' = faults
    BY <1>1, <1>2, BoundsCount, RunsUp
  <2>2. Local(t) /\ FilesMatch /\ ReadCurrent(t) /\ Pending(t)
    BY <2>1 DEF PendingInv, MatchInv, ReadInv, DurableInv
  <2>3. CoverInv /\ SizesKnown /\ FilesReadable
    BY <1>1, <2>1, OpenCovers, DurableReadable
  <2>4. NoError(t)
    BY <1>1, <2>2, <2>3, ReadsFind, ReleasesFind
  <2>5. BackendStep /\ Pending(t)'
    BY <1>1, <1>2, <2>1, <2>2, <2>4, DiskThread DEF Local
  <2> QED BY <2>5 DEF OneCaller
<1>3. ASSUME Crash PROVE BackendStep /\ \A u \in Threads : Pending(u)'
  <2>1. UNCHANGED <<mrec, midx>> /\ call' = [t \in Threads |-> Idle]
    BY <1>3 DEF Crash, backend
  <2>2. ASSUME NEW t \in Threads
        PROVE  RequestOf(t, OnBackendDone(t))' = OnBackend!NoRequest /\ Pending(t)'
    <3>1. call'[t] = Idle
      BY <2>1
    <3> QED BY <3>1 DEF RequestOf, OnBackendDone, Idle, Busy, OnBackend!NoRequest, Pending, WrittenPcs
  <2>3. OnBackend!FSCrash
    BY <2>1, <2>2, DiskSame DEF OnBackend!FSCrash, DiskFiles
  <2> QED BY <2>2, <2>3 DEF BackendStep, OnBackend!FSStep, OnBackend!FSNext
<1>4. ASSUME UNCHANGED <<mrec, midx, call>>, faults' = faults
      PROVE  /\ BackendStep
             /\ \A u \in Threads : Pending(u)' <=> Pending(u)
  <2>1. \A t \in Threads : RequestOf(t, OnBackendDone(t))' = RequestOf(t, OnBackendDone(t))
    BY <1>4 DEF RequestOf, OnBackendDone, Uncommitted, Busy
  <2>2. BackendStep
    BY <1>4, <2>1, DiskSame DEF BackendStep, OnBackend!FSStep, DiskFiles
  <2> QED BY <1>4, <2>2 DEF Pending, LoadedFile
<1>5. CASE Open \/ UNCHANGED vars
  <2>1. UNCHANGED <<mrec, midx, call>> /\ faults' = faults
    BY <1>5 DEF Open, vars, backend, bounds
  <2> QED BY <1>1, <1>4, <2>1 DEF PendingInv
<1>6. CASE Crash
  BY <1>1, <1>3, <1>6 DEF PendingInv
<1>7. CASE \E t \in Threads : BeginCall(t) \/ Step(t) \/ Fail(t)
  BY <1>1, <1>2, <1>7 DEF PendingInv
<1> QED BY <1>5, <1>6, <1>7 DEF Next, Rest

\* With one caller at a time, the files that a reopened store would list change by
\* whole calls: a crash leaves every file as it was before or after the call that
\* it interrupts, and what has been answered "ok" survives it. This holds as long
\* as no backend call has failed, however often the process has died.
THEOREM OneCallerCrashAtomic ==
  ASSUME OneCaller
  PROVE  Spec => CrashAtomic
<1>1. Init => OnBackend!FSInit
  <2> SUFFICES ASSUME Init PROVE OnBackend!FSInit
    OBVIOUS
  <2>1. ASSUME NEW t \in Threads PROVE RequestOf(t, OnBackendDone(t)) = OnBackend!NoRequest
    <3>1. call[t] = Idle
      BY DEF Init
    <3> QED BY <3>1 DEF RequestOf, OnBackendDone, Idle, Busy, OnBackend!NoRequest
  <2>2. \A f \in Files : LoadedFile(f) = None
    BY DEF Init, LoadedFile
  <2> QED BY <2>1, <2>2 DEF OnBackend!FSInit
<1>2. Init => PendingInv
  <2>1. Init => MatchInv
    BY DurableInit DEF Init, MatchInv, FilesMatch, CountsMatch, LoadedFile, LoadedCount
  <2> QED BY <2>1, ReadInvInit, IdlePending DEF Init, PendingInv
<1>3. PendingInv /\ [Next]_vars => PendingInv'
  BY DiskStep
<1>4. PendingInv /\ [Next]_vars => [faults' = 0 => BackendStep]_vars
  BY DiskStep
<1> QED BY <1>1, <1>2, <1>3, <1>4, PTL DEF Spec, CrashAtomic, BackendStep

-------------------------------------------------------------------------------
(* Sums over finite sets. MapThenSumSet is recursive, and what is said of it is *)
(* shown by way of a least set for which it would fail.                         *)

\* The least element of a set of naturals stands in for induction.
LEMMA LessThan == \A k, m \in Nat : <<k, m>> \in OpToRel(<, Nat) <=> k < m
BY DEF OpToRel

LEMMA Least ==
  ASSUME NEW R, NEW T, T \subseteq Nat, \E m \in T : \A k \in T : ~(<<k, m>> \in R),
         \A k, m \in Nat : <<k, m>> \in R <=> k < m
  PROVE  \E m \in T : \A k \in T : m <= k
<1>1. PICK m \in T : \A k \in T : ~(<<k, m>> \in R)
  OBVIOUS
<1>2. ASSUME NEW k \in T PROVE m <= k
  <2>1. k \in Nat /\ m \in Nat /\ ~(k < m)
    BY <1>1, <1>2
  <2> QED BY <2>1
<1> QED BY <1>2

LEMMA LeastNatural ==
  ASSUME NEW T, T \subseteq Nat, T # {}
  PROVE  \E m \in T : \A k \in T : m <= k
<1>1. \E m \in T : \A k \in T : ~(<<k, m>> \in OpToRel(<, Nat))
  BY NatLessThanWellFounded, WFMin
<1> QED BY <1>1, LessThan, Least

\* A set of finite sets that is not empty has a smallest one.
LEMMA LeastSet ==
  ASSUME NEW S, IsFiniteSet(S), NEW B, B \subseteq SUBSET S, B # {}
  PROVE  \E s \in B : \A x \in s : s \ {x} \notin B
<1> DEFINE T == {Cardinality(s) : s \in B}
<1>1. \A s \in B : IsFiniteSet(s) /\ Cardinality(s) \in Nat
  BY FS_Subset, FS_CardinalityType
<1>2. PICK m \in T : \A k \in T : m <= k
  <2>1. T \subseteq Nat /\ T # {}
    BY <1>1
  <2> HIDE DEF T
  <2> QED BY <2>1, LeastNatural
<1>3. PICK s \in B : m = Cardinality(s)
  BY <1>2
<1>4. ASSUME NEW x \in s, s \ {x} \in B PROVE FALSE
  <2>1. Cardinality(s \ {x}) = Cardinality(s) - 1
    BY <1>1, <1>4, FS_RemoveElement
  <2>2. m <= Cardinality(s \ {x})
    BY <1>2, <1>4
  <2> QED BY <1>1, <1>3, <2>1, <2>2
<1> QED BY <1>4

Pick(s) == CHOOSE x \in s : TRUE
Body(F, h, s) == IF s = {} THEN 0 ELSE F[Pick(s)] + h[s \ {Pick(s)}]
\* h has the sum of F over each subset of S, as MapThenSumSet computes it.
Sums(F, S, h) == h = [s \in SUBSET S |-> Body(F, h, s)]

LEMMA SumsAgree ==
  ASSUME NEW F, NEW G, NEW S, NEW T, NEW h, NEW k, NEW s, IsFiniteSet(s),
         Sums(F, S, h), Sums(G, T, k), s \subseteq S, s \subseteq T, \A x \in s : F[x] = G[x]
  PROVE  h[s] = k[s]
<1> DEFINE B == {u \in SUBSET s : h[u] # k[u]}
<1> SUFFICES ASSUME B # {} PROVE FALSE
  OBVIOUS
<1>1. PICK u \in B : \A x \in u : u \ {x} \notin B
  <2>1. B \subseteq SUBSET s
    OBVIOUS
  <2> HIDE DEF B
  <2> QED BY <2>1, LeastSet
<1>2. h[u] = Body(F, h, u) /\ k[u] = Body(G, k, u)
  BY <1>1 DEF Sums
<1>3. u # {} /\ Pick(u) \in u /\ u \ {Pick(u)} \in SUBSET s
  BY <1>1, <1>2 DEF Body, Pick
<1>4. h[u \ {Pick(u)}] = k[u \ {Pick(u)}] /\ F[Pick(u)] = G[Pick(u)]
  BY <1>1, <1>3
<1> QED BY <1>1, <1>2, <1>3, <1>4 DEF Body

LEMMA SumsNat ==
  ASSUME NEW F, NEW S, NEW h, Sums(F, S, h), IsFiniteSet(S), \A x \in S : F[x] \in Nat
  PROVE  \A s \in SUBSET S : h[s] \in Nat
<1> DEFINE B == {u \in SUBSET S : h[u] \notin Nat}
<1> SUFFICES ASSUME B # {} PROVE FALSE
  OBVIOUS
<1>1. PICK u \in B : \A x \in u : u \ {x} \notin B
  <2>1. B \subseteq SUBSET S
    OBVIOUS
  <2> HIDE DEF B
  <2> QED BY <2>1, LeastSet
<1>2. h[u] = Body(F, h, u)
  BY <1>1 DEF Sums
<1>3. u # {} /\ Pick(u) \in u /\ u \ {Pick(u)} \in SUBSET S
  BY <1>1, <1>2 DEF Body, Pick
<1>4. h[u \ {Pick(u)}] \in Nat /\ F[Pick(u)] \in Nat
  BY <1>1, <1>3
<1> QED BY <1>1, <1>2, <1>3, <1>4 DEF Body

\* Which element is taken out first does not matter.
LEMMA SumsPeel ==
  ASSUME NEW F, NEW S, NEW h, Sums(F, S, h), IsFiniteSet(S), \A x \in S : F[x] \in Nat
  PROVE  \A s \in SUBSET S : \A x \in s : h[s] = F[x] + h[s \ {x}]
<1> DEFINE B == {u \in SUBSET S : ~ \A x \in u : h[u] = F[x] + h[u \ {x}]}
<1> SUFFICES ASSUME B # {} PROVE FALSE
  OBVIOUS
<1>1. PICK u \in B : \A x \in u : u \ {x} \notin B
  <2>1. B \subseteq SUBSET S
    OBVIOUS
  <2> HIDE DEF B
  <2> QED BY <2>1, LeastSet
<1>2. PICK x \in u : h[u] # F[x] + h[u \ {x}]
  BY <1>1
<1> DEFINE y == Pick(u)
<1>3. h[u] = F[y] + h[u \ {y}] /\ y \in u /\ y # x
  <2>1. h[u] = Body(F, h, u)
    BY <1>1 DEF Sums
  <2> QED BY <1>2, <2>1 DEF Body, Pick
<1> HIDE DEF y
<1>4. u \ {x} \in SUBSET S /\ u \ {y} \in SUBSET S /\ (u \ {x}) \ {y} \in SUBSET S
  BY <1>1
<1>5. h[u \ {x}] = F[y] + h[(u \ {x}) \ {y}]
  BY <1>1, <1>2, <1>3, <1>4
<1>6. h[u \ {y}] = F[x] + h[(u \ {y}) \ {x}]
  BY <1>1, <1>2, <1>3, <1>4
<1>7. (u \ {y}) \ {x} = (u \ {x}) \ {y}
  OBVIOUS
<1>8. F[x] \in Nat /\ F[y] \in Nat /\ h[(u \ {x}) \ {y}] \in Nat
  BY <1>1, <1>2, <1>3, <1>4, SumsNat
<1>9. ASSUME NEW a \in Nat, NEW b \in Nat, NEW r \in Nat, NEW p, NEW q, NEW w,
             w = b + p, p = a + r, q = b + r
      PROVE  w = a + q
  BY <1>9
<1>10. h[u] = F[x] + h[u \ {x}]
  <2>1. h[u \ {y}] = F[x] + h[(u \ {x}) \ {y}]
    BY <1>6, <1>7
  <2> QED BY <1>3, <1>5, <1>8, <1>9, <2>1
<1> QED BY <1>2, <1>10

LEMMA SumsExist ==
  ASSUME NEW F, NEW S, IsFiniteSet(S)
  PROVE  \E h : Sums(F, S, h)
<1> DEFINE B == {u \in SUBSET S : ~ \E h : Sums(F, u, h)}
<1> SUFFICES ASSUME B # {} PROVE FALSE
  BY DEF B
<1>1. PICK u \in B : \A x \in u : u \ {x} \notin B
  <2>1. B \subseteq SUBSET S
    OBVIOUS
  <2> HIDE DEF B
  <2> QED BY <2>1, LeastSet
<1>2. IsFiniteSet(u)
  BY <1>1, FS_Subset
<1> DEFINE H(y) == CHOOSE h : Sums(F, u \ {y}, h)
           val(s) == IF s = u THEN IF u = {} THEN 0 ELSE F[Pick(u)] + H(Pick(u))[u \ {Pick(u)}]
                     ELSE H(Pick(u \ s))[s]
           g == [s \in SUBSET u |-> val(s)]
<1>3. \A y \in u : Sums(F, u \ {y}, H(y))
  BY <1>1
<1> HIDE DEF H
<1>4. ASSUME NEW s \in SUBSET u, NEW y \in u \ s, s # u PROVE g[s] = H(y)[s]
  <2> DEFINE z == Pick(u \ s)
  <2>1. z \in u \ s
    BY <1>4 DEF Pick
  <2>2. g[s] = H(z)[s]
    BY <1>4
  <2> HIDE DEF z
  <2>3. IsFiniteSet(s)
    BY <1>2, FS_Subset
  <2>4. Sums(F, u \ {y}, H(y)) /\ Sums(F, u \ {z}, H(z)) /\ s \subseteq u \ {y} /\ s \subseteq u \ {z}
    BY <1>3, <2>1
  <2>5. H(z)[s] = H(y)[s]
    BY <2>3, <2>4, SumsAgree
  <2> QED BY <2>2, <2>5
<1>5. ASSUME NEW s \in SUBSET u PROVE g[s] = Body(F, g, s)
  <2>1. CASE s = u
    <3>1. CASE u = {}
      BY <2>1, <3>1 DEF Body
    <3>2. CASE u # {}
      <4>1. Pick(u) \in u
        BY <3>2 DEF Pick
      <4>2. g[u \ {Pick(u)}] = H(Pick(u))[u \ {Pick(u)}]
        BY <1>4, <4>1
      <4>3. g[u] = F[Pick(u)] + H(Pick(u))[u \ {Pick(u)}]
        BY <3>2
      <4> QED BY <2>1, <3>2, <4>2, <4>3 DEF Body
    <3> QED BY <3>1, <3>2
  <2>2. CASE s # u
    <3>1. PICK y \in u \ s : TRUE
      BY <2>2
    <3>2. g[s] = H(y)[s]
      BY <1>4, <2>2, <3>1
    <3>3. H(y)[s] = Body(F, H(y), s)
      <4>1. Sums(F, u \ {y}, H(y)) /\ s \in SUBSET (u \ {y})
        BY <1>3, <3>1
      <4> QED BY <4>1 DEF Sums
    <3>4. ASSUME s # {} PROVE g[s \ {Pick(s)}] = H(y)[s \ {Pick(s)}]
      <4>1. s \ {Pick(s)} \in SUBSET u /\ y \in u \ (s \ {Pick(s)}) /\ s \ {Pick(s)} # u
        BY <3>1
      <4> HIDE DEF g
      <4> QED BY <1>4, <4>1
    <3> HIDE DEF g
    <3> QED BY <3>2, <3>3, <3>4 DEF Body
  <2> QED BY <2>1, <2>2
<1>6. g = [s \in SUBSET u |-> Body(F, g, s)]
  <2>1. g = [s \in SUBSET u |-> g[s]]
    OBVIOUS
  <2> HIDE DEF g
  <2> QED BY <1>5, <2>1
<1>7. Sums(F, u, g)
  <2> HIDE DEF g
  <2> QED BY <1>6 DEF Sums
<1> QED BY <1>1, <1>7

\* What MapThenSumSet gives: the sum of F over S.
IsSum(v, F, S) == \E h : Sums(F, S, h) /\ v = h[S]

LEMMA SumUnique ==
  ASSUME NEW F, NEW G, NEW S, NEW v, NEW w, IsFiniteSet(S), IsSum(v, F, S), IsSum(w, G, S),
         \A x \in S : F[x] = G[x]
  PROVE  v = w
BY SumsAgree DEF IsSum

Total(F, S) == CHOOSE v : IsSum(v, F, S)

LEMMA TotalIs == ASSUME NEW F, NEW S, IsFiniteSet(S) PROVE IsSum(Total(F, S), F, S)
<1>1. \E v : IsSum(v, F, S)
  BY SumsExist DEF IsSum
<1> QED BY <1>1 DEF Total

LEMMA SumIsTotal ==
  ASSUME NEW F, NEW S, NEW v, IsFiniteSet(S), IsSum(v, F, S)
  PROVE  v = Total(F, S)
BY TotalIs, SumUnique

LEMMA TotalSame ==
  ASSUME NEW F, NEW G, NEW S, IsFiniteSet(S), \A x \in S : F[x] = G[x]
  PROVE  Total(F, S) = Total(G, S)
BY TotalIs, SumUnique

LEMMA TotalNone == ASSUME NEW F PROVE Total(F, {}) = 0
<1>1. IsSum(Total(F, {}), F, {})
  BY TotalIs, FS_EmptySet
<1> QED BY <1>1 DEF IsSum, Sums, Body

LEMMA TotalNat ==
  ASSUME NEW F, NEW S, IsFiniteSet(S), \A x \in S : F[x] \in Nat
  PROVE  Total(F, S) \in Nat
<1>1. PICK h : Sums(F, S, h) /\ Total(F, S) = h[S]
  BY TotalIs DEF IsSum
<1> QED BY <1>1, SumsNat

LEMMA TotalWithout ==
  ASSUME NEW F, NEW S, NEW x \in S, IsFiniteSet(S), \A y \in S : F[y] \in Nat
  PROVE  Total(F, S) = F[x] + Total(F, S \ {x})
<1> DEFINE T == S \ {x}
<1>1. PICK h : Sums(F, S, h) /\ Total(F, S) = h[S]
  BY TotalIs DEF IsSum
<1>2. IsFiniteSet(T)
  BY FS_RemoveElement
<1>3. PICK k : Sums(F, T, k) /\ Total(F, T) = k[T]
  BY <1>2, TotalIs DEF IsSum
<1>4. T \subseteq S
  OBVIOUS
<1> HIDE DEF T
<1>5. h[T] = k[T]
  BY <1>1, <1>2, <1>3, <1>4, SumsAgree
<1>6. h[S] = F[x] + h[S \ {x}]
  BY <1>1, SumsPeel
<1> QED BY <1>1, <1>3, <1>5, <1>6 DEF T

LEMMA TotalWith ==
  ASSUME NEW F, NEW S, NEW x, x \notin S, IsFiniteSet(S), \A y \in S \cup {x} : F[y] \in Nat
  PROVE  Total(F, S \cup {x}) = F[x] + Total(F, S)
<1> DEFINE T == S \cup {x}
<1>1. IsFiniteSet(T) /\ x \in T /\ \A y \in T : F[y] \in Nat
  BY FS_AddElement
<1>2. T \ {x} = S
  OBVIOUS
<1> HIDE DEF T
<1>3. Total(F, T) = F[x] + Total(F, T \ {x})
  BY <1>1, TotalWithout
<1> QED BY <1>2, <1>3 DEF T

\* One summand changes.
LEMMA TotalChange ==
  ASSUME NEW F, NEW G, NEW S, NEW x \in S, IsFiniteSet(S), \A y \in S : F[y] \in Nat,
         \A y \in S : G[y] \in Nat, \A y \in S \ {x} : G[y] = F[y]
  PROVE  Total(G, S) + F[x] = Total(F, S) + G[x]
<1>1. Total(F, S) = F[x] + Total(F, S \ {x}) /\ Total(G, S) = G[x] + Total(G, S \ {x})
  BY TotalWithout
<1>2. IsFiniteSet(S \ {x})
  BY FS_RemoveElement
<1>3. Total(G, S \ {x}) = Total(F, S \ {x})
  BY <1>2, TotalSame
<1>4. Total(F, S \ {x}) \in Nat
  BY <1>2, TotalNat
<1> QED BY <1>1, <1>3, <1>4

-------------------------------------------------------------------------------
(* Statistics                                                                   *)

\* The lengths of the chunks of c.
Lengths(c) == [i \in DOMAIN c |-> SizeOf[c[i]]]

\* What stats() counts of a call in progress: the chunks it has stored and not yet
\* entered, and those it has yet to release. The statistics of a chunk follow its
\* count when save_refcount and remove_refcount are done.
StoredPart(c) == IF c.pc \in SavingPcs THEN 1 .. c.done - 1 ELSE 1 .. c.done
OwedPart(c)   == IF c.pc \in SavingPcs \cup CollectPcs THEN c.released .. Len(c.old)
                                                       ELSE c.released + 1 .. Len(c.old)
CarriedBytes(t) == IF Uncommitted(t) THEN Total(Lengths(call[t].new), StoredPart(call[t]))
                                     ELSE Total(Lengths(call[t].old), OwedPart(call[t]))
Carried    == [t \in Threads |-> CarriedBytes(t)]
FileTotals == [f \in Files |-> FileBytes(manifest[f])]
StatsTyped == stats \in [total : Nat, stored : Nat]
TotalExact == stats.total = Total(FileTotals, Files) + Total(Carried, Threads)

\* A blob that a call has put and not yet added, and one it has unlinked and not
\* yet taken off.
UnaddedBytes(t) ==
  LET c == call[t] IN
  IF c.existed THEN 0
  ELSE IF c.pc = "increment" THEN SizeOf[Chunk(t)]
  ELSE IF c.pc \in SavingPcs /\ c.released = 0 THEN SizeOf[c.cur]
  ELSE 0
DroppedBytes(t) == IF call[t].pc \in CollectPcs \ {"gc_blob"} THEN SizeOf[call[t].cur] ELSE 0
Unadded == [t \in Threads |-> UnaddedBytes(t)]
Dropped == [t \in Threads |-> DroppedBytes(t)]
StoredExact == stats.stored + Total(Unadded, Threads) = Total(SizeOf, blobs) + Total(Dropped, Threads)

LEMMA LengthsNat ==
  ASSUME NEW c \in Seq(Digests), NEW I, I \subseteq DOMAIN c
  PROVE  IsFiniteSet(I) /\ Total(Lengths(c), I) \in Nat /\ \A i \in I : Lengths(c)[i] \in Nat
<1>1. IsFiniteSet(DOMAIN c)
  <2>1. DOMAIN c = 1 .. Len(c) /\ Len(c) \in Nat
    OBVIOUS
  <2> QED BY <2>1, FS_Interval
<1>2. IsFiniteSet(I)
  BY <1>1, FS_Subset
<1>3. \A i \in I : Lengths(c)[i] \in Nat
  BY StoreAssumption DEF Lengths
<1> QED BY <1>2, <1>3, TotalNat

LEMMA FileBytesOf ==
  ASSUME NEW c \in Contents
  PROVE  FileBytes(c) = Total(Lengths(c), 1 .. Len(c)) /\ FileBytes(c) \in Nat
<1>1. c \in Seq(Digests) /\ c # None
  BY StoreAssumption
<1>2. DOMAIN c = 1 .. Len(c)
  BY <1>1
<1> DEFINE I == DOMAIN c
           body(k, s) == IF s = {} THEN 0 ELSE SizeOf[c[Pick(s)]] + k[s \ {Pick(s)}]
<1>3. ASSUME NEW k PROVE Sums(Lengths(c), I, k) <=> k = [s \in SUBSET I |-> body(k, s)]
  <2>1. ASSUME NEW s \in SUBSET I PROVE Body(Lengths(c), k, s) = body(k, s)
    <3>1. s # {} => Pick(s) \in I
      BY DEF Pick
    <3> QED BY <3>1 DEF Body, Lengths
  <2> HIDE DEF I, body
  <2> QED BY <2>1 DEF Sums
<1>4. \E h : h = [s \in SUBSET I |-> body(h, s)]
  <2>1. \E h : Sums(Lengths(c), I, h)
    BY <1>1, LengthsNat, SumsExist
  <2> HIDE DEF I, body
  <2> QED BY <1>3, <2>1
<1>5. \E k : k = [s \in SUBSET I |-> body(k, s)] /\ FileBytes(c) = k[I]
  BY <1>1, <1>4 DEF FileBytes, MapThenSumSet, MapThenFoldSet, Pick
<1>6. IsSum(FileBytes(c), Lengths(c), I)
  <2> HIDE DEF I, body
  <2> QED BY <1>3, <1>5 DEF IsSum
<1>7. FileBytes(c) = Total(Lengths(c), I)
  BY <1>1, <1>6, LengthsNat, SumIsTotal
<1> QED BY <1>1, <1>2, <1>7, LengthsNat

\* The sums of StatsExact.
LEMMA AllFileBytes ==
  MapThenSumSet(LAMBDA f : FileBytes(manifest[f]), Files) = Total(FileTotals, Files)
<1> DEFINE body(k, s) == IF s = {} THEN 0 ELSE FileBytes(manifest[Pick(s)]) + k[s \ {Pick(s)}]
           v == MapThenSumSet(LAMBDA f : FileBytes(manifest[f]), Files)
<1>1. ASSUME NEW k PROVE Sums(FileTotals, Files, k) <=> k = [s \in SUBSET Files |-> body(k, s)]
  <2>1. ASSUME NEW s \in SUBSET Files PROVE Body(FileTotals, k, s) = body(k, s)
    <3>1. s # {} => Pick(s) \in Files
      BY DEF Pick
    <3> QED BY <3>1 DEF Body, FileTotals
  <2> HIDE DEF body
  <2> QED BY <2>1 DEF Sums
<1>2. \E h : h = [s \in SUBSET Files |-> body(h, s)]
  <2>1. \E h : Sums(FileTotals, Files, h)
    BY StoreAssumption, SumsExist
  <2> HIDE DEF body
  <2> QED BY <1>1, <2>1
<1>3. \E k : k = [s \in SUBSET Files |-> body(k, s)] /\ v = k[Files]
  BY <1>2 DEF MapThenSumSet, MapThenFoldSet, Pick
<1>4. IsSum(v, FileTotals, Files)
  <2> HIDE DEF body, v
  <2> QED BY <1>1, <1>3 DEF IsSum
<1> HIDE DEF v
<1>5. v = Total(FileTotals, Files)
  BY <1>4, StoreAssumption, SumIsTotal
<1> QED BY <1>5 DEF v

LEMMA ChunkBytes ==
  ASSUME NEW S, S \subseteq Digests
  PROVE  MapThenSumSet(LAMBDA d : SizeOf[d], S) = Total(SizeOf, S)
<1> DEFINE body(k, s) == IF s = {} THEN 0 ELSE SizeOf[Pick(s)] + k[s \ {Pick(s)}]
           v == MapThenSumSet(LAMBDA d : SizeOf[d], S)
<1>1. IsFiniteSet(S)
  BY StoreAssumption, FS_Subset
<1>2. \E h : h = [s \in SUBSET S |-> body(h, s)]
  <2>1. PICK h : Sums(SizeOf, S, h)
    BY <1>1, SumsExist
  <2> QED BY <2>1 DEF Sums, Body
<1>3. \E k : k = [s \in SUBSET S |-> body(k, s)] /\ v = k[S]
  BY <1>2 DEF MapThenSumSet, MapThenFoldSet, Pick
<1>4. IsSum(v, SizeOf, S)
  <2> HIDE DEF v
  <2> QED BY <1>3 DEF IsSum, Sums, Body
<1> HIDE DEF v
<1>5. v = Total(SizeOf, S)
  BY <1>1, <1>4, SumIsTotal
<1> QED BY <1>5 DEF v

-------------------------------------------------------------------------------
(* What each step does to the statistics                                        *)

\* What the statistics rely on of a call: the chunk it saves the count of or collects
\* is the last one it has stored or released, a blob it puts is new, and one it
\* unlinks is there.
OwnChunk(t) ==
  LET c == call[t] IN
  /\ c.pc \in SavingPcs /\ c.released = 0 => c.done \in DOMAIN c.new /\ c.cur = c.new[c.done]
  /\ c.pc \in SavingPcs \cup CollectPcs /\ c.released > 0 =>
       c.released \in DOMAIN c.old /\ c.cur = c.old[c.released]

LEMMA CallFields ==
  ASSUME TypeInv, NEW t \in Threads
  PROVE  /\ call[t] \in Records /\ WellFormed(call[t])
         /\ call[t].new \in Seq(Digests) /\ call[t].old \in Seq(Digests)
         /\ call[t].done \in Nat /\ call[t].released \in Nat
<1>1. call[t] \in Records /\ WellFormed(call[t])
  BY DEF TypeInv, TypeOK
<1>2. /\ call[t].new \in Contents \cup {<<>>} /\ call[t].old \in Contents \cup {<<>>}
      /\ call[t].done \in Nat /\ call[t].released \in Nat
  BY <1>1, StoreAssumption DEF Records
<1>3. <<>> \in Seq(Digests) /\ Contents \subseteq Seq(Digests)
  BY StoreAssumption
<1> QED BY <1>1, <1>2, <1>3

LEMMA CarriedNat ==
  ASSUME TypeInv, NEW t \in Threads
  PROVE  CarriedBytes(t) \in Nat
<1> DEFINE c == call[t]
<1>1. /\ c \in Records /\ WellFormed(c) /\ c.new \in Seq(Digests) /\ c.old \in Seq(Digests)
      /\ c.done \in Nat /\ c.released \in Nat
  BY CallFields
<1>2. ASSUME Uncommitted(t) PROVE StoredPart(c) \subseteq DOMAIN c.new
  <2>1. c.done <= Len(c.new) /\ DOMAIN c.new = 1 .. Len(c.new) /\ Len(c.new) \in Nat
    BY <1>1, <1>2 DEF Uncommitted, WellFormed
  <2> QED BY <1>1, <2>1 DEF StoredPart
<1>3. ASSUME ~Uncommitted(t) PROVE OwedPart(c) \subseteq DOMAIN c.old
  <2>1. c.pc \in SavingPcs \cup CollectPcs => c.released > 0
    BY <1>1, <1>3 DEF Uncommitted, WellFormed, SavingPcs, CollectPcs
  <2>2. DOMAIN c.old = 1 .. Len(c.old) /\ Len(c.old) \in Nat
    BY <1>1
  <2> QED BY <1>1, <2>1, <2>2 DEF OwedPart
<1> QED BY <1>1, <1>2, <1>3, LengthsNat DEF CarriedBytes

NatBytes == TypeInv => /\ \A t \in Threads : CarriedBytes(t) \in Nat
                       /\ \A f \in Files : FileBytes(manifest[f]) \in Nat

LEMMA BytesNat == NatBytes
<1> SUFFICES ASSUME TypeInv, NEW f \in Files PROVE FileBytes(manifest[f]) \in Nat
  BY CarriedNat DEF NatBytes
<1>1. manifest[f] \in Contents \cup {None}
  BY DEF TypeInv, TypeOK
<1>2. CASE manifest[f] = None
  BY <1>2 DEF FileBytes
<1> QED BY <1>1, <1>2, FileBytesOf

LEMMA BytesNatAfter == NatBytes'
BY BytesNat, PTL

\* What the statistics count is the files and the calls, before and after.
Carries(t) ==
  \/ /\ manifest' = manifest /\ stats'.total \in Nat
     /\ stats'.total + CarriedBytes(t) = stats.total + CarriedBytes(t)'
  \/ /\ stats'.total = stats.total
     /\ \E f \in Files :
          /\ \A g \in Files \ {f} : manifest'[g] = manifest[g]
          /\ FileBytes(manifest[f]) + CarriedBytes(t) = FileBytes(manifest[f])' + CarriedBytes(t)'

LEMMA TotalStays ==
  ASSUME TypeInv, TypeInv', TotalExact, NEW t \in Threads, OthersStay(t), Carries(t)
  PROVE  TotalExact'
<1>1. /\ \A u \in Threads : CarriedBytes(u) \in Nat /\ CarriedBytes(u)' \in Nat
      /\ \A f \in Files : FileBytes(manifest[f]) \in Nat /\ FileBytes(manifest[f])' \in Nat
  BY BytesNat, BytesNatAfter DEF NatBytes
<1>2. \A u \in Threads \ {t} : CarriedBytes(u)' = CarriedBytes(u)
  BY DEF OthersStay, CarriedBytes, Uncommitted
<1>3. /\ \A u \in Threads : Carried[u] = CarriedBytes(u) /\ Carried'[u] = CarriedBytes(u)'
      /\ \A f \in Files : /\ FileTotals[f] = FileBytes(manifest[f])
                          /\ FileTotals'[f] = FileBytes(manifest[f])'
  BY DEF Carried, FileTotals
<1>4. Total(Carried', Threads) + CarriedBytes(t) = Total(Carried, Threads) + CarriedBytes(t)'
  <2>1. Total(Carried', Threads) + Carried[t] = Total(Carried, Threads) + Carried'[t]
    BY <1>1, <1>2, <1>3, StoreAssumption, TotalChange
  <2> QED BY <1>3, <2>1
<1>5. /\ Total(Carried, Threads) \in Nat /\ Total(Carried', Threads) \in Nat
      /\ Total(FileTotals, Files) \in Nat /\ Total(FileTotals', Files) \in Nat
  BY <1>1, <1>3, StoreAssumption, TotalNat
<1>6. stats.total = Total(FileTotals, Files) + Total(Carried, Threads)
  BY DEF TotalExact
<1>7. CASE /\ manifest' = manifest /\ stats'.total \in Nat
           /\ stats'.total + CarriedBytes(t) = stats.total + CarriedBytes(t)'
  <2>1. FileTotals' = FileTotals
    BY <1>7 DEF FileTotals
  <2> QED BY <1>1, <1>4, <1>5, <1>6, <1>7, <2>1 DEF TotalExact
<1>8. CASE /\ stats'.total = stats.total
           /\ \E f \in Files :
                /\ \A g \in Files \ {f} : manifest'[g] = manifest[g]
                /\ FileBytes(manifest[f]) + CarriedBytes(t) = FileBytes(manifest[f])' + CarriedBytes(t)'
  <2>1. PICK f \in Files :
               /\ \A g \in Files \ {f} : manifest'[g] = manifest[g]
               /\ FileBytes(manifest[f]) + CarriedBytes(t) = FileBytes(manifest[f])' + CarriedBytes(t)'
    BY <1>8
  <2>2. \A g \in Files \ {f} : FileBytes(manifest[g])' = FileBytes(manifest[g])
    BY <2>1
  <2>3. Total(FileTotals', Files) + FileTotals[f] = Total(FileTotals, Files) + FileTotals'[f]
    <3>1. /\ \A g \in Files : FileTotals[g] \in Nat /\ FileTotals'[g] \in Nat
          /\ \A g \in Files \ {f} : FileTotals'[g] = FileTotals[g]
      BY <1>1, <1>3, <2>2
    <3> QED BY <3>1, StoreAssumption, TotalChange
  <2>4. Total(FileTotals', Files) + FileBytes(manifest[f])
          = Total(FileTotals, Files) + FileBytes(manifest[f])'
    BY <1>3, <2>3
  <2> QED BY <1>1, <1>4, <1>5, <1>6, <1>8, <2>1, <2>4 DEF TotalExact
<1> QED BY <1>7, <1>8 DEF Carries

\* The statistics never have less than what a call is about to take off.
LEMMA CarriedCounted ==
  ASSUME TypeInv, TotalExact, NEW t \in Threads
  PROVE  stats.total \in Nat /\ CarriedBytes(t) \in Nat /\ CarriedBytes(t) <= stats.total
<1>1. /\ \A u \in Threads : Carried[u] \in Nat /\ Carried[u] = CarriedBytes(u)
      /\ \A f \in Files : FileTotals[f] \in Nat
  BY BytesNat DEF NatBytes, Carried, FileTotals
<1>2. Total(Carried, Threads) = CarriedBytes(t) + Total(Carried, Threads \ {t})
  <2>1. IsFiniteSet(Threads) /\ \A u \in Threads : Carried[u] \in Nat
    BY <1>1, StoreAssumption
  <2>2. Total(Carried, Threads) = Carried[t] + Total(Carried, Threads \ {t})
    BY <2>1, TotalWithout
  <2> QED BY <1>1, <2>2
<1>3. /\ Total(Carried, Threads \ {t}) \in Nat /\ Total(FileTotals, Files) \in Nat
  BY <1>1, StoreAssumption, FS_RemoveElement, TotalNat
<1> QED BY <1>1, <1>2, <1>3 DEF TotalExact

\* Where a call has come to, as far as the statistics are concerned.
Stage(pc) == IF pc \in SavingPcs THEN "saving"
             ELSE IF pc \in CollectPcs THEN "collecting"
             ELSE IF pc \in StorePcs \cup {"peek", "insert"} THEN "storing"
             ELSE "other"

LEMMA CarriesOn ==
  ASSUME TypeInv, TotalExact, NEW t \in Threads, Keeps(t), manifest' = manifest, stats' = stats,
         Stage(call'[t].pc) = Stage(call[t].pc)
  PROVE  Carries(t)
<1>1. Uncommitted(t)' <=> Uncommitted(t)
  BY DEF Keeps, Stage, Uncommitted, SavingPcs, CollectPcs
<1>2. CarriedBytes(t)' = CarriedBytes(t)
  BY <1>1 DEF Keeps, Stage, CarriedBytes, StoredPart, OwedPart, CollectPcs, SavingPcs
<1> QED BY <1>2, CarriedCounted DEF Carries

\* A call that has nothing to store or to release.
LEMMA NothingCarried ==
  ASSUME NEW t \in Threads, TypeInv, ~Uncommitted(t), call[t].pc \notin SavingPcs \cup CollectPcs,
         ~(call[t].released < Len(call[t].old))
  PROVE  CarriedBytes(t) = 0
<1>1. call[t].released \in Nat /\ Len(call[t].old) \in Nat
  BY CallFields
<1>2. OwedPart(call[t]) = {}
  BY <1>1 DEF OwedPart
<1> QED BY <1>2, TotalNone DEF CarriedBytes

FreePcs == ReadPcs \cup RepairPcs \cup {"idle", "remove"}
FreeBytes == TypeInv => \A t \in Threads : call[t].pc \in FreePcs => CarriedBytes(t) = 0

LEMMA FreeCarry == FreeBytes
<1> SUFFICES ASSUME TypeInv, NEW t \in Threads, call[t].pc \in FreePcs PROVE CarriedBytes(t) = 0
  BY DEF FreeBytes
<1>1. call[t].released = 0 /\ call[t].old = <<>>
  BY CallFields DEF WellFormed, FreePcs
<1>2. ~(call[t].released < Len(call[t].old))
  BY <1>1
<1> QED BY <1>2, NothingCarried DEF Uncommitted, FreePcs, SavingPcs, CollectPcs

LEMMA FreeCarryAfter == FreeBytes'
BY FreeCarry, PTL

LEMMA RestCarries ==
  ASSUME TypeInv, TypeInv', TotalExact, NEW t \in Threads, ReleaseRest(t),
         Stage(call[t].pc) = "other", manifest' = manifest, stats' = stats
  PROVE  Carries(t)
<1>1. CASE call[t].released < Len(call[t].old)
  <2>1. Keeps(t) /\ call'[t].pc = "size"
    BY <1>1, GotoKeeps DEF ReleaseRest
  <2> QED BY <2>1, CarriesOn DEF Stage, SavingPcs, CollectPcs
<1>2. CASE ~(call[t].released < Len(call[t].old))
  <2>1. call'[t].pc = "idle"
    BY <1>2, ReturnIdle DEF ReleaseRest
  <2>2. CarriedBytes(t)' = 0
    BY <2>1, FreeCarryAfter DEF FreeBytes, FreePcs
  <2>3. CarriedBytes(t) = 0
    BY <1>2, NothingCarried DEF Stage, Uncommitted
  <2> QED BY <2>2, <2>3, CarriedCounted DEF Carries
<1> QED BY <1>1, <1>2

\* A released chunk is taken off.
LEMMA ReleasedCarries ==
  ASSUME TypeInv, TypeInv', TotalExact, NEW t \in Threads, OwnChunk(t),
         call[t].pc \in SavingPcs \cup CollectPcs, call[t].released > 0, ReleaseRest(t),
         manifest' = manifest, stats'.total = SaturatingSub(stats.total, SizeOf[call[t].cur])
  PROVE  Carries(t)
<1> DEFINE c == call[t]
           k == c.released
           x == c.old
           R == k + 1 .. Len(x)
<1>1. /\ c \in Records /\ WellFormed(c) /\ x \in Seq(Digests) /\ k \in Nat
      /\ k \in DOMAIN x /\ c.cur = x[k] /\ ~Uncommitted(t)
  BY CallFields DEF OwnChunk, Uncommitted
<1>2. k .. Len(x) = R \cup {k} /\ k \notin R /\ k .. Len(x) \subseteq DOMAIN x
  <2>1. k \in 1 .. Len(x) /\ Len(x) \in Nat /\ DOMAIN x = 1 .. Len(x)
    BY <1>1
  <2> QED BY <2>1
<1>3. CarriedBytes(t) = Total(Lengths(x), k .. Len(x))
  BY <1>1 DEF CarriedBytes, OwedPart
<1>4. /\ Total(Lengths(x), k .. Len(x)) = Lengths(x)[k] + Total(Lengths(x), R)
      /\ Total(Lengths(x), R) \in Nat
  <2> HIDE DEF R
  <2>1. /\ IsFiniteSet(R) /\ Total(Lengths(x), R) \in Nat
        /\ \A i \in R \cup {k} : Lengths(x)[i] \in Nat
    BY <1>1, <1>2, LengthsNat
  <2> QED BY <1>2, <2>1, TotalWith
<1>5. Lengths(x)[k] = SizeOf[c.cur] /\ SizeOf[c.cur] \in Nat
  BY <1>1, StoreAssumption DEF Lengths
<1>6. CarriedBytes(t)' = Total(Lengths(x), R)
  <2>1. CASE k < Len(x)
    <3>1. Keeps(t) /\ call'[t].pc = "size"
      BY <2>1, GotoKeeps DEF ReleaseRest
    <3>2. ~Uncommitted(t)' /\ OwedPart(call'[t]) = R /\ call'[t].old = x
      BY <3>1 DEF Keeps, Uncommitted, OwedPart, SavingPcs, CollectPcs
    <3> HIDE DEF R, x
    <3> QED BY <3>2 DEF CarriedBytes
  <2>2. CASE ~(k < Len(x))
    <3>1. CarriedBytes(t)' = 0
      BY <2>2, ReturnIdle, FreeCarryAfter DEF ReleaseRest, FreeBytes, FreePcs
    <3>2. R = {}
      BY <1>1, <2>2
    <3> HIDE DEF R, x
    <3> QED BY <3>1, <3>2, TotalNone
  <2> QED BY <2>1, <2>2
<1> HIDE DEF R, x, k
<1>7. stats.total \in Nat /\ CarriedBytes(t) <= stats.total
  BY CarriedCounted
<1>8. stats'.total = stats.total - SizeOf[c.cur] /\ stats'.total \in Nat
  BY <1>3, <1>4, <1>5, <1>7 DEF SaturatingSub
<1> QED BY <1>3, <1>4, <1>5, <1>6, <1>7, <1>8 DEF Carries

\* A stored chunk is added.
LEMMA StoredCarries ==
  ASSUME TypeInv, TypeInv', TotalExact, NEW t \in Threads, OwnChunk(t),
         call[t].pc \in {"index_get", "index_put"}, ~Releasing(t), RefcountSaved(t),
         manifest' = manifest
  PROVE  Carries(t)
<1> DEFINE c == call[t]
           n == c.done
           x == c.new
           R == 1 .. n - 1
<1>1. /\ c \in Records /\ WellFormed(c) /\ x \in Seq(Digests) /\ c.released = 0
      /\ n \in Nat
  BY CallFields DEF Releasing
<1>2. n \in DOMAIN x /\ c.cur = x[n] /\ Uncommitted(t)
  BY <1>1 DEF OwnChunk, Uncommitted, WellFormed, SavingPcs
<1>3. 1 .. n = R \cup {n} /\ n \notin R /\ 1 .. n \subseteq DOMAIN x
  <2>1. n \in 1 .. Len(x) /\ Len(x) \in Nat /\ DOMAIN x = 1 .. Len(x)
    BY <1>1, <1>2
  <2> QED BY <2>1
<1>4. CarriedBytes(t) = Total(Lengths(x), R)
  BY <1>2 DEF CarriedBytes, StoredPart, SavingPcs
<1>5. /\ Total(Lengths(x), 1 .. n) = Lengths(x)[n] + Total(Lengths(x), R)
      /\ Total(Lengths(x), R) \in Nat
  <2> HIDE DEF R
  <2>1. /\ IsFiniteSet(R) /\ Total(Lengths(x), R) \in Nat
        /\ \A i \in R \cup {n} : Lengths(x)[i] \in Nat
    BY <1>1, <1>3, LengthsNat
  <2> QED BY <1>3, <2>1, TotalWith
<1>6. Lengths(x)[n] = SizeOf[c.cur] /\ SizeOf[c.cur] \in Nat
  BY <1>1, <1>2, StoreAssumption DEF Lengths
<1>7. CarriedBytes(t)' = Total(Lengths(x), 1 .. n)
  <2>1. Keeps(t) /\ call'[t].pc \in {"exists", "peek"}
    BY GotoKeeps DEF RefcountSaved
  <2>2. Uncommitted(t)' /\ StoredPart(call'[t]) = 1 .. n /\ call'[t].new = x
    BY <1>2, <2>1 DEF Keeps, Uncommitted, StoredPart, SavingPcs
  <2> HIDE DEF R, x, n
  <2> QED BY <2>2 DEF CarriedBytes
<1>8. stats'.total = stats.total + SizeOf[c.cur]
  BY DEF RefcountSaved
<1> HIDE DEF R, x, n
<1>9. stats.total \in Nat
  BY CarriedCounted
<1> QED BY <1>4, <1>5, <1>6, <1>7, <1>8, <1>9 DEF Carries

LEMMA SavedCarries ==
  ASSUME TypeInv, TypeInv', StatsTyped, TotalExact, NEW t \in Threads, OwnChunk(t),
         call[t].pc \in {"index_get", "index_put"}, RefcountSaved(t), manifest' = manifest
  PROVE  Carries(t)
<1>1. CASE Releasing(t)
  <2>1. stats'.total = SaturatingSub(stats.total, SizeOf[call[t].cur]) /\ ReleaseRest(t)
    BY <1>1 DEF RefcountSaved, StatsTyped
  <2> QED BY <1>1, <2>1, ReleasedCarries DEF Releasing, SavingPcs
<1> QED BY <1>1, StoredCarries

\* release_digests finds a count for what it is about to release.
FindsCount(t) == call[t].pc = "decrement" => rc[OldChunk(t)] > 0

LEMMA CountingCarries ==
  ASSUME TypeInv, TypeInv', TotalExact, NEW t \in Threads, FindsCount(t),
         Increment(t) \/ Decrement(t)
  PROVE  Carries(t)
<1> DEFINE c == call[t]
<1>1. /\ c \in Records /\ WellFormed(c) /\ c.done \in Nat /\ c.released \in Nat
  BY CallFields
<1>2. CASE Increment(t)
  <2> DEFINE D == Chunk(t)
             n == Incremented(D)
             r == [c EXCEPT !.pc = "save_refcount", !.done = @ + 1, !.cur = D, !.count = n]
  <2>1. call'[t] = r /\ c.pc = "increment" /\ manifest' = manifest /\ stats' = stats
    BY <1>2, GoesOn DEF Increment
  <2> HIDE DEF D, n
  <2>2. /\ r.pc = "save_refcount" /\ r.op = c.op /\ r.new = c.new
        /\ r.done = c.done + 1 /\ r.released = c.released
    BY <1>1 DEF Records
  <2> HIDE DEF r
  <2>3. Uncommitted(t) /\ Uncommitted(t)'
    BY <1>1, <2>1, <2>2 DEF Uncommitted, WellFormed
  <2>4. StoredPart(call'[t]) = StoredPart(c)
    <3>1. r.done - 1 = c.done
      BY <1>1, <2>2
    <3> QED BY <2>1, <2>2, <3>1 DEF StoredPart, SavingPcs
  <2>5. CarriedBytes(t)' = CarriedBytes(t)
    BY <2>1, <2>2, <2>3, <2>4 DEF CarriedBytes
  <2> QED BY <2>1, <2>5, CarriedCounted DEF Carries
<1>3. CASE Decrement(t)
  <2> DEFINE D == OldChunk(t)
             n == Remaining(D)
             p == IF LastReference(D) THEN "gc_blob" ELSE "save_refcount"
             r == [c EXCEPT !.pc = p, !.released = @ + 1, !.cur = D, !.count = n]
  <2>1. c.pc = "decrement" /\ manifest' = manifest /\ stats' = stats
    BY <1>3 DEF Decrement
  <2>2. rc[D] # 0
    BY <2>1 DEF FindsCount
  <2>3. call'[t] = r /\ p \in {"gc_blob", "save_refcount"}
    BY <1>3, <2>2, GoesOn DEF Decrement
  <2> HIDE DEF D, n, p
  <2>4. r.pc = p /\ r.old = c.old /\ r.released = c.released + 1
    BY <1>1 DEF Records
  <2> HIDE DEF r
  <2>5. ~Uncommitted(t) /\ ~Uncommitted(t)'
    BY <1>1, <2>1, <2>3, <2>4 DEF Uncommitted
  <2>6. OwedPart(call'[t]) = OwedPart(c)
    BY <2>1, <2>3, <2>4 DEF OwedPart, SavingPcs, CollectPcs
  <2>7. CarriedBytes(t)' = CarriedBytes(t)
    BY <2>3, <2>4, <2>5, <2>6 DEF CarriedBytes
  <2> QED BY <2>1, <2>7, CarriedCounted DEF Carries
<1> QED BY <1>2, <1>3

\* A file that is entered is no longer its call's, and what it replaces or what is
\* removed becomes the call's.
LEMMA EnteringCarries ==
  ASSUME TypeInv, TypeInv', TotalExact, PeekedIsCurrent, NEW t \in Threads,
         faults' = faults, Insert(t) \/ Remove(t)
  PROVE  Carries(t)
<1> DEFINE c == call[t]
           f == c.file
<1>1. /\ c \in Records /\ WellFormed(c) /\ c.done \in Nat /\ c.released \in Nat
      /\ manifest \in [Files -> Contents \cup {None}] /\ faults \in Nat
  BY CallFields DEF TypeInv, TypeOK
<1>2. f \in Files /\ (f \in Files => manifest[f] \in Contents \cup {None})
  BY <1>1 DEF Insert, Remove, WellFormed
<1>3. FileBytes(manifest[f]) = IF manifest[f] = None THEN 0
                               ELSE Total(Lengths(manifest[f]), 1 .. Len(manifest[f]))
  <2>1. manifest[f] = None => FileBytes(manifest[f]) = 0
    BY DEF FileBytes
  <2> QED BY <1>2, <2>1, FileBytesOf
<1>4. FileBytes(None) = 0
  BY DEF FileBytes
<1>5. CASE Insert(t)
  <2>1. c.pc = "insert" /\ f \notin EmptyIds /\ stats' = stats
    BY <1>1, <1>5 DEF Insert
  <2>2. /\ manifest' = [manifest EXCEPT ![f] = c.new] /\ Keeps(t) /\ call'[t].pc = "save_manifest"
    BY <1>5, <2>1, GotoKeeps DEF Insert
  <2>3. c.new \in Contents /\ c.done = Len(c.new) /\ c.released = 0 /\ c.op = "ingest"
    BY <1>1, <2>1 DEF WellFormed, SavingPcs
  <2>4. CarriedBytes(t) = FileBytes(c.new)
    BY <2>1, <2>3, FileBytesOf DEF CarriedBytes, Uncommitted, StoredPart, SavingPcs
  <2>5. CarriedBytes(t)' = Total(Lengths(c.old), 1 .. Len(c.old))
    <3>1. ~Uncommitted(t)' /\ OwedPart(call'[t]) = 1 .. Len(c.old) /\ call'[t].old = c.old
      BY <2>2, <2>3 DEF Keeps, Uncommitted, OwedPart, SavingPcs, CollectPcs
    <3> QED BY <3>1 DEF CarriedBytes
  <2>6. CarriedBytes(t)' = FileBytes(manifest[f])
    <3>1. c.old = ContentOf(f)
      BY <2>1 DEF PeekedIsCurrent
    <3>2. CASE manifest[f] = None
      <4>1. 1 .. Len(c.old) = {}
        BY <3>1, <3>2 DEF ContentOf
      <4> QED BY <1>3, <2>5, <3>2, <4>1, TotalNone
    <3>3. CASE manifest[f] # None
      BY <1>3, <2>5, <3>1, <3>3 DEF ContentOf
    <3> QED BY <3>2, <3>3
  <2>7. manifest'[f] = c.new /\ \A g \in Files \ {f} : manifest'[g] = manifest[g]
    BY <1>1, <1>2, <2>2
  <2>8. /\ FileBytes(manifest[f])' = FileBytes(c.new)
        /\ FileBytes(c.new) \in Nat /\ FileBytes(manifest[f]) \in Nat
    <3>1. call'[t].file = f
      BY <2>2 DEF Keeps
    <3>2. FileBytes(manifest[f]) \in Nat
      BY <1>2, BytesNat DEF NatBytes
    <3> QED BY <2>3, <2>7, <3>1, <3>2, FileBytesOf
  <2>9. PICK g \in Files : g = f
    BY <1>2
  <2>10. FileBytes(manifest[g])' = FileBytes(c.new)
    BY <2>7, <2>9
  <2> QED BY <2>1, <2>4, <2>6, <2>7, <2>8, <2>9, <2>10 DEF Carries
<1>6. CASE Remove(t)
  <2>1. c.pc = "remove" /\ stats' = stats
    BY <1>6 DEF Remove
  <2>2. CarriedBytes(t) = 0
    BY <2>1, FreeCarry DEF FreeBytes, FreePcs
  <2>3. CASE manifest[f] = None
    <3>1. manifest' = manifest /\ call'[t].pc = "idle"
      BY <1>6, <2>3, ReturnIdle DEF Remove
    <3>2. CarriedBytes(t)' = 0
      BY <3>1, FreeCarryAfter DEF FreeBytes, FreePcs
    <3> QED BY <2>1, <2>2, <3>1, <3>2, CarriedCounted DEF Carries
  <2>4. CASE manifest[f] # None
    <3> DEFINE x == manifest[f]
               r == [c EXCEPT !.pc = "remove_manifest", !.old = x]
    <3>1. manifest' = [manifest EXCEPT ![f] = None] /\ call'[t] = r
      BY <1>6, <2>4, GoesOn DEF Remove
    <3> HIDE DEF x
    <3>2. r.pc = "remove_manifest" /\ r.old = x /\ r.released = c.released
      BY <1>1 DEF Records
    <3> HIDE DEF r
    <3>3. c.released = 0
      BY <1>1, <2>1 DEF WellFormed
    <3>4. ~Uncommitted(t)' /\ OwedPart(call'[t]) = 1 .. Len(x) /\ call'[t].old = x
      BY <3>1, <3>2, <3>3 DEF Uncommitted, OwedPart, SavingPcs, CollectPcs
    <3>5. CarriedBytes(t)' = FileBytes(x)
      BY <1>3, <2>4, <3>4 DEF CarriedBytes, x
    <3>6. PICK g \in Files : g = f
      BY <1>2
    <3>7. manifest'[g] = None /\ \A h \in Files \ {g} : manifest'[h] = manifest[h]
      BY <1>1, <3>1, <3>6
    <3>8. FileBytes(manifest[g])' = 0 /\ FileBytes(manifest[g]) = FileBytes(x)
      BY <1>4, <3>6, <3>7 DEF x
    <3>9. FileBytes(manifest[g]) \in Nat
      BY BytesNat DEF NatBytes
    <3> QED BY <2>1, <2>2, <3>5, <3>7, <3>8, <3>9 DEF Carries
  <2> QED BY <2>3, <2>4
<1> QED BY <1>5, <1>6

LEMMA StatsStayTyped ==
  ASSUME TypeInv, StatsTyped, NEW t \in Threads, BeginCall(t) \/ Step(t)
  PROVE  StatsTyped'
<1> DEFINE c == call[t]
<1>1. /\ c \in Records /\ WellFormed(c)
  BY CallFields
<1>2. ASSUME NEW n \in Nat, NEW m \in Nat PROVE SaturatingSub(n, m) \in Nat
  BY DEF SaturatingSub
<1>3. ASSUME c.pc \in SavingPcs \cup CollectPcs PROVE SizeOf[c.cur] \in Nat
  BY <1>1, <1>3, StoreAssumption DEF WellFormed, SavingPcs, CollectPcs
<1>4. CASE BeginCall(t)
  BY <1>4 DEF BeginCall, BeginIngest, BeginDelete, BeginRead, BeginRepair, Begin, memory, StatsTyped
<1>5. CASE RefIndexGet(t) \/ RefIndexPut(t)
  <2>1. SizeOf[c.cur] \in Nat
    BY <1>3, <1>5 DEF RefIndexGet, RefIndexPut, SavingPcs
  <2>2. stats' = stats \/ RefcountSaved(t)
    BY <1>5 DEF RefIndexGet, RefIndexPut
  <2>3. CASE RefcountSaved(t) /\ Releasing(t)
    BY <1>2, <2>1, <2>3 DEF RefcountSaved, StatsTyped
  <2>4. CASE RefcountSaved(t) /\ ~Releasing(t)
    <3>1. stats.total + SizeOf[c.cur] \in Nat
          /\ stats.stored + (IF c.existed THEN 0 ELSE SizeOf[c.cur]) \in Nat
      BY <2>1 DEF StatsTyped
    <3> QED BY <2>4, <3>1 DEF RefcountSaved, StatsTyped
  <2> QED BY <2>2, <2>3, <2>4 DEF StatsTyped
<1>6. CASE GcIndexPut(t)
  <2>1. SizeOf[c.cur] \in Nat
    BY <1>3, <1>6 DEF GcIndexPut, CollectPcs
  <2> QED BY <1>2, <1>6, <2>1 DEF GcIndexPut, StatsCollected, StatsTyped
<1>7. CASE Step(t) /\ ~RefIndexGet(t) /\ ~RefIndexPut(t) /\ ~GcIndexPut(t)
  <2>1. stats' = stats
    BY <1>7 DEF Step, memory, StoreExists, StorePut, Increment, SaveRefcount, Peek, Insert,
       SaveManifest, ManIndexGet, ManIndexPut, Remove, RemoveManifest, RmIndexGet, RmIndexPut,
       Size, Decrement, GcBlob, GcRefcount, GcIndexGet, Lookup, Fetch, FsckLive, FsckList, FsckUnlink
  <2> QED BY <2>1 DEF StatsTyped
<1> QED BY <1>4, <1>5, <1>6, <1>7

\* Every step of a call whose backend calls succeed.
LEMMA StepCarries ==
  ASSUME TypeInv, TypeInv', StatsTyped, TotalExact, PeekedIsCurrent,
         NEW t \in Threads, OwnChunk(t), FindsCount(t), faults' = faults, BeginCall(t) \/ Step(t)
  PROVE  Carries(t)
<1> DEFINE c == call[t]
<1>1. /\ c \in Records /\ WellFormed(c)
  BY CallFields
<1> USE DEF memory, Stage, SavingPcs, CollectPcs
<1>2. ASSUME c.pc \in FreePcs, call'[t].pc \in FreePcs \cup {"exists", "peek"},
             call'[t].pc \in {"exists", "peek"} => call'[t].done = 0 /\ call'[t].released = 0
                                                /\ call'[t].op = "ingest",
             manifest' = manifest, stats' = stats
      PROVE  Carries(t)
  <2>1. CarriedBytes(t) = 0
    BY <1>2, FreeCarry DEF FreeBytes
  <2>2. CASE call'[t].pc \in FreePcs
    <3>1. CarriedBytes(t)' = 0
      BY <2>2, FreeCarryAfter DEF FreeBytes
    <3> QED BY <1>2, <2>1, <3>1, CarriedCounted DEF Carries
  <2>3. CASE call'[t].pc \in {"exists", "peek"}
    <3>1. Uncommitted(t)' /\ StoredPart(call'[t]) = {}
      BY <1>2, <2>3 DEF Uncommitted, StoredPart
    <3>2. CarriedBytes(t)' = 0
      BY <3>1, TotalNone DEF CarriedBytes
    <3> QED BY <1>2, <2>1, <3>2, CarriedCounted DEF Carries
  <2> QED BY <1>2, <2>2, <2>3
<1>3. CASE BeginCall(t)
  <2>1. /\ c.pc = "idle" /\ manifest' = manifest /\ stats' = stats
    BY <1>3 DEF BeginCall, BeginIngest, BeginDelete, BeginRead, BeginRepair, Begin, Busy
  <2>2. PICK o, f, x, l :
               /\ Become(t, [Idle EXCEPT !.pc = l, !.op = o, !.file = f, !.new = x])
               /\ l \in {"exists", "peek"} => o = "ingest"
               /\ l \in {"exists", "peek", "remove", "lookup", "fsck_live"}
    BY <1>3 DEF BeginCall, BeginIngest, BeginDelete, BeginRead, BeginRepair, Begin
  <2> DEFINE r == [Idle EXCEPT !.pc = l, !.op = o, !.file = f, !.new = x]
  <2>3. call'[t] = r
    BY <2>2, GoesOn
  <2>4. r.pc = l /\ r.op = o /\ r.done = 0 /\ r.released = 0
    BY DEF Idle
  <2> HIDE DEF r
  <2> QED BY <1>2, <2>1, <2>2, <2>3, <2>4 DEF FreePcs
<1>4. CASE StoreExists(t)
  <2>1. c.pc = "exists" /\ manifest' = manifest /\ stats' = stats
    BY <1>4 DEF StoreExists
  <2>2. PICK p \in {"increment", "put"}, x \in BOOLEAN :
               Become(t, [c EXCEPT !.pc = p, !.existed = x])
    BY <1>4 DEF StoreExists
  <2>3. call'[t] = [c EXCEPT !.pc = p, !.existed = x]
    BY <2>2, GoesOn
  <2>4. Keeps(t) /\ call'[t].pc = p
    BY <1>1, <2>3 DEF Records, Keeps
  <2> QED BY <2>1, <2>4, CarriesOn
<1>5. CASE StorePut(t)
  BY <1>5, GotoKeeps, CarriesOn DEF StorePut
<1>6. CASE Increment(t) \/ Decrement(t)
  BY <1>6, CountingCarries
<1>7. CASE SaveRefcount(t) \/ RefIndexGet(t) \/ RefIndexPut(t)
  <2>1. manifest' = manifest
    BY <1>7 DEF SaveRefcount, RefIndexGet, RefIndexPut
  <2>2. CASE RefcountSaved(t)
    <3>1. CASE SaveRefcount(t)
      BY <3>1, GotoKeeps, CarriesOn DEF SaveRefcount
    <3> QED BY <1>7, <2>1, <2>2, <3>1, SavedCarries DEF RefIndexGet, RefIndexPut
  <2>3. CASE ~RefcountSaved(t)
    <3>1. stats' = stats /\ Keeps(t) /\ call'[t].pc \in SavingPcs /\ c.pc \in SavingPcs
      BY <1>7, <2>3, GotoKeeps, SeenKeeps DEF SaveRefcount, RefIndexGet, RefIndexPut
    <3> QED BY <2>1, <3>1, CarriesOn
  <2> QED BY <2>2, <2>3
<1>8. CASE Peek(t)
  <2> DEFINE o == IF manifest[c.file] = None THEN <<>> ELSE manifest[c.file]
             r == [c EXCEPT !.pc = "insert", !.old = o]
  <2>1. c.pc = "peek" /\ manifest' = manifest /\ stats' = stats /\ call'[t] = r
    BY <1>8, GoesOn DEF Peek
  <2> HIDE DEF o
  <2>2. /\ r.pc = "insert" /\ r.op = c.op /\ r.new = c.new /\ r.done = c.done
        /\ r.released = c.released
    BY <1>1 DEF Records
  <2> HIDE DEF r
  <2>3. Uncommitted(t) /\ Uncommitted(t)' /\ StoredPart(call'[t]) = StoredPart(c)
    BY <1>1, <2>1, <2>2 DEF Uncommitted, StoredPart, WellFormed
  <2>4. CarriedBytes(t)' = CarriedBytes(t)
    BY <2>1, <2>2, <2>3 DEF CarriedBytes
  <2> QED BY <2>1, <2>4, CarriedCounted DEF Carries
<1>9. CASE Insert(t) \/ Remove(t)
  BY <1>9, EnteringCarries
<1>10. CASE SaveManifest(t) \/ ManIndexGet(t) \/ ManIndexPut(t)
  <2>1. manifest' = manifest /\ stats' = stats
    BY <1>10 DEF SaveManifest, ManIndexGet, ManIndexPut
  <2>2. CASE SaveManifest(t)
    BY <2>1, <2>2, GotoKeeps, CarriesOn DEF SaveManifest
  <2>3. CASE ManIndexGet(t)
    <3>1. c.pc = "man_index_get"
      BY <2>3 DEF ManIndexGet
    <3>2. CASE c.file \in midx
      BY <2>1, <2>3, <3>1, <3>2, RestCarries DEF ManIndexGet
    <3>3. CASE c.file \notin midx
      <4>1. Keeps(t) /\ call'[t].pc = "man_index_put"
        BY <2>3, <3>3, SeenKeeps DEF ManIndexGet
      <4> QED BY <2>1, <3>1, <4>1, CarriesOn
    <3> QED BY <3>2, <3>3
  <2>4. CASE ManIndexPut(t)
    BY <2>1, <2>4, RestCarries DEF ManIndexPut
  <2> QED BY <1>10, <2>2, <2>3, <2>4
<1>11. CASE RemoveManifest(t) \/ RmIndexGet(t) \/ RmIndexPut(t)
  <2>1. manifest' = manifest /\ stats' = stats
    BY <1>11 DEF RemoveManifest, RmIndexGet, RmIndexPut
  <2>2. CASE RemoveManifest(t)
    BY <2>1, <2>2, GotoKeeps, CarriesOn DEF RemoveManifest
  <2>3. CASE RmIndexGet(t)
    <3>1. c.pc = "rm_index_get" /\ Keeps(t) /\ call'[t].pc = "rm_index_put"
      BY <2>3, SeenKeeps DEF RmIndexGet
    <3> QED BY <2>1, <3>1, CarriesOn
  <2>4. CASE RmIndexPut(t)
    BY <2>1, <2>4, RestCarries DEF RmIndexPut
  <2> QED BY <1>11, <2>2, <2>3, <2>4
<1>12. CASE Size(t)
  <2>1. faults' # faults + 1
    BY DEF TypeInv, TypeOK
  <2>2. Goto(t, "decrement") /\ c.pc = "size" /\ manifest' = manifest /\ stats' = stats
    BY <1>12, <2>1 DEF Size, memory
  <2> QED BY <2>2, GotoKeeps, CarriesOn
<1>13. CASE GcBlob(t) \/ GcRefcount(t) \/ GcIndexGet(t)
  <2>1. manifest' = manifest /\ stats' = stats
    BY <1>13 DEF GcBlob, GcRefcount, GcIndexGet
  <2>2. CASE GcBlob(t)
    BY <2>1, <2>2, GotoKeeps, CarriesOn DEF GcBlob
  <2>3. CASE GcRefcount(t)
    BY <2>1, <2>3, GotoKeeps, CarriesOn DEF GcRefcount
  <2>4. CASE GcIndexGet(t)
    <3>1. c.pc = "gc_index_get" /\ Keeps(t) /\ call'[t].pc = "gc_index_put"
      BY <2>4, SeenKeeps DEF GcIndexGet
    <3> QED BY <2>1, <3>1, CarriesOn
  <2> QED BY <1>13, <2>2, <2>3, <2>4
<1>14. CASE GcIndexPut(t)
  <2>1. /\ c.pc = "gc_index_put" /\ ReleaseRest(t) /\ manifest' = manifest
        /\ stats'.total = SaturatingSub(stats.total, SizeOf[c.cur])
    BY <1>14 DEF GcIndexPut, StatsCollected
  <2> QED BY <1>1, <2>1, ReleasedCarries DEF WellFormed
<1>15. CASE Lookup(t) \/ Fetch(t)
  <2>1. /\ c.pc \in FreePcs /\ manifest' = manifest /\ stats' = stats
    BY <1>15 DEF Lookup, Fetch, FreePcs
  <2>2. CASE Lookup(t)
    <3> DEFINE r == [c EXCEPT !.pc = "fetch", !.new = manifest[c.file]]
    <3>1. r.pc = "fetch"
      BY <1>1 DEF Records
    <3>2. call'[t].pc = "idle" \/ call'[t] = r
      BY <2>2, GoesOn, ReturnIdle DEF Lookup
    <3> HIDE DEF r
    <3> QED BY <1>2, <2>1, <3>1, <3>2 DEF FreePcs
  <2>3. CASE Fetch(t)
    <3> DEFINE r == [c EXCEPT !.done = @ + 1]
    <3>1. r.pc = c.pc
      BY <1>1 DEF Records
    <3>2. call'[t].pc = "idle" \/ call'[t] = r
      BY <2>3, GoesOn, ReturnIdle DEF Fetch
    <3> HIDE DEF r
    <3> QED BY <1>2, <2>1, <2>3, <3>1, <3>2 DEF FreePcs, Fetch
  <2> QED BY <1>15, <2>2, <2>3
<1>16. CASE FsckLive(t) \/ FsckList(t)
  <2>1. manifest' = manifest /\ stats' = stats
    BY <1>16 DEF FsckLive, FsckList
  <2>2. c.pc \in FreePcs
    BY <1>16 DEF FsckLive, FsckList, FreePcs
  <2>3. call'[t].pc \in {"fsck_list", "fsck_unlink", "idle"}
    BY <1>16, SeenKeeps, ReturnIdle DEF FsckLive, FsckList
  <2> QED BY <1>2, <2>1, <2>2, <2>3 DEF FreePcs
<1>17. CASE FsckUnlink(t)
  <2>1. ASSUME NEW d, Become(t, [c EXCEPT !.seen = @ \ {d}]) PROVE call'[t].pc = c.pc
    <3> DEFINE r == [c EXCEPT !.seen = @ \ {d}]
    <3>1. r.pc = c.pc
      BY <1>1 DEF Records
    <3>2. call'[t] = r
      BY <2>1, GoesOn
    <3> HIDE DEF r
    <3> QED BY <3>1, <3>2
  <2>2. c.pc = "fsck_unlink" /\ call'[t].pc \in {"idle", "fsck_unlink"}
    BY <1>17, <2>1, ReturnIdle DEF FsckUnlink
  <2>3. manifest' = manifest /\ stats' = stats
    BY <1>17 DEF FsckUnlink
  <2> QED BY <1>2, <2>2, <2>3 DEF FreePcs
<1> QED BY <1>3, <1>4, <1>5, <1>6, <1>7, <1>8, <1>9, <1>10, <1>11, <1>12, <1>13, <1>14, <1>15,
        <1>16, <1>17 DEF Step

LEMMA GotoExisted ==
  ASSUME TypeInv, NEW t \in Threads, NEW label, Goto(t, label)
  PROVE  call'[t].existed = call[t].existed
<1>1. call'[t] = [call[t] EXCEPT !.pc = label] /\ call[t] \in Records
  BY GoesOn DEF Goto, TypeInv, TypeOK
<1> QED BY <1>1 DEF Records

LEMMA SeenExisted ==
  ASSUME TypeInv, NEW t \in Threads, NEW label, NEW s,
         Become(t, [call[t] EXCEPT !.pc = label, !.seen = s])
  PROVE  call'[t].existed = call[t].existed
<1>1. call'[t] = [call[t] EXCEPT !.pc = label, !.seen = s] /\ call[t] \in Records
  BY GoesOn DEF TypeInv, TypeOK
<1> QED BY <1>1 DEF Records

\* A chunk that is counted down is collected, or its count is saved.
LEMMA DecrementLeads ==
  ASSUME TypeInv, NEW t \in Threads, Decrement(t)
  PROVE  \/ call'[t].pc = "idle"
         \/ /\ call'[t].pc \in {"gc_blob", "save_refcount"}
            /\ call'[t].cur = OldChunk(t) /\ call'[t].released = call[t].released + 1
            /\ call'[t].old = call[t].old
<1> DEFINE c == call[t]
           D == OldChunk(t)
           n == Remaining(D)
           p == IF LastReference(D) THEN "gc_blob" ELSE "save_refcount"
           r == [c EXCEPT !.pc = p, !.released = @ + 1, !.cur = D, !.count = n]
<1>1. c \in Records
  BY CallFields
<1>2. call'[t].pc = "idle" \/ call'[t] = r
  BY GoesOn, ReturnIdle DEF Decrement
<1>3. p \in {"gc_blob", "save_refcount"}
  OBVIOUS
<1> HIDE DEF D, n, p
<1>4. r.pc = p /\ r.cur = D /\ r.released = c.released + 1 /\ r.old = c.old
  BY <1>1 DEF Records
<1> HIDE DEF r
<1> QED BY <1>2, <1>3, <1>4 DEF D

\* How a call comes to have a chunk in hand.
Handed(t) ==
  /\ call'[t].pc = "put" => StoreExists(t)
  /\ call'[t].pc = "increment" => StoreExists(t) \/ StorePut(t)
  /\ call'[t].pc = "gc_blob" => Decrement(t)
  /\ call'[t].pc \in SavingPcs \cup CollectPcs =>
       \/ Increment(t) \/ Decrement(t)
       \/ /\ Keeps(t) /\ call'[t].existed = call[t].existed
          /\ call[t].pc \in SavingPcs <=> call'[t].pc \in SavingPcs
          /\ call[t].pc \in SavingPcs \cup CollectPcs
          /\ stats' = stats

EmptyHanded(p) == p \notin SavingPcs \cup CollectPcs \cup {"put", "increment"}

LEMMA NotHanded ==
  ASSUME NEW t \in Threads, EmptyHanded(call'[t].pc)
  PROVE  Handed(t)
BY DEF EmptyHanded, Handed, CollectPcs

LEMMA RestNotHanded ==
  ASSUME TypeInv, NEW t \in Threads, ReleaseRest(t)
  PROVE  Handed(t)
<1>1. call'[t].pc \in {"size", "idle"}
  BY GotoKeeps, ReturnIdle DEF ReleaseRest
<1> QED BY <1>1, NotHanded DEF EmptyHanded, SavingPcs, CollectPcs

LEMMA StepHands ==
  ASSUME TypeInv, NEW t \in Threads, BeginCall(t) \/ Step(t)
  PROVE  Handed(t)
<1> DEFINE c == call[t]
<1>1. c \in Records /\ WellFormed(c)
  BY CallFields
<1> USE DEF SavingPcs, CollectPcs, EmptyHanded, memory
<1>2. CASE Increment(t) \/ Decrement(t)
  <2>1. CASE Increment(t)
    <3> DEFINE D == Chunk(t)
               n == Incremented(D)
               r == [c EXCEPT !.pc = "save_refcount", !.done = @ + 1, !.cur = D, !.count = n]
    <3>1. call'[t] = r
      BY <2>1, GoesOn DEF Increment
    <3> HIDE DEF n, D
    <3>2. r.pc = "save_refcount"
      BY <1>1 DEF Records
    <3> HIDE DEF r
    <3> QED BY <2>1, <3>1, <3>2 DEF Handed
  <2>2. CASE Decrement(t)
    <3>1. call'[t].pc \in {"idle", "gc_blob", "save_refcount"}
      BY <2>2, DecrementLeads
    <3> QED BY <2>2, <3>1 DEF Handed
  <2> QED BY <1>2, <2>1, <2>2
<1>3. CASE SaveRefcount(t) \/ RefIndexGet(t) \/ RefIndexPut(t)
  <2>1. CASE RefcountSaved(t) /\ ~SaveRefcount(t)
    <3>1. CASE Releasing(t)
      BY <2>1, <3>1, RestNotHanded DEF RefcountSaved
    <3>2. CASE ~Releasing(t)
      <4>1. call'[t].pc \in {"exists", "peek"}
        BY <2>1, <3>2, GotoKeeps DEF RefcountSaved
      <4> QED BY <4>1, NotHanded
    <3> QED BY <3>1, <3>2
  <2>2. CASE SaveRefcount(t)
    <3>1. /\ c.pc = "save_refcount" /\ Keeps(t) /\ call'[t].pc = "index_get"
          /\ call'[t].existed = c.existed /\ stats' = stats
      BY <2>2, GotoKeeps, GotoExisted DEF SaveRefcount
    <3> QED BY <3>1 DEF Handed
  <2>3. CASE ~RefcountSaved(t) /\ ~SaveRefcount(t)
    <3>1. /\ c.pc = "index_get" /\ Keeps(t) /\ call'[t].pc = "index_put"
      BY <1>3, <2>3, SeenKeeps DEF RefIndexGet, RefIndexPut
    <3>2. call'[t].existed = c.existed /\ stats' = stats
      BY <1>3, <2>3, SeenExisted DEF RefIndexGet, RefIndexPut
    <3> QED BY <3>1, <3>2 DEF Handed
  <2> QED BY <1>3, <2>1, <2>2, <2>3
<1>4. CASE GcBlob(t) \/ GcRefcount(t) \/ GcIndexGet(t)
  <2>1. c.pc \in CollectPcs /\ stats' = stats
    BY <1>4 DEF GcBlob, GcRefcount, GcIndexGet
  <2>3. CASE GcIndexGet(t)
    <3>1. Keeps(t) /\ call'[t].pc = "gc_index_put"
      BY <2>3, SeenKeeps DEF GcIndexGet
    <3>2. call'[t].existed = c.existed
      BY <2>3, SeenExisted DEF GcIndexGet
    <3> QED BY <2>1, <3>1, <3>2 DEF Handed
  <2>4. CASE GcBlob(t) \/ GcRefcount(t)
    BY <2>1, <2>4, GotoKeeps, GotoExisted DEF GcBlob, GcRefcount, Handed
  <2> QED BY <1>4, <2>3, <2>4
<1>5. CASE GcIndexPut(t) \/ ManIndexPut(t) \/ RmIndexPut(t)
  BY <1>5, RestNotHanded DEF GcIndexPut, ManIndexPut, RmIndexPut
<1>6. CASE ManIndexGet(t)
  <2>1. ReleaseRest(t) \/ call'[t].pc = "man_index_put"
    BY <1>6, SeenKeeps DEF ManIndexGet
  <2> QED BY <2>1, RestNotHanded, NotHanded
<1>7. CASE \/ Insert(t) \/ SaveManifest(t) \/ RemoveManifest(t) \/ RmIndexGet(t)
           \/ Size(t) \/ FsckLive(t) \/ FsckList(t)
  <2>1. CASE Insert(t) \/ SaveManifest(t) \/ RemoveManifest(t) \/ Size(t)
    <3>1. EmptyHanded(call'[t].pc)
      <4>1. call'[t].pc \in {"save_manifest", "man_index_get", "rm_index_get", "decrement", "idle"}
        BY <2>1, GotoKeeps, ReturnIdle DEF Insert, SaveManifest, RemoveManifest, Size
      <4> QED BY <4>1
    <3> QED BY <3>1, NotHanded
  <2>2. CASE RmIndexGet(t) \/ FsckLive(t) \/ FsckList(t)
    <3>1. call'[t].pc \in {"rm_index_put", "fsck_list", "fsck_unlink", "idle"}
      <4>1. RmIndexGet(t) => call'[t].pc = "rm_index_put"
        BY SeenKeeps DEF RmIndexGet
      <4>2. FsckLive(t) => call'[t].pc = "fsck_list"
        BY SeenKeeps DEF FsckLive
      <4>3. FsckList(t) => call'[t].pc \in {"fsck_unlink", "idle"}
        BY SeenKeeps, ReturnIdle DEF FsckList
      <4> QED BY <2>2, <4>1, <4>2, <4>3
    <3> QED BY <3>1, NotHanded
  <2> QED BY <1>7, <2>1, <2>2
<1>8. CASE BeginCall(t)
  <2>2. PICK o, f, x, l : /\ Become(t, [Idle EXCEPT !.pc = l, !.op = o, !.file = f, !.new = x])
                          /\ l \in {"exists", "peek", "remove", "lookup", "fsck_live"}
    BY <1>8 DEF BeginCall, BeginIngest, BeginDelete, BeginRead, BeginRepair, Begin
  <2> DEFINE r == [Idle EXCEPT !.pc = l, !.op = o, !.file = f, !.new = x]
  <2>3. r.pc = l
    BY DEF Idle
  <2>4. call'[t] = r
    BY <2>2, GoesOn
  <2> HIDE DEF r
  <2> QED BY <2>2, <2>3, <2>4, NotHanded
<1>9. CASE StoreExists(t)
  <2>1. PICK p \in {"increment", "put"}, x \in BOOLEAN :
               Become(t, [c EXCEPT !.pc = p, !.existed = x])
    BY <1>9 DEF StoreExists
  <2> DEFINE r == [c EXCEPT !.pc = p, !.existed = x]
  <2>2. r.pc = p
    BY <1>1 DEF Records
  <2>3. call'[t] = r
    BY <2>1, GoesOn
  <2> HIDE DEF r
  <2> QED BY <1>9, <2>1, <2>2, <2>3 DEF Handed
<1>10. CASE Peek(t)
  <2> DEFINE o == IF manifest[c.file] = None THEN <<>> ELSE manifest[c.file]
             r == [c EXCEPT !.pc = "insert", !.old = o]
  <2>1. call'[t] = r
    BY <1>10, GoesOn DEF Peek
  <2> HIDE DEF o
  <2>2. r.pc = "insert"
    BY <1>1 DEF Records
  <2> HIDE DEF r
  <2> QED BY <2>1, <2>2, NotHanded
<1>11. CASE Remove(t)
  <2> DEFINE x == manifest[c.file]
             r == [c EXCEPT !.pc = "remove_manifest", !.old = x]
  <2>1. call'[t].pc = "idle" \/ call'[t] = r
    BY <1>11, GoesOn, ReturnIdle DEF Remove
  <2> HIDE DEF x
  <2>2. r.pc = "remove_manifest"
    BY <1>1 DEF Records
  <2> HIDE DEF r
  <2> QED BY <2>1, <2>2, NotHanded
<1>12. CASE Lookup(t)
  <2> DEFINE r == [c EXCEPT !.pc = "fetch", !.new = manifest[c.file]]
  <2>1. r.pc = "fetch"
    BY <1>1 DEF Records
  <2>2. call'[t].pc = "idle" \/ call'[t] = r
    BY <1>12, GoesOn, ReturnIdle DEF Lookup
  <2> HIDE DEF r
  <2> QED BY <2>1, <2>2, NotHanded
<1>13. CASE Fetch(t)
  <2> DEFINE r == [c EXCEPT !.done = @ + 1]
  <2>1. r.pc = c.pc /\ c.pc = "fetch"
    BY <1>1, <1>13 DEF Records, Fetch
  <2>2. call'[t].pc = "idle" \/ call'[t] = r
    BY <1>13, GoesOn, ReturnIdle DEF Fetch
  <2> HIDE DEF r
  <2> QED BY <2>1, <2>2, NotHanded
<1>14. CASE FsckUnlink(t)
  <2>1. ASSUME NEW d, Become(t, [c EXCEPT !.seen = @ \ {d}]) PROVE call'[t].pc = c.pc
    <3> DEFINE r == [c EXCEPT !.seen = @ \ {d}]
    <3>1. r.pc = c.pc
      BY <1>1 DEF Records
    <3>2. call'[t] = r
      BY <2>1, GoesOn
    <3> HIDE DEF r
    <3> QED BY <3>1, <3>2
  <2>2. c.pc = "fsck_unlink" /\ call'[t].pc \in {"idle", "fsck_unlink"}
    BY <1>14, <2>1, ReturnIdle DEF FsckUnlink
  <2> QED BY <2>2, NotHanded
<1>15. CASE StorePut(t)
  <2>1. call'[t].pc = "increment"
    BY <1>15, GotoKeeps DEF StorePut
  <2> QED BY <1>15, <2>1 DEF Handed
<1> QED BY <1>2, <1>3, <1>4, <1>5, <1>6, <1>7, <1>8, <1>9, <1>10, <1>11, <1>12, <1>13, <1>14,
        <1>15 DEF Step

LEMMA OwnCounting ==
  ASSUME TypeInv, NEW t \in Threads, Increment(t) \/ Decrement(t)
  PROVE  OwnChunk(t)'
<1> DEFINE c == call[t]
<1>1. /\ c \in Records /\ WellFormed(c) /\ c.done \in Nat /\ c.released \in Nat
      /\ c.new \in Seq(Digests) /\ c.old \in Seq(Digests)
  BY CallFields
<1>2. CASE Increment(t)
  <2> DEFINE D == Chunk(t)
             n == Incremented(D)
             r == [c EXCEPT !.pc = "save_refcount", !.done = @ + 1, !.cur = D, !.count = n]
  <2>1. call'[t] = r /\ c.pc = "increment"
    BY <1>2, GoesOn DEF Increment
  <2> HIDE DEF n
  <2>2. /\ r.pc = "save_refcount" /\ r.cur = c.new[c.done + 1] /\ r.done = c.done + 1
        /\ r.released = c.released /\ r.new = c.new
    BY <1>1 DEF Records, Chunk
  <2> HIDE DEF r, D
  <2>3. c.done < Len(c.new) /\ c.released = 0
    BY <1>1, <2>1 DEF WellFormed
  <2>4. c.done + 1 \in DOMAIN c.new
    <3>1. DOMAIN c.new = 1 .. Len(c.new) /\ Len(c.new) \in Nat
      BY <1>1
    <3> QED BY <1>1, <2>3, <3>1
  <2> QED BY <2>1, <2>2, <2>3, <2>4 DEF OwnChunk
<1>3. CASE Decrement(t)
  <2>1. c.released < Len(c.old)
    BY <1>1, <1>3 DEF Decrement, WellFormed
  <2>2. c.released + 1 \in DOMAIN c.old /\ c.released + 1 > 0
    <3>1. DOMAIN c.old = 1 .. Len(c.old) /\ Len(c.old) \in Nat
      BY <1>1
    <3> QED BY <1>1, <2>1, <3>1
  <2>3. CASE call'[t].pc = "idle"
    BY <2>3 DEF OwnChunk, SavingPcs, CollectPcs
  <2>4. CASE call'[t].pc # "idle"
    <3>1. /\ call'[t].cur = c.old[c.released + 1] /\ call'[t].released = c.released + 1
          /\ call'[t].old = c.old
      BY <1>3, <2>4, DecrementLeads DEF OldChunk
    <3> QED BY <2>2, <3>1 DEF OwnChunk
  <2> QED BY <2>3, <2>4
<1> QED BY <1>2, <1>3

LEMMA OwnStep ==
  ASSUME TypeInv, NEW t \in Threads, OwnChunk(t), BeginCall(t) \/ Step(t)
  PROVE  OwnChunk(t)'
<1>1. CASE Increment(t) \/ Decrement(t)
  BY <1>1, OwnCounting
<1>2. CASE call'[t].pc \notin SavingPcs \cup CollectPcs
  BY <1>2 DEF OwnChunk
<1>3. CASE ~(Increment(t) \/ Decrement(t)) /\ call'[t].pc \in SavingPcs \cup CollectPcs
  <2>1. /\ Keeps(t) /\ (call[t].pc \in SavingPcs <=> call'[t].pc \in SavingPcs)
        /\ call[t].pc \in SavingPcs \cup CollectPcs
    BY <1>3, StepHands DEF Handed
  <2> QED BY <2>1 DEF OwnChunk, Keeps
<1> QED BY <1>1, <1>2, <1>3

\* A blob that is put is new, one that is unlinked is there, and the statistics
\* have what is taken off them.
PutsNew(t) == call[t].pc = "put" => blobLock = t /\ Chunk(t) \notin blobs /\ ~call[t].existed
DropsStored(t) == call[t].pc = "gc_blob" => call[t].cur \in blobs
SweepsNothing(t) == call[t].pc = "fsck_unlink" => call[t].seen \cap blobs = {}
TakesCounted(t) == call[t].pc = "gc_index_put" => SizeOf[call[t].cur] <= stats.stored

\* What the statistics count is the blobs, before and after.
Settles(t) ==
  stats'.stored + UnaddedBytes(t)' + Total(SizeOf, blobs) + DroppedBytes(t)
    = stats.stored + UnaddedBytes(t) + Total(SizeOf, blobs') + DroppedBytes(t)'

LEMMA BlobBytes ==
  ASSUME NEW S, S \subseteq Digests
  PROVE  IsFiniteSet(S) /\ Total(SizeOf, S) \in Nat
<1>1. IsFiniteSet(S) /\ \A d \in S : SizeOf[d] \in Nat
  BY StoreAssumption, FS_Subset
<1> QED BY <1>1, TotalNat

NatStored == TypeInv => /\ \A t \in Threads : UnaddedBytes(t) \in Nat /\ DroppedBytes(t) \in Nat
                        /\ Total(SizeOf, blobs) \in Nat

LEMMA StoredNat == NatStored
<1> SUFFICES ASSUME TypeInv
             PROVE  /\ \A t \in Threads : UnaddedBytes(t) \in Nat /\ DroppedBytes(t) \in Nat
                    /\ Total(SizeOf, blobs) \in Nat
  BY DEF NatStored
<1>1. blobs \subseteq Digests
  BY DEF TypeInv, TypeOK
<1>2. ASSUME NEW t \in Threads PROVE UnaddedBytes(t) \in Nat /\ DroppedBytes(t) \in Nat
  <2>1. WellFormed(call[t]) /\ \A d \in Digests : SizeOf[d] \in Nat
    BY StoreAssumption DEF TypeInv
  <2>2. call[t].pc = "increment" => Chunk(t) \in Digests
    BY ChunkType
  <2>3. call[t].pc \in SavingPcs \cup CollectPcs => call[t].cur \in Digests
    BY <2>1 DEF WellFormed, SavingPcs, CollectPcs
  <2> QED BY <2>1, <2>2, <2>3 DEF UnaddedBytes, DroppedBytes
<1> QED BY <1>1, <1>2, BlobBytes

LEMMA StoredNatAfter == NatStored'
BY StoredNat, PTL

LEMMA LedgerStays ==
  ASSUME NEW s \in Nat, NEW u \in Nat, NEW b \in Nat, NEW d \in Nat, NEW U \in Nat, NEW D \in Nat,
         NEW s2 \in Nat, NEW u2 \in Nat, NEW b2 \in Nat, NEW d2 \in Nat,
         NEW U2 \in Nat, NEW D2 \in Nat,
         U2 + u = U + u2, D2 + d = D + d2, s + U = b + D, s2 + u2 + b + d = s + u + b2 + d2
  PROVE  s2 + U2 = b2 + D2
OBVIOUS

LEMMA StoredStays ==
  ASSUME TypeInv, TypeInv', StatsTyped, StatsTyped', StoredExact,
         NEW t \in Threads, OthersStay(t), Settles(t)
  PROVE  StoredExact'
<1>1. /\ \A u \in Threads : UnaddedBytes(u) \in Nat /\ UnaddedBytes(u)' \in Nat
      /\ \A u \in Threads : DroppedBytes(u) \in Nat /\ DroppedBytes(u)' \in Nat
      /\ Total(SizeOf, blobs) \in Nat /\ Total(SizeOf, blobs') \in Nat
  BY StoredNat, StoredNatAfter DEF NatStored
<1>2. \A u \in Threads \ {t} : /\ UnaddedBytes(u)' = UnaddedBytes(u)
                               /\ DroppedBytes(u)' = DroppedBytes(u)
  BY DEF OthersStay, UnaddedBytes, DroppedBytes, Chunk
<1>3. /\ \A u \in Threads : Unadded[u] = UnaddedBytes(u) /\ Unadded'[u] = UnaddedBytes(u)'
      /\ \A u \in Threads : Dropped[u] = DroppedBytes(u) /\ Dropped'[u] = DroppedBytes(u)'
  BY DEF Unadded, Dropped
<1>4. Total(Unadded', Threads) + UnaddedBytes(t) = Total(Unadded, Threads) + UnaddedBytes(t)'
  <2>1. Total(Unadded', Threads) + Unadded[t] = Total(Unadded, Threads) + Unadded'[t]
    <3>1. /\ \A u \in Threads : Unadded[u] \in Nat /\ Unadded'[u] \in Nat
          /\ \A u \in Threads \ {t} : Unadded'[u] = Unadded[u]
      BY <1>1, <1>2, <1>3
    <3> QED BY <3>1, StoreAssumption, TotalChange
  <2> QED BY <1>3, <2>1
<1>5. Total(Dropped', Threads) + DroppedBytes(t) = Total(Dropped, Threads) + DroppedBytes(t)'
  <2>1. Total(Dropped', Threads) + Dropped[t] = Total(Dropped, Threads) + Dropped'[t]
    <3>1. /\ \A u \in Threads : Dropped[u] \in Nat /\ Dropped'[u] \in Nat
          /\ \A u \in Threads \ {t} : Dropped'[u] = Dropped[u]
      BY <1>1, <1>2, <1>3
    <3> QED BY <3>1, StoreAssumption, TotalChange
  <2> QED BY <1>3, <2>1
<1>6. /\ Total(Unadded, Threads) \in Nat /\ Total(Unadded', Threads) \in Nat
      /\ Total(Dropped, Threads) \in Nat /\ Total(Dropped', Threads) \in Nat
      /\ stats.stored \in Nat /\ stats'.stored \in Nat
  BY <1>1, <1>3, StoreAssumption, TotalNat DEF StatsTyped
<1>7. /\ stats.stored + Total(Unadded, Threads) = Total(SizeOf, blobs) + Total(Dropped, Threads)
      /\ stats'.stored + UnaddedBytes(t)' + Total(SizeOf, blobs) + DroppedBytes(t)
           = stats.stored + UnaddedBytes(t) + Total(SizeOf, blobs') + DroppedBytes(t)'
  BY DEF StoredExact, Settles
<1>8. stats'.stored + Total(Unadded', Threads) = Total(SizeOf, blobs') + Total(Dropped', Threads)
  BY <1>1, <1>4, <1>5, <1>6, <1>7, LedgerStays
<1> QED BY <1>8 DEF StoredExact

\* A call that has no blob in hand that the statistics still have to follow.
AddedPcs == Pcs \ (SavingPcs \cup CollectPcs \cup {"increment"})
PlainPcs == AddedPcs \cup {"gc_blob"}

LEMMA PlainSettles ==
  ASSUME NEW t \in Threads, stats'.stored = stats.stored, blobs' = blobs,
         \/ call[t].pc \in PlainPcs
         \/ call[t].pc \in SavingPcs /\ call[t].released > 0,
         \/ call'[t].pc \in PlainPcs
         \/ call'[t].pc \in SavingPcs /\ call'[t].released > 0,
         call[t].released \in Nat, call'[t].released \in Nat
  PROVE  Settles(t)
<1>1. UnaddedBytes(t) = 0 /\ UnaddedBytes(t)' = 0
  BY DEF UnaddedBytes, PlainPcs, AddedPcs, SavingPcs, CollectPcs
<1>2. DroppedBytes(t) = 0 /\ DroppedBytes(t)' = 0
  BY DEF DroppedBytes, PlainPcs, AddedPcs, SavingPcs, CollectPcs
<1> QED BY <1>1, <1>2 DEF Settles

\* A call that goes on with the same chunk in hand.
LEMMA SameSettles ==
  ASSUME NEW t \in Threads, stats'.stored = stats.stored, blobs' = blobs, Keeps(t),
         call'[t].existed = call[t].existed,
         \/ call[t].pc \in SavingPcs /\ call'[t].pc \in SavingPcs
         \/ call[t].pc \in CollectPcs \ {"gc_blob"} /\ call'[t].pc \in CollectPcs \ {"gc_blob"}
  PROVE  Settles(t)
<1>1. UnaddedBytes(t)' = UnaddedBytes(t)
  BY DEF Keeps, UnaddedBytes, SavingPcs, CollectPcs
<1>2. DroppedBytes(t)' = DroppedBytes(t)
  BY DEF Keeps, DroppedBytes, SavingPcs, CollectPcs
<1> QED BY <1>1, <1>2 DEF Settles

\* The steps that put, count and unlink blobs.
LEMMA PutSettles ==
  ASSUME TypeInv, StatsTyped, NEW t \in Threads, PutsNew(t), StorePut(t)
  PROVE  Settles(t)
<1>1. /\ call[t].pc = "put" /\ blobs' = blobs \cup {Chunk(t)} /\ stats' = stats
      /\ Chunk(t) \in Digests /\ Chunk(t) \notin blobs /\ ~call[t].existed
      /\ blobs \subseteq Digests
  BY ChunkType DEF StorePut, memory, PutsNew, TypeInv, TypeOK
<1>2. Keeps(t) /\ call'[t].pc = "increment" /\ ~call'[t].existed
  BY <1>1, GotoKeeps, GotoExisted DEF StorePut
<1>3. Chunk(t)' = Chunk(t)
  BY <1>2 DEF Chunk, Keeps
<1>4. /\ UnaddedBytes(t) = 0 /\ UnaddedBytes(t)' = SizeOf[Chunk(t)]
      /\ DroppedBytes(t) = 0 /\ DroppedBytes(t)' = 0
  BY <1>1, <1>2, <1>3 DEF UnaddedBytes, DroppedBytes, SavingPcs, CollectPcs
<1>5. Total(SizeOf, blobs') = SizeOf[Chunk(t)] + Total(SizeOf, blobs)
  BY <1>1, StoreAssumption, BlobBytes, TotalWith
<1>6. Total(SizeOf, blobs) \in Nat /\ SizeOf[Chunk(t)] \in Nat
  BY <1>1, StoreAssumption, BlobBytes
<1>7. stats'.stored = stats.stored /\ stats.stored \in Nat
  BY <1>1 DEF StatsTyped
<1> HIDE DEF Chunk
<1>8. PICK n \in Nat, m \in Nat : n = Total(SizeOf, blobs) /\ m = SizeOf[Chunk(t)]
  BY <1>6
<1> QED BY <1>4, <1>5, <1>7, <1>8 DEF Settles

LEMMA IncrementSettles ==
  ASSUME TypeInv, NEW t \in Threads, Increment(t)
  PROVE  Settles(t)
<1> DEFINE c == call[t]
           D == Chunk(t)
           n == Incremented(D)
           r == [c EXCEPT !.pc = "save_refcount", !.done = @ + 1, !.cur = D, !.count = n]
<1>1. c \in Records /\ WellFormed(c) /\ c.pc = "increment"
  BY CallFields DEF Increment
<1>2. call'[t] = r /\ blobs' = blobs /\ stats' = stats
  BY GoesOn DEF Increment, backend
<1>3. c.released = 0
  BY <1>1 DEF WellFormed
<1> HIDE DEF n
<1>4. /\ r.pc = "save_refcount" /\ r.cur = D /\ r.released = c.released /\ r.existed = c.existed
  BY <1>1 DEF Records
<1> HIDE DEF r, D
<1>5. UnaddedBytes(t) = IF c.existed THEN 0 ELSE SizeOf[D]
  BY <1>1 DEF UnaddedBytes, D
<1>6. UnaddedBytes(t)' = IF c.existed THEN 0 ELSE SizeOf[D]
  BY <1>2, <1>3, <1>4 DEF UnaddedBytes, SavingPcs
<1>7. DroppedBytes(t) = 0 /\ DroppedBytes(t)' = 0
  BY <1>1, <1>2, <1>4 DEF DroppedBytes, CollectPcs
<1> QED BY <1>2, <1>5, <1>6, <1>7 DEF Settles

LEMMA SavedSettles ==
  ASSUME TypeInv, StatsTyped, NEW t \in Threads, call[t].pc \in {"index_get", "index_put"},
         RefcountSaved(t), blobs' = blobs
  PROVE  Settles(t)
<1> DEFINE c == call[t]
           z == SizeOf[c.cur]
<1>1. c \in Records /\ WellFormed(c) /\ c.released \in Nat /\ stats.stored \in Nat
  BY CallFields DEF StatsTyped
<1>2. z \in Nat
  BY <1>1, StoreAssumption DEF WellFormed
<1>3. DroppedBytes(t) = 0
  BY DEF DroppedBytes, CollectPcs
<1>4. CASE Releasing(t)
  <2>1. call'[t].pc \in {"size", "idle"}
    BY <1>4, GotoKeeps, ReturnIdle DEF RefcountSaved, ReleaseRest
  <2>2. UnaddedBytes(t) = 0 /\ UnaddedBytes(t)' = 0 /\ DroppedBytes(t)' = 0
    BY <1>4, <2>1 DEF UnaddedBytes, DroppedBytes, Releasing, SavingPcs, CollectPcs
  <2>3. stats'.stored = stats.stored
    BY <1>4 DEF RefcountSaved, StatsTyped
  <2> QED BY <1>3, <2>2, <2>3 DEF Settles
<1>5. CASE ~Releasing(t)
  <2>1. call'[t].pc \in {"exists", "peek"}
    BY <1>5, GotoKeeps DEF RefcountSaved
  <2>2. UnaddedBytes(t) = (IF c.existed THEN 0 ELSE z)
    BY <1>1, <1>5 DEF UnaddedBytes, Releasing, SavingPcs
  <2>3. UnaddedBytes(t)' = 0 /\ DroppedBytes(t)' = 0
    BY <2>1 DEF UnaddedBytes, DroppedBytes, SavingPcs, CollectPcs
  <2>4. stats'.stored = stats.stored + (IF c.existed THEN 0 ELSE z)
    BY <1>5 DEF RefcountSaved
  <2> HIDE DEF z
  <2>5. PICK n \in Nat : n = Total(SizeOf, blobs)
    BY StoredNat DEF NatStored
  <2>6. PICK m \in Nat : m = IF c.existed THEN 0 ELSE z
    BY <1>2
  <2> QED BY <1>1, <1>3, <2>2, <2>3, <2>4, <2>5, <2>6 DEF Settles
<1> QED BY <1>4, <1>5

LEMMA UnlinkSettles ==
  ASSUME TypeInv, StatsTyped, NEW t \in Threads, DropsStored(t), GcBlob(t)
  PROVE  Settles(t)
<1> DEFINE c == call[t]
           z == SizeOf[c.cur]
<1>1. /\ c.pc = "gc_blob" /\ blobs' = blobs \ {c.cur} /\ stats' = stats
      /\ c.cur \in blobs /\ blobs \subseteq Digests
  BY DEF GcBlob, memory, DropsStored, TypeInv, TypeOK
<1>2. Keeps(t) /\ call'[t].pc = "gc_refcount"
  BY GotoKeeps DEF GcBlob
<1>3. /\ UnaddedBytes(t) = 0 /\ UnaddedBytes(t)' = 0
      /\ DroppedBytes(t) = 0 /\ DroppedBytes(t)' = z
  BY <1>1, <1>2 DEF UnaddedBytes, DroppedBytes, Keeps, SavingPcs, CollectPcs
<1>4. Total(SizeOf, blobs) = z + Total(SizeOf, blobs')
  BY <1>1, StoreAssumption, BlobBytes, TotalWithout
<1>5. Total(SizeOf, blobs') \in Nat /\ z \in Nat
  BY <1>1, StoreAssumption, BlobBytes
<1>6. stats'.stored = stats.stored /\ stats.stored \in Nat
  BY <1>1 DEF StatsTyped
<1> HIDE DEF z
<1>7. PICK n \in Nat, m \in Nat : n = Total(SizeOf, blobs') /\ m = z
  BY <1>5
<1> QED BY <1>3, <1>4, <1>6, <1>7 DEF Settles

LEMMA CollectedSettles ==
  ASSUME TypeInv, StatsTyped, NEW t \in Threads, TakesCounted(t), GcIndexPut(t)
  PROVE  Settles(t)
<1> DEFINE c == call[t]
           z == SizeOf[c.cur]
<1>1. /\ c.pc = "gc_index_put" /\ blobs' = blobs /\ z <= stats.stored /\ stats.stored \in Nat
      /\ ReleaseRest(t) /\ stats'.stored = SaturatingSub(stats.stored, z)
      /\ WellFormed(c)
  BY CallFields DEF GcIndexPut, StatsCollected, TakesCounted, StatsTyped
<1>2. z \in Nat
  BY <1>1, StoreAssumption DEF WellFormed
<1>3. call'[t].pc \in {"size", "idle"}
  BY <1>1, GotoKeeps, ReturnIdle DEF ReleaseRest
<1>4. /\ UnaddedBytes(t) = 0 /\ UnaddedBytes(t)' = 0
      /\ DroppedBytes(t) = z /\ DroppedBytes(t)' = 0
  BY <1>1, <1>3 DEF UnaddedBytes, DroppedBytes, SavingPcs, CollectPcs
<1> HIDE DEF z
<1>5. stats'.stored = stats.stored - z
  BY <1>1, <1>2 DEF SaturatingSub
<1>6. PICK n \in Nat : n = Total(SizeOf, blobs)
  BY StoredNat DEF NatStored
<1> QED BY <1>1, <1>2, <1>4, <1>5, <1>6 DEF Settles

LEMMA StepTaken ==
  ASSUME NEW c \in Records
  PROVE  c.pc \in Pcs /\ c.released \in Nat
<1>1. c.pc \in Pcs /\ c.released \in 0 .. MaxChunks
  BY DEF Records
<1> QED BY <1>1, StoreAssumption

\* Every step of a call.
LEMMA StepSettles ==
  ASSUME TypeInv, TypeInv', StatsTyped, NEW t \in Threads, BeginCall(t) \/ Step(t),
         PutsNew(t), DropsStored(t), SweepsNothing(t), TakesCounted(t)
  PROVE  Settles(t)
<1> DEFINE c == call[t]
<1>1. /\ c \in Records /\ c.released \in Nat /\ c.pc \in Pcs /\ call'[t].pc \in Pcs
      /\ WellFormed(c) /\ WellFormed(call'[t]) /\ call'[t].released \in Nat
  <2>1. c \in Records /\ WellFormed(c) /\ c.released \in Nat
    BY CallFields
  <2>2. call'[t] \in Records /\ WellFormed(call'[t])
    BY DEF TypeInv, TypeOK
  <2>3. c.pc \in Pcs /\ call'[t].pc \in Pcs /\ call'[t].released \in Nat
    BY <2>1, <2>2, StepTaken
  <2> QED BY <2>1, <2>2, <2>3
<1>2. Handed(t)
  BY StepHands
<1>3. CASE StorePut(t) \/ Increment(t) \/ GcBlob(t) \/ GcIndexPut(t)
  BY <1>3, PutSettles, IncrementSettles, UnlinkSettles, CollectedSettles
<1>4. CASE SaveRefcount(t) \/ RefIndexGet(t) \/ RefIndexPut(t)
  <2>1. c.pc \in SavingPcs /\ blobs' = blobs
    BY <1>4 DEF SaveRefcount, RefIndexGet, RefIndexPut, SavingPcs, backend
  <2>2. CASE RefcountSaved(t) /\ ~SaveRefcount(t)
    BY <1>4, <2>1, <2>2, SavedSettles DEF RefIndexGet, RefIndexPut
  <2>3. CASE SaveRefcount(t) \/ ~RefcountSaved(t)
    <3>1. call'[t].pc \in SavingPcs
      BY <1>4, <2>3, GotoKeeps, SeenKeeps DEF SaveRefcount, RefIndexGet, RefIndexPut, SavingPcs
    <3>2. ~Increment(t) /\ ~Decrement(t)
      BY <2>1 DEF Increment, Decrement, SavingPcs
    <3> QED BY <1>2, <2>1, <3>1, <3>2, SameSettles DEF Handed
  <2> QED BY <2>2, <2>3
<1>5. CASE GcRefcount(t) \/ GcIndexGet(t)
  <2>1. c.pc \in CollectPcs \ {"gc_blob"} /\ blobs' = blobs /\ ~Increment(t) /\ ~Decrement(t)
    BY <1>5 DEF GcRefcount, GcIndexGet, Increment, Decrement, CollectPcs, backend
  <2>2. call'[t].pc \in CollectPcs \ {"gc_blob"}
    <3>1. CASE GcRefcount(t)
      BY <3>1, GotoKeeps DEF GcRefcount, CollectPcs
    <3>2. CASE GcIndexGet(t)
      <4>1. call'[t].pc = "gc_index_put"
        BY <3>2, SeenKeeps DEF GcIndexGet
      <4> QED BY <4>1 DEF CollectPcs
    <3> QED BY <1>5, <3>1, <3>2
  <2> QED BY <1>2, <2>1, <2>2, SameSettles DEF Handed
<1>6. CASE Decrement(t)
  <2>1. c.pc = "decrement" /\ blobs' = blobs /\ stats' = stats
    BY <1>6 DEF Decrement, backend
  <2>2. c.pc \in PlainPcs
    BY <2>1 DEF PlainPcs, AddedPcs, Pcs, SavingPcs, CollectPcs
  <2>3. \/ call'[t].pc \in PlainPcs
        \/ call'[t].pc \in SavingPcs /\ call'[t].released > 0
    <3>1. CASE call'[t].pc = "idle" \/ call'[t].pc = "gc_blob"
      BY <3>1 DEF PlainPcs, AddedPcs, Pcs, SavingPcs, CollectPcs
    <3>2. CASE call'[t].pc = "save_refcount" /\ call'[t].released = c.released + 1
      BY <1>1, <3>2 DEF SavingPcs
    <3> QED BY <1>6, <3>1, <3>2, DecrementLeads
  <2> QED BY <1>1, <2>1, <2>2, <2>3, PlainSettles
<1>7. CASE StoreExists(t)
  <2>1. c.pc = "exists" /\ blobs' = blobs /\ stats' = stats
    BY <1>7 DEF StoreExists, backend, memory
  <2>2. PICK p \in {"increment", "put"}, x \in BOOLEAN :
               /\ Become(t, [c EXCEPT !.pc = p, !.existed = x])
               /\ p = "increment" => x
    BY <1>7 DEF StoreExists
  <2> DEFINE r == [c EXCEPT !.pc = p, !.existed = x]
  <2>3. r.pc = p /\ r.existed = x
    BY <1>1 DEF Records
  <2>4. call'[t] = r
    BY <2>2, GoesOn
  <2> HIDE DEF r
  <2>5. /\ UnaddedBytes(t) = 0 /\ UnaddedBytes(t)' = 0
        /\ DroppedBytes(t) = 0 /\ DroppedBytes(t)' = 0
    BY <2>1, <2>2, <2>3, <2>4 DEF UnaddedBytes, DroppedBytes, SavingPcs, CollectPcs
  <2> QED BY <2>1, <2>5 DEF Settles
<1>8. CASE \/ BeginCall(t)
           \/ Peek(t) \/ Insert(t) \/ SaveManifest(t) \/ ManIndexGet(t) \/ ManIndexPut(t)
           \/ Remove(t) \/ RemoveManifest(t) \/ RmIndexGet(t) \/ RmIndexPut(t)
           \/ Size(t) \/ Lookup(t) \/ Fetch(t)
           \/ FsckLive(t) \/ FsckList(t) \/ FsckUnlink(t)
  <2>1. c.pc \in AddedPcs \ {"exists", "put", "decrement"}
    <3> USE DEF AddedPcs, Pcs, SavingPcs, CollectPcs
    <3>1. CASE BeginCall(t)
      BY <3>1 DEF BeginCall, BeginIngest, BeginDelete, BeginRead, BeginRepair, Begin, Busy
    <3>2. CASE ~BeginCall(t)
      BY <1>8, <3>2 DEF Peek, Insert, SaveManifest, ManIndexGet, ManIndexPut, Remove,
         RemoveManifest, RmIndexGet, RmIndexPut, Size, Lookup, Fetch, FsckLive, FsckList, FsckUnlink
    <3> QED BY <3>1, <3>2
  <2>2. blobs' = blobs /\ stats' = stats
    <3> USE DEF backend, memory
    <3>1. CASE BeginCall(t)
      BY <3>1 DEF BeginCall, BeginIngest, BeginDelete, BeginRead, BeginRepair, Begin
    <3>2. CASE FsckUnlink(t)
      BY <3>2 DEF FsckUnlink, SweepsNothing
    <3>3. CASE ~BeginCall(t) /\ ~FsckUnlink(t)
      BY <1>8, <3>3 DEF Peek, Insert, SaveManifest, ManIndexGet, ManIndexPut, Remove,
         RemoveManifest, RmIndexGet, RmIndexPut, Size, Lookup, Fetch, FsckLive, FsckList
    <3> QED BY <3>1, <3>2, <3>3
  <2>3. ~StoreExists(t) /\ ~StorePut(t) /\ ~Increment(t) /\ ~Decrement(t)
    BY <2>1 DEF StoreExists, StorePut, Increment, Decrement, AddedPcs
  <2>4. call'[t].pc \in PlainPcs
    BY <1>1, <1>2, <2>1, <2>3 DEF Handed, PlainPcs, AddedPcs
  <2>5. c.pc \in PlainPcs
    BY <2>1 DEF PlainPcs
  <2> QED BY <1>1, <2>2, <2>4, <2>5, PlainSettles
<1> QED BY <1>3, <1>4, <1>5, <1>6, <1>7, <1>8 DEF Step

LEMMA TotalZero ==
  ASSUME NEW F, NEW S, IsFiniteSet(S), \A x \in S : F[x] = 0
  PROVE  Total(F, S) = 0
<1> DEFINE h == [s \in SUBSET S |-> 0]
<1>1. ASSUME NEW s \in SUBSET S PROVE Body(F, h, s) = 0
  <2>1. CASE s = {}
    BY <2>1 DEF Body
  <2>2. CASE s # {}
    <3>1. Pick(s) \in s
      BY <2>2 DEF Pick
    <3>2. F[Pick(s)] = 0 /\ h[s \ {Pick(s)}] = 0
      BY <3>1
    <3> QED BY <2>2, <3>2 DEF Body
  <2> QED BY <2>1, <2>2
<1>2. Sums(F, S, h) /\ h[S] = 0
  BY <1>1 DEF Sums
<1> HIDE DEF h
<1>3. IsSum(0, F, S)
  BY <1>2 DEF IsSum
<1> QED BY <1>3, SumIsTotal

LEMMA TotalOne ==
  ASSUME OneCaller, NEW t \in Threads, NEW F, F[t] \in Nat
  PROVE  Total(F, Threads) = F[t]
<1>1. Threads \ {t} = {} /\ \A u \in Threads : F[u] \in Nat
  <2>1. \A u \in Threads : u = t
    BY DEF OneCaller
  <2> QED BY <2>1
<1>2. Total(F, Threads) = F[t] + Total(F, Threads \ {t})
  <2>1. IsFiniteSet(Threads) /\ t \in Threads /\ \A u \in Threads : F[u] \in Nat
    BY <1>1, StoreAssumption
  <2> QED BY <2>1, TotalWithout
<1> QED BY <1>1, <1>2, TotalNone

\* Between calls nothing is in hand, so the sums are those of stats().
LEMMA StatsSettled ==
  ASSUME TypeInv, TotalExact, StoredExact, StatsTyped, FilesReadable, Quiet, blobs \subseteq Referenced
  PROVE  /\ stats.total = MapThenSumSet(LAMBDA f : FileBytes(manifest[f]), Files)
         /\ stats.stored = MapThenSumSet(LAMBDA d : SizeOf[d], Referenced)
<1>1. \A t \in Threads : call[t].pc = "idle"
  BY DEF Quiet, Busy
<1>2. \A t \in Threads : CarriedBytes(t) = 0
  BY <1>1, FreeCarry DEF FreeBytes, FreePcs
<1>3. \A t \in Threads : UnaddedBytes(t) = 0 /\ DroppedBytes(t) = 0
  BY <1>1 DEF UnaddedBytes, DroppedBytes, SavingPcs, CollectPcs
<1>4. /\ Total(Carried, Threads) = 0 /\ Total(Unadded, Threads) = 0
      /\ Total(Dropped, Threads) = 0
  BY <1>2, <1>3, StoreAssumption, TotalZero DEF Carried, Unadded, Dropped
<1>5. Referenced = blobs /\ blobs \subseteq Digests
  BY DEF FilesReadable, TypeInv, TypeOK
<1>6. /\ Total(FileTotals, Files) \in Nat /\ Total(SizeOf, blobs) \in Nat
      /\ stats.stored \in Nat
  <2>1. \A f \in Files : FileTotals[f] \in Nat
    BY BytesNat DEF NatBytes, FileTotals
  <2> QED BY <1>5, <2>1, StoreAssumption, TotalNat, BlobBytes DEF StatsTyped
<1>7. stats.total = Total(FileTotals, Files)
  BY <1>4, <1>6 DEF TotalExact
<1>8. stats.stored = Total(SizeOf, Referenced)
  BY <1>4, <1>5, <1>6 DEF StoredExact
<1>9. MapThenSumSet(LAMBDA d : SizeOf[d], Referenced) = Total(SizeOf, Referenced)
  BY <1>5, ChunkBytes
<1> QED BY <1>7, <1>8, <1>9, AllFileBytes

\* A chunk is put after exists() has not found it, under the blob mutex.
LEMMA PutsStep ==
  ASSUME TypeInv, NEW t \in Threads, BeginCall(t) \/ Step(t)
  PROVE  PutsNew(t)'
<1> SUFFICES ASSUME call'[t].pc = "put"
             PROVE  blobLock' = t /\ Chunk(t)' \notin blobs' /\ ~call'[t].existed
  BY DEF PutsNew
<1> DEFINE c == call[t]
           D == Chunk(t)
<1>1. StoreExists(t) /\ c \in Records
  BY StepHands, CallFields DEF Handed
<1>2. blobs' = blobs
  BY <1>1 DEF StoreExists, backend
<1>3. CASE D \in blobs
  <2> DEFINE r == [c EXCEPT !.pc = "increment", !.existed = TRUE]
  <2>1. call'[t] = r
    BY <1>1, <1>3, GoesOn DEF StoreExists
  <2>2. r.pc = "increment"
    BY <1>1 DEF Records
  <2> QED BY <2>1, <2>2
<1>4. CASE D \notin blobs
  <2> DEFINE r == [c EXCEPT !.pc = "put", !.existed = FALSE]
  <2>1. call'[t] = r /\ blobLock' = t
    BY <1>1, <1>4, GoesOn DEF StoreExists
  <2>2. ~r.existed /\ r.new = c.new /\ r.done = c.done
    BY <1>1 DEF Records
  <2> HIDE DEF r
  <2>3. Chunk(t)' = D
    BY <2>1, <2>2 DEF Chunk
  <2> QED BY <1>2, <1>4, <2>1, <2>2, <2>3
<1> QED BY <1>3, <1>4

\* A chunk is collected that the call had still to release, so its blob is there.
LEMMA DropsStep ==
  ASSUME DurableInv, up, NEW t \in Threads, BeginCall(t) \/ Step(t)
  PROVE  DropsStored(t)'
<1> SUFFICES ASSUME call'[t].pc = "gc_blob" PROVE call'[t].cur \in blobs'
  BY DEF DropsStored
<1>1. TypeInv /\ RefcountCovers
  BY OpenCovers DEF CoverInv, WritersInv
<1>2. Decrement(t)
  BY <1>1, StepHands DEF Handed
<1>3. call'[t].cur = OldChunk(t)
  BY <1>1, <1>2, DecrementLeads
<1>4. OldChunk(t) \in Digests /\ Claims(OldChunk(t)) # {}
  BY <1>1, <1>2, OwedCounted DEF Decrement, Claims
<1>5. OldChunk(t) \in blobs
  BY <1>4 DEF DurableInv, ClaimsStored
<1> QED BY <1>2, <1>3, <1>5 DEF Decrement, backend

-------------------------------------------------------------------------------

StatsSound == /\ StatsTyped /\ TotalExact /\ StoredExact
              /\ \A t \in Threads : OwnChunk(t) /\ PutsNew(t) /\ DropsStored(t)
StatsInv == CollectInv /\ (faults = 0 /\ crashes = 0 => StatsSound)

LEMMA StatsSoundStep ==
  ASSUME OneCaller, CollectInv, TypeInv', up, faults = 0, crashes = 0, faults' = 0,
         StatsSound, NEW t \in Threads, BeginCall(t) \/ Step(t)
  PROVE  StatsSound'
<1>1. /\ DurableInv /\ TypeInv /\ NothingWasted /\ Local(t) /\ PeekedIsCurrent
      /\ RefcountCovers
  BY OpenCovers DEF CollectInv, DurableInv, WritersInv, CoverInv
<1>2. FindsCount(t)
  BY <1>1, OwedCounted DEF FindsCount
<1>3. OthersStay(t)
  BY DEF OthersStay, OneCaller
<1>4. StatsTyped' /\ OwnChunk(t)' /\ PutsNew(t)' /\ DropsStored(t)'
  BY <1>1, StatsStayTyped, OwnStep, PutsStep, DropsStep DEF StatsSound
<1>5. TotalExact'
  <2>1. Carries(t)
    BY <1>1, <1>2, StepCarries DEF StatsSound
  <2> QED BY <1>1, <1>3, <2>1, TotalStays DEF StatsSound
<1>6. SweepsNothing(t)
  <2> SUFFICES ASSUME call[t].pc = "fsck_unlink", NEW d \in blobs PROVE d \notin call[t].seen
    BY DEF SweepsNothing
  <2>1. rc[d] > 0
    BY <1>1 DEF NothingWasted, InHand, OneCaller
  <2>2. rc[d] # 0
    BY <2>1
  <2> QED BY <1>1, <2>2 DEF Local, SweepsUncounted
<1>7. TakesCounted(t)
  <2> SUFFICES ASSUME call[t].pc = "gc_index_put" PROVE SizeOf[call[t].cur] <= stats.stored
    BY DEF TakesCounted
  <2>1. Unadded[t] = 0 /\ Dropped[t] = SizeOf[call[t].cur]
    BY DEF Unadded, Dropped, UnaddedBytes, DroppedBytes, SavingPcs, CollectPcs
  <2>2. /\ Unadded[t] \in Nat /\ Dropped[t] \in Nat /\ Total(SizeOf, blobs) \in Nat
    BY <1>1, StoredNat DEF NatStored, Unadded, Dropped
  <2>3. Total(Unadded, Threads) = 0 /\ Total(Dropped, Threads) = SizeOf[call[t].cur]
    BY <2>1, <2>2, TotalOne
  <2>4. stats.stored + 0 = Total(SizeOf, blobs) + SizeOf[call[t].cur] /\ stats.stored \in Nat
    BY <2>3 DEF StatsSound, StoredExact, StatsTyped
  <2> QED BY <2>1, <2>2, <2>4
<1>8. StoredExact'
  <2>1. Settles(t)
    BY <1>1, <1>6, <1>7, StepSettles DEF StatsSound
  <2> QED BY <1>1, <1>3, <1>4, <2>1, StoredStays DEF StatsSound
<1>9. \A u \in Threads : u = t
  BY DEF OneCaller
<1> QED BY <1>4, <1>5, <1>8, <1>9 DEF StatsSound

LEMMA StatsStep ==
  ASSUME OneCaller, StatsInv, [Next]_vars
  PROVE  StatsInv'
<1>1. /\ CollectInv' /\ TypeInv /\ TypeInv'
      /\ faults \in Nat /\ crashes \in Nat
  BY CollectStep, TypeInvStep
     DEF StatsInv, CollectInv, DurableInv, WritersInv, TypeInv, TypeOK
<1> SUFFICES ASSUME faults' = 0, crashes' = 0 PROVE StatsSound'
  BY <1>1 DEF StatsInv
<1>2. CASE \E t \in Threads : BeginCall(t) \/ Step(t) \/ Fail(t)
  <2>1. PICK t \in Threads : BeginCall(t) \/ Step(t) \/ Fail(t)
    BY <1>2
  <2>2. faults = 0 /\ crashes = 0 /\ ~Fail(t)
    BY <1>1, <2>1, BoundsCount
  <2>3. up
    BY <2>2 DEF StatsInv, CollectInv
  <2> QED BY <1>1, <2>1, <2>2, <2>3, StatsSoundStep DEF StatsInv
<1>3. CASE Crash
  BY <1>1, <1>3 DEF Crash
<1>4. CASE Open
  BY <1>4 DEF Open, bounds, StatsInv, CollectInv
<1>5. CASE UNCHANGED vars
  <2>1. UNCHANGED <<blobs, blobLock, manifest, stats, call, faults, crashes>>
    BY <1>5 DEF vars, backend, memory, locks, bounds
  <2>2. /\ FileTotals' = FileTotals /\ Carried' = Carried
        /\ Unadded' = Unadded /\ Dropped' = Dropped
    BY <2>1 DEF FileTotals, Carried, CarriedBytes, Uncommitted, Unadded, UnaddedBytes,
       Dropped, DroppedBytes, Chunk
  <2>3. \A t \in Threads : /\ OwnChunk(t)' <=> OwnChunk(t)
                           /\ PutsNew(t)' <=> PutsNew(t)
                           /\ DropsStored(t)' <=> DropsStored(t)
    BY <2>1 DEF OwnChunk, PutsNew, DropsStored, Chunk
  <2>4. /\ StatsTyped' <=> StatsTyped
        /\ TotalExact' <=> TotalExact
        /\ StoredExact' <=> StoredExact
    BY <2>1, <2>2 DEF StatsTyped, TotalExact, StoredExact
  <2> QED BY <2>1, <2>3, <2>4 DEF StatsInv, StatsSound
<1> QED BY <1>2, <1>3, <1>4, <1>5 DEF Next, Rest

LEMMA StatsInit == Init => StatsInv
<1> SUFFICES ASSUME Init PROVE StatsInv
  OBVIOUS
<1>1. TypeInv /\ CollectInv
  BY CollectInit DEF CollectInv, DurableInv, WritersInv
<1>2. \A t \in Threads : call[t] = Idle
  BY DEF Init
<1>3. \A t \in Threads : /\ CarriedBytes(t) = 0 /\ UnaddedBytes(t) = 0 /\ DroppedBytes(t) = 0
                         /\ OwnChunk(t) /\ PutsNew(t) /\ DropsStored(t)
  <2>1. ASSUME NEW t \in Threads PROVE call[t].pc = "idle"
    BY <1>2 DEF Idle
  <2>2. \A t \in Threads : CarriedBytes(t) = 0
    BY <1>1, <2>1, FreeCarry DEF FreeBytes, FreePcs
  <2> QED BY <2>1, <2>2 DEF UnaddedBytes, DroppedBytes, OwnChunk, PutsNew, DropsStored,
             SavingPcs, CollectPcs
<1>4. \A f \in Files : FileTotals[f] = 0
  BY DEF Init, FileTotals, FileBytes
<1>5. /\ Total(Carried, Threads) = 0 /\ Total(Unadded, Threads) = 0 /\ Total(Dropped, Threads) = 0
      /\ Total(FileTotals, Files) = 0 /\ Total(SizeOf, blobs) = 0
  <2>1. /\ Total(Carried, Threads) = 0 /\ Total(Unadded, Threads) = 0
        /\ Total(Dropped, Threads) = 0 /\ Total(FileTotals, Files) = 0
    BY <1>3, <1>4, StoreAssumption, TotalZero DEF Carried, Unadded, Dropped
  <2>2. blobs = {}
    BY DEF Init
  <2> QED BY <2>1, <2>2, TotalNone
<1>6. stats = [total |-> 0, stored |-> 0]
  BY DEF Init
<1> QED BY <1>1, <1>3, <1>5, <1>6 DEF StatsInv, StatsSound, StatsTyped, TotalExact, StoredExact

\* stats() is right between calls: total_bytes is the length of all files and
\* stored_bytes that of their distinct chunks, whatever ingests, replacements,
\* deletes, garbage collections and repairs have come before. Each adds and takes
\* off chunk by chunk, and the saturating subtractions never cut anything off.
THEOREM OneCallerStats ==
  ASSUME OneCaller
  PROVE  Spec => []StatsExact
<1>1. StatsInv => StatsExact
  <2> SUFFICES ASSUME StatsInv, Undisturbed
               PROVE  /\ stats.total = MapThenSumSet(LAMBDA f : FileBytes(manifest[f]), Files)
                      /\ stats.stored = MapThenSumSet(LAMBDA d : SizeOf[d], Referenced)
    BY DEF StatsExact
  <2>1. /\ StatsSound /\ CollectInv /\ DurableInv /\ TypeInv /\ Quiet
    BY DEF StatsInv, Undisturbed, CollectInv, DurableInv, WritersInv
  <2>2. FilesReadable /\ blobs \subseteq Referenced
    BY <2>1, DurableReadable, CollectedAll DEF NoGarbage
  <2> QED BY <2>1, <2>2, StatsSettled DEF StatsSound
<1>2. StatsInv /\ [Next]_vars => StatsInv'
  BY StatsStep
<1> QED BY <1>1, <1>2, StatsInit, PTL DEF Spec
===============================================================================
