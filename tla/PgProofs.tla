------------------------------- MODULE PgProofs -------------------------------
(* Theorems about a cluster on Postgres metadata for every number of processes  *)
(* and threads, every set of files, digests and contents and every bound.       *)
EXTENDS PgProperties, FiniteSetTheorems, TLAPS

IngestPcs == {"exists", "put", "peek", "commit_ingest"}
RepairPcs == {"fsck_live", "fsck_list", "fsck_unlink"}

-------------------------------------------------------------------------------
(* What is known of a call from the step it is at                               *)

PgWellFormed(c) ==
  /\ c.pc \in IngestPcs => /\ c.op = "ingest" /\ c.file \in Files
                           /\ c.new \in Contents /\ c.done <= Len(c.new)
  /\ c.pc \in {"exists", "put", "fetch"} => c.done < Len(c.new)
  /\ c.pc \in {"peek", "commit_ingest"} => c.done = Len(c.new)
  /\ c.pc \in {"digests", "commit_delete"} => c.op = "delete" /\ c.file \in Files
  /\ c.pc \in {"lookup", "fetch"} => c.op = "read" /\ c.file \in Files
  /\ c.pc = "lookup" => c.done = 0
  /\ c.pc = "fetch" => c.new \in Contents
  /\ c.pc \in RepairPcs => c.op = "repair"

PgInv == PgTypeOK /\ \A t \in Threads : PgWellFormed(call[t])

-------------------------------------------------------------------------------
(* What the counts rest on: until two calls have been writing one file at once,  *)
(* what a transaction releases, peeked before it began, is what the manifest     *)
(* holds.                                                                        *)

PgWriting(t) == Busy(t) /\ call[t].op \in {"ingest", "delete"}

PgExclusive == \A t, u \in Threads :
  t # u /\ PgWriting(t) /\ PgWriting(u) => call[t].file # call[u].file

PgPeekedIsCurrent == \A t \in Threads :
  call[t].pc \in {"commit_ingest", "commit_delete"} => call[t].old = ContentOf(call[t].file)

ExactSoFar == PgInv /\ PgExclusive /\ PgPeekedIsCurrent /\ CountsAgree

ExactInv == PgInv /\ (~clashed => ExactSoFar)

-------------------------------------------------------------------------------
(* What the blobs rest on: no chunk becomes counted and no blob is stored while  *)
(* fsck repairs, so that what it has listed is still what it may remove; and     *)
(* what an ingest has stored is still there when it commits.                     *)

Apart == ~(Running("ingest") /\ Running("repair"))

RepairKnows == \A t \in Threads :
  /\ call[t].pc = "fsck_list" => call[t].seen = Counted
  /\ call[t].pc = "fsck_unlink" => blobs \ call[t].seen \subseteq Counted
                                   /\ call[t].seen \cap Counted = {}

\* A call has no result before it ends.
Unanswered == \A t \in Threads : Busy(t) => call[t].result = "none"

RepairInv == PgInv /\ Apart /\ RepairKnows /\ Unanswered

StoredSoFar == \A t \in Threads : call[t].pc \in IngestPcs =>
  \A i \in 1 .. call[t].done : call[t].new[i] \in blobs

\* No transaction takes a chunk out of the table of counts, however wrong the
\* counts are, so what a file refers to stays in it.
ReferencedIsCounted == \A f \in Files : manifests[f] # None =>
  \A i \in DOMAIN manifests[f] : manifests[f][i] \in Counted

ReadableInv == RepairInv /\ StoredSoFar /\ ReferencedIsCounted /\ PgFilesReadable
-------------------------------------------------------------------------------
(* Types                                                                         *)

PgCallsOK == /\ call \in [Threads -> PgRecords]
             /\ \A t \in Threads : PgWellFormed(call[t])

\* The variables other than call.
TablesOK ==
  /\ blobs \subseteq Digests
  /\ manifests \in [Files -> Contents \cup {None}]
  /\ counts \in [Digests -> Nat]
  /\ blobLock \in [Nodes -> Threads \cup {None}]
  /\ up \in [Nodes -> BOOLEAN]
  /\ clashed \in BOOLEAN /\ calls \in Nat /\ faults \in Nat /\ crashes \in Nat

LEMMA PgInvParts == PgInv <=> PgCallsOK /\ TablesOK
BY DEF PgInv, PgTypeOK, PgCallsOK, TablesOK, PgWellFormed

LEMMA PgIdle == Idle \in PgRecords /\ Idle.pc = "idle" /\ PgWellFormed(Idle)
BY PgAssumption DEF Idle, PgRecords, PgWellFormed, Pcs, IngestPcs, RepairPcs

LEMMA PgOneCall ==
  ASSUME PgInv, NEW t \in Threads, NEW r \in PgRecords, PgWellFormed(r), Become(t, r)
  PROVE  PgCallsOK'
BY PgInvParts DEF PgCallsOK, Become

LEMMA PgEnded ==
  ASSUME PgInv, NEW t \in Threads, NEW res \in {"ok", "err"}, Return(t, res)
  PROVE  \E r \in PgRecords : /\ PgWellFormed(r) /\ r.pc = "idle" /\ r.result = res
                              /\ r.op = call[t].op /\ Become(t, r)
<1> DEFINE r == [Idle EXCEPT !.op = call[t].op, !.file = call[t].file, !.result = res]
<1>1. call[t] \in PgRecords
  BY PgInvParts DEF PgCallsOK
<1>2. r \in PgRecords /\ r.pc = "idle" /\ r.result = res /\ r.op = call[t].op
  BY <1>1, PgIdle DEF PgRecords, Idle
<1>3. PgWellFormed(r)
  BY <1>2 DEF PgWellFormed, IngestPcs, RepairPcs
<1> QED BY <1>2, <1>3 DEF Return

LEMMA PgReturns ==
  ASSUME PgInv, NEW t \in Threads, NEW res \in {"ok", "err"}, Return(t, res)
  PROVE  PgCallsOK'
BY PgEnded, PgOneCall

\* The chunks a call has are digests.
LEMMA PgChunks ==
  ASSUME PgInv, NEW t \in Threads
  PROVE  /\ call[t] \in PgRecords /\ PgWellFormed(call[t])
         /\ call[t].pc \in {"exists", "put", "fetch"} =>
              /\ call[t].done + 1 \in 1 .. Len(call[t].new)
              /\ Chunk(t) \in Digests
<1>1. call[t] \in PgRecords /\ PgWellFormed(call[t])
  BY PgInvParts DEF PgCallsOK
<1>2. ASSUME call[t].pc \in {"exists", "put", "fetch"}
      PROVE  call[t].done + 1 \in 1 .. Len(call[t].new) /\ Chunk(t) \in Digests
  <2>1. call[t].new \in Contents /\ call[t].done < Len(call[t].new) /\ call[t].done \in Nat
    BY <1>1, <1>2 DEF PgWellFormed, PgRecords, IngestPcs
  <2>2. call[t].new \in Seq(Digests)
    BY <2>1, PgAssumption
  <2>3. call[t].done + 1 \in 1 .. Len(call[t].new)
    BY <2>1, <2>2
  <2> QED BY <2>2, <2>3 DEF Chunk
<1> QED BY <1>1, <1>2

LEMMA StoredType ==
  ASSUME PgInv, NEW t \in Threads, call[t].pc \in {"exists", "put"}, ChunkStored(t)
  PROVE  \E r \in PgRecords :
           /\ Become(t, r) /\ PgWellFormed(r) /\ r.pc \in {"exists", "peek"}
           /\ r.op = call[t].op /\ r.file = call[t].file /\ r.new = call[t].new
           /\ r.done = call[t].done + 1
<1> DEFINE c == call[t]
           label == IF c.done + 1 < Len(c.new) THEN "exists" ELSE "peek"
           r == [c EXCEPT !.done = @ + 1, !.pc = label]
<1>1. /\ c \in PgRecords /\ PgWellFormed(c) /\ c.done + 1 \in 1 .. Len(c.new)
      /\ c.op = "ingest" /\ c.file \in Files /\ c.new \in Contents
  BY PgChunks DEF PgWellFormed, IngestPcs
<1>2. Len(c.new) \in Nat /\ Len(c.new) <= MaxChunks /\ MaxChunks \in Nat
  BY <1>1, PgAssumption
<1>3. label \in {"exists", "peek"} /\ (label = "exists" => c.done + 1 < Len(c.new))
      /\ (label = "peek" => c.done + 1 = Len(c.new))
  BY <1>1, <1>2
<1>4. Become(t, r)
  BY DEF ChunkStored
<1> HIDE DEF label
<1>5. c.done + 1 \in 0 .. MaxChunks
  BY <1>1, <1>2
<1>6. /\ r \in PgRecords /\ r.pc = label /\ r.op = c.op /\ r.file = c.file /\ r.new = c.new
      /\ r.done = c.done + 1
  BY <1>1, <1>3, <1>5 DEF PgRecords, Pcs
<1>7. PgWellFormed(r)
  BY <1>1, <1>2, <1>3, <1>6 DEF PgWellFormed, IngestPcs, RepairPcs
<1> HIDE DEF r
<1> QED BY <1>3, <1>4, <1>6, <1>7

LEMMA ContentType ==
  ASSUME PgInv, NEW f \in Files
  PROVE  ContentOf(f) \in Contents \cup {<<>>}
BY PgInvParts DEF TablesOK, ContentOf

LEMMA OccurrencesType ==
  ASSUME NEW c \in Contents \cup {<<>>}, NEW d
  PROVE  /\ Occurrences(c, d) \in Nat
         /\ IsFiniteSet({i \in DOMAIN c : c[i] = d})
         /\ Len(c) \in Nat /\ DOMAIN c = 1 .. Len(c) /\ Len(c) <= MaxChunks
<1>1. Len(c) \in Nat /\ DOMAIN c = 1 .. Len(c) /\ Len(c) <= MaxChunks
  BY PgAssumption
<1>2. IsFiniteSet(1 .. Len(c))
  BY <1>1, FS_Interval
<1>3. IsFiniteSet({i \in DOMAIN c : c[i] = d})
  BY <1>1, <1>2, FS_Subset, {i \in DOMAIN c : c[i] = d} \subseteq 1 .. Len(c)
<1> QED BY <1>1, <1>3, FS_CardinalityType DEF Occurrences

\* What a transaction leaves in the table.
LEMMA DebitType ==
  ASSUME NEW n \in [Digests -> Nat], NEW c \in Contents \cup {<<>>}, Debitable(n, c)
  PROVE  Debited(n, c) \in [Digests -> Nat]
<1>1. ASSUME NEW d \in Digests PROVE n[d] - Occurrences(c, d) \in Nat
  <2>1. Occurrences(c, d) \in Nat /\ n[d] \in Nat
    BY OccurrencesType
  <2>2. Occurrences(c, d) = 0 \/ Occurrences(c, d) < n[d]
    BY <2>1 DEF Debitable
  <2> QED BY <2>1, <2>2
<1> QED BY <1>1 DEF Debited

LEMMA CreditType ==
  ASSUME NEW n \in [Digests -> Nat], NEW c \in Contents \cup {<<>>}
  PROVE  Credited(n, c) \in [Digests -> Nat]
<1>1. \A d \in Digests : Occurrences(c, d) \in Nat /\ n[d] \in Nat
  BY OccurrencesType
<1>2. \A d \in Digests : n[d] + Occurrences(c, d) \in Nat
  BY <1>1
<1> QED BY <1>2 DEF Credited

LEMMA TransactionType ==
  ASSUME PgInv, NEW t \in Threads
  PROVE  /\ call[t].pc = "commit_ingest" /\ IngestTransaction(t) =>
              /\ counts' \in [Digests -> Nat] /\ manifests' \in [Files -> Contents \cup {None}]
         /\ call[t].pc = "commit_delete" /\ DeleteTransaction(t) =>
              /\ counts' \in [Digests -> Nat] /\ manifests' \in [Files -> Contents \cup {None}]
<1> DEFINE c == call[t]
<1>1. c \in PgRecords /\ PgWellFormed(c) /\ TablesOK
  BY PgChunks, PgInvParts
<1>2. c.old \in Contents \cup {<<>>} /\ c.new \in Contents \cup {<<>>}
  BY <1>1 DEF PgRecords
<1>3. ASSUME c.pc = "commit_ingest", IngestTransaction(t)
      PROVE  counts' \in [Digests -> Nat] /\ manifests' \in [Files -> Contents \cup {None}]
  <2>1. Credited(counts, c.new) \in [Digests -> Nat]
    BY <1>1, <1>2, CreditType DEF TablesOK
  <2>2. Debited(Credited(counts, c.new), c.old) \in [Digests -> Nat]
    BY <1>2, <1>3, <2>1, DebitType DEF IngestTransaction
  <2>3. c.new \in Contents
    BY <1>1, <1>3 DEF PgWellFormed, IngestPcs
  <2> QED BY <1>1, <1>3, <2>2, <2>3 DEF IngestTransaction, TablesOK
<1>4. ASSUME c.pc = "commit_delete", DeleteTransaction(t)
      PROVE  counts' \in [Digests -> Nat] /\ manifests' \in [Files -> Contents \cup {None}]
  <2>1. Debited(counts, c.old) \in [Digests -> Nat]
    BY <1>1, <1>2, <1>4, DebitType DEF DeleteTransaction, TablesOK
  <2> QED BY <1>1, <1>4, <2>1 DEF DeleteTransaction, TablesOK
<1> QED BY <1>3, <1>4

LEMMA IngestType ==
  ASSUME PgInv, NEW t \in Threads,
         PgStoreExists(t) \/ PgStorePut(t) \/ PgPeek(t) \/ CommitIngest(t)
  PROVE  PgCallsOK' /\ TablesOK'
<1> DEFINE c == call[t]
<1>1. c \in PgRecords /\ PgWellFormed(c) /\ TablesOK /\ NodeOf[t] \in Nodes
  BY PgChunks, PgInvParts, PgAssumption
<1> USE DEF shared, past
<1>2. CASE PgStoreExists(t)
  <2>1. CASE Chunk(t) \in blobs
    <3>1. PgCallsOK'
      BY <1>2, <2>1, StoredType, PgOneCall DEF PgStoreExists
    <3> QED BY <1>1, <1>2, <2>1, <3>1 DEF PgStoreExists, TablesOK
  <2>2. CASE Chunk(t) \notin blobs
    <3> DEFINE r == [c EXCEPT !.pc = "put"]
    <3>1. /\ r \in PgRecords /\ r.pc = "put" /\ r.op = c.op /\ r.file = c.file
          /\ r.new = c.new /\ r.done = c.done /\ c.pc = "exists"
      BY <1>1, <1>2 DEF PgRecords, Pcs, PgStoreExists
    <3>2. PgWellFormed(r)
      BY <1>1, <3>1 DEF PgWellFormed, IngestPcs, RepairPcs
    <3>3. Become(t, r)
      BY <1>2, <2>2 DEF PgStoreExists, Goto
    <3> HIDE DEF r
    <3>4. PgCallsOK'
      BY <3>1, <3>2, <3>3, PgOneCall
    <3> QED BY <1>1, <1>2, <2>2, <3>4 DEF PgStoreExists, TablesOK
  <2> QED BY <2>1, <2>2
<1>3. CASE PgStorePut(t)
  <2>1. PgCallsOK' /\ Chunk(t) \in Digests
    BY <1>3, StoredType, PgOneCall, PgChunks DEF PgStorePut
  <2> QED BY <1>1, <1>3, <2>1 DEF PgStorePut, TablesOK
<1>4. CASE PgPeek(t)
  <2> DEFINE o == ContentOf(c.file)
             r == [c EXCEPT !.pc = "commit_ingest", !.old = o]
  <2>1. c.pc = "peek" /\ c.file \in Files /\ Become(t, r)
    BY <1>1, <1>4 DEF PgPeek, PgWellFormed, IngestPcs
  <2>2. o \in Contents \cup {<<>>}
    BY <2>1, ContentType
  <2> HIDE DEF o
  <2>3. /\ r \in PgRecords /\ r.pc = "commit_ingest" /\ r.op = c.op /\ r.file = c.file
        /\ r.new = c.new /\ r.done = c.done
    BY <1>1, <2>2 DEF PgRecords, Pcs
  <2>4. PgWellFormed(r)
    BY <1>1, <2>1, <2>3 DEF PgWellFormed, IngestPcs, RepairPcs
  <2> HIDE DEF r
  <2>5. PgCallsOK'
    BY <2>1, <2>3, <2>4, PgOneCall
  <2> QED BY <1>1, <1>4, <2>5 DEF PgPeek, TablesOK
<1>5. CASE CommitIngest(t)
  <2>1. PgCallsOK'
    <3>1. \E res \in {"ok", "err"} : Return(t, res)
      BY <1>5 DEF CommitIngest
    <3> QED BY <3>1, PgReturns
  <2>2. counts' \in [Digests -> Nat] /\ manifests' \in [Files -> Contents \cup {None}]
    BY <1>1, <1>5, TransactionType DEF CommitIngest, TablesOK
  <2> QED BY <1>1, <1>5, <2>1, <2>2 DEF CommitIngest, TablesOK
<1> QED BY <1>2, <1>3, <1>4, <1>5

LEMMA DeleteType ==
  ASSUME PgInv, NEW t \in Threads, PgDigests(t) \/ CommitDelete(t)
  PROVE  PgCallsOK' /\ TablesOK'
<1> DEFINE c == call[t]
<1>1. c \in PgRecords /\ PgWellFormed(c) /\ TablesOK
  BY PgChunks, PgInvParts
<1> USE DEF shared, past
<1>2. CASE PgDigests(t)
  <2>1. c.pc = "digests" /\ c.file \in Files
    BY <1>1, <1>2 DEF PgDigests, PgWellFormed
  <2>2. CASE manifests[c.file] = None
    BY <1>1, <1>2, <2>2, PgReturns DEF PgDigests, TablesOK
  <2>3. CASE manifests[c.file] # None
    <3> DEFINE r == [c EXCEPT !.pc = "commit_delete", !.old = manifests[c.file]]
    <3>1. /\ r \in PgRecords /\ r.pc = "commit_delete" /\ r.op = c.op /\ r.file = c.file
      BY <1>1, <2>1, <2>3 DEF PgRecords, Pcs, TablesOK
    <3>2. PgWellFormed(r) /\ Become(t, r)
      BY <1>1, <1>2, <2>1, <2>3, <3>1 DEF PgWellFormed, IngestPcs, RepairPcs, PgDigests
    <3> HIDE DEF r
    <3>3. PgCallsOK'
      BY <3>1, <3>2, PgOneCall
    <3> QED BY <1>1, <1>2, <3>3 DEF PgDigests, TablesOK
  <2> QED BY <2>2, <2>3
<1>3. CASE CommitDelete(t)
  <2>1. PgCallsOK'
    BY <1>3, PgReturns DEF CommitDelete
  <2>2. counts' \in [Digests -> Nat] /\ manifests' \in [Files -> Contents \cup {None}]
    BY <1>1, <1>3, TransactionType DEF CommitDelete, TablesOK
  <2> QED BY <1>1, <1>3, <2>1, <2>2 DEF CommitDelete, TablesOK
<1> QED BY <1>2, <1>3

LEMMA ReadType ==
  ASSUME PgInv, NEW t \in Threads, PgLookup(t) \/ PgFetch(t)
  PROVE  PgCallsOK' /\ TablesOK'
<1> DEFINE c == call[t]
<1>1. c \in PgRecords /\ PgWellFormed(c) /\ TablesOK
  BY PgChunks, PgInvParts
<1> USE DEF shared, past
<1>2. TablesOK'
  BY <1>1 DEF PgLookup, PgFetch, TablesOK
<1>3. CASE PgLookup(t)
  <2> DEFINE m == manifests[c.file]
             r == [c EXCEPT !.pc = "fetch", !.new = m]
  <2>1. c.pc = "lookup" /\ c.file \in Files /\ m \in Contents \cup {None} /\ c.done = 0
        /\ c.op = "read"
    BY <1>1, <1>3 DEF PgLookup, PgWellFormed, TablesOK
  <2>2. CASE m = None \/ m = <<>>
    BY <1>2, <1>3, <2>2, PgReturns DEF PgLookup
  <2>3. CASE ~(m = None \/ m = <<>>)
    <3>1. m \in Contents /\ Len(m) > 0 /\ Become(t, r)
      BY <1>3, <2>1, <2>3, PgAssumption DEF PgLookup
    <3> HIDE DEF m
    <3>2. /\ r \in PgRecords /\ r.pc = "fetch" /\ r.op = "read" /\ r.file = c.file
          /\ r.new = m /\ r.done = 0
      BY <1>1, <2>1, <3>1 DEF PgRecords, Pcs
    <3>3. PgWellFormed(r)
      BY <2>1, <3>1, <3>2 DEF PgWellFormed, IngestPcs, RepairPcs
    <3> HIDE DEF r
    <3> QED BY <1>2, <3>1, <3>2, <3>3, PgOneCall
  <2>4. PgCallsOK'
    BY <2>2, <2>3
  <2> QED BY <1>2, <2>4
<1>4. CASE PgFetch(t)
  <2> DEFINE r == [c EXCEPT !.done = @ + 1]
  <2>1. c.pc = "fetch" /\ c.done + 1 \in 1 .. Len(c.new) /\ c.new \in Contents
    BY <1>1, <1>4, PgChunks DEF PgFetch, PgWellFormed
  <2>2. CASE Chunk(t) \notin blobs \/ c.done + 1 = Len(c.new)
    BY <1>2, <1>4, <2>2, PgReturns DEF PgFetch
  <2>3. CASE ~(Chunk(t) \notin blobs \/ c.done + 1 = Len(c.new))
    <3>1. c.done + 1 \in 0 .. MaxChunks /\ c.done + 1 < Len(c.new) /\ Len(c.new) \in Nat
      BY <2>1, <2>3, PgAssumption
    <3>2. /\ r \in PgRecords /\ r.pc = "fetch" /\ r.op = c.op /\ r.file = c.file
          /\ r.new = c.new /\ r.done = c.done + 1
      BY <1>1, <2>1, <3>1 DEF PgRecords
    <3>3. PgWellFormed(r) /\ Become(t, r)
      BY <1>1, <1>4, <2>1, <2>3, <3>1, <3>2 DEF PgWellFormed, IngestPcs, RepairPcs, PgFetch
    <3> HIDE DEF r
    <3> QED BY <1>2, <3>2, <3>3, PgOneCall
  <2> QED BY <2>2, <2>3
<1> QED BY <1>3, <1>4

LEMMA FsckType ==
  ASSUME PgInv, NEW t \in Threads, PgFsckLive(t) \/ PgFsckList(t) \/ PgFsckUnlink(t)
  PROVE  PgCallsOK' /\ TablesOK'
<1> DEFINE c == call[t]
<1>1. c \in PgRecords /\ PgWellFormed(c) /\ TablesOK
  BY PgChunks, PgInvParts
<1> USE DEF shared, past
<1>2. TablesOK'
  BY <1>1 DEF PgFsckLive, PgFsckList, PgFsckUnlink, TablesOK
<1>3. ASSUME NEW label \in RepairPcs, NEW s \in SUBSET Digests, c.op = "repair",
             Become(t, [c EXCEPT !.pc = label, !.seen = s])
      PROVE  PgCallsOK'
  <2> DEFINE r == [c EXCEPT !.pc = label, !.seen = s]
  <2>1. r \in PgRecords /\ r.pc = label /\ r.op = "repair"
    BY <1>1, <1>3 DEF PgRecords, Pcs, RepairPcs
  <2>2. PgWellFormed(r)
    BY <2>1 DEF PgWellFormed, IngestPcs, RepairPcs
  <2> QED BY <1>3, <2>1, <2>2, PgOneCall
<1>4. c.op = "repair" /\ c.seen \subseteq Digests /\ Counted \subseteq Digests /\ blobs \subseteq Digests
  BY <1>1 DEF PgFsckLive, PgFsckList, PgFsckUnlink, PgWellFormed, RepairPcs, PgRecords, Counted,
              TablesOK
<1>5. CASE PgFsckLive(t)
  BY <1>2, <1>3, <1>4, <1>5 DEF PgFsckLive, RepairPcs
<1>6. CASE PgFsckList(t)
  BY <1>2, <1>3, <1>4, <1>6, PgReturns DEF PgFsckList, RepairPcs
<1>7. CASE PgFsckUnlink(t)
  <2>1. CASE Return(t, "ok")
    BY <1>2, <2>1, PgReturns
  <2>2. CASE \E d \in c.seen : Become(t, [c EXCEPT !.seen = @ \ {d}])
    <3>1. PICK d \in c.seen : Become(t, [c EXCEPT !.seen = @ \ {d}])
      BY <2>2
    <3>2. [c EXCEPT !.seen = @ \ {d}] = [c EXCEPT !.pc = "fsck_unlink", !.seen = c.seen \ {d}]
      <4>1. c.pc = "fsck_unlink"
        BY <1>7 DEF PgFsckUnlink
      <4> QED BY <1>1, <4>1 DEF PgRecords
    <3>3. "fsck_unlink" \in RepairPcs /\ c.seen \ {d} \in SUBSET Digests
      BY <1>4 DEF RepairPcs
    <3> HIDE DEF c
    <3>4. Become(t, [c EXCEPT !.pc = "fsck_unlink", !.seen = c.seen \ {d}])
      BY <3>1, <3>2
    <3> QED BY <1>2, <1>3, <1>4, <3>3, <3>4
  <2> QED BY <1>7, <2>1, <2>2 DEF PgFsckUnlink
<1> QED BY <1>5, <1>6, <1>7

LEMMA PgBeginType ==
  ASSUME PgInv, NEW t \in Threads, BeginCall(t)
  PROVE  PgCallsOK' /\ TablesOK'
<1> USE DEF shared, past
<1>1. TablesOK
  BY PgInvParts
<1>2. ASSUME NEW op \in {"ingest", "delete", "read", "repair"}, NEW f \in Files \cup {None},
             NEW c \in Contents \cup {<<>>}, NEW label \in Pcs, Begin(t, op, f, c, label),
             \/ op = "ingest" /\ f \in Files /\ c \in Contents
                /\ label = (IF c = <<>> THEN "peek" ELSE "exists")
             \/ op = "delete" /\ f \in Files /\ label = "digests"
             \/ op = "read" /\ f \in Files /\ label = "lookup"
             \/ op = "repair" /\ label = "fsck_live"
      PROVE  PgCallsOK' /\ TablesOK'
  <2> DEFINE r == [Idle EXCEPT !.pc = label, !.op = op, !.file = f, !.new = c]
  <2>1. /\ r \in PgRecords /\ r.pc = label /\ r.op = op /\ r.file = f /\ r.new = c
        /\ r.done = 0
    BY <1>2, PgIdle DEF PgRecords, Idle
  <2>2. Len(c) \in Nat /\ (c = <<>> => Len(c) = 0) /\ (c # <<>> => Len(c) > 0)
    BY PgAssumption
  <2>3. PgWellFormed(r)
    BY <1>2, <2>1, <2>2 DEF PgWellFormed, IngestPcs, RepairPcs
  <2>4. Become(t, r)
    BY <1>2 DEF Begin
  <2> HIDE DEF r
  <2>5. PgCallsOK'
    BY <2>1, <2>3, <2>4, PgOneCall
  <2> QED BY <1>1, <1>2, <2>5 DEF Begin, TablesOK
<1>3. ASSUME NEW f \in Files, NEW c \in Contents, NEW label \in {"peek", "exists"},
             label = (IF c = <<>> THEN "peek" ELSE "exists"), Begin(t, "ingest", f, c, label)
      PROVE  PgCallsOK' /\ TablesOK'
  BY <1>2, <1>3 DEF Pcs
<1>4. ASSUME NEW f \in Files, NEW c \in Contents,
             Begin(t, "ingest", f, c, IF c = <<>> THEN "peek" ELSE "exists")
      PROVE  PgCallsOK' /\ TablesOK'
  BY <1>3, <1>4
<1>5. ASSUME NEW f \in Files, Begin(t, "delete", f, <<>>, "digests")
      PROVE  PgCallsOK' /\ TablesOK'
  BY <1>2, <1>5 DEF Pcs
<1>6. ASSUME NEW f \in Files, Begin(t, "read", f, <<>>, "lookup")
      PROVE  PgCallsOK' /\ TablesOK'
  BY <1>2, <1>6 DEF Pcs
<1>7. ASSUME Begin(t, "repair", None, <<>>, "fsck_live")
      PROVE  PgCallsOK' /\ TablesOK'
  BY <1>2, <1>7 DEF Pcs
<1> QED BY <1>4, <1>5, <1>6, <1>7 DEF BeginCall

LEMMA PgFailureType ==
  ASSUME PgInv, \/ \E t \in Threads : PgFail(t) \/ LostReply(t)
                \/ \E n \in Nodes : NodeCrash(n) \/ OpenPostgres(n)
  PROVE  PgCallsOK' /\ TablesOK'
<1> USE DEF shared, past
<1>1. PgCallsOK /\ TablesOK
  BY PgInvParts
<1>2. ASSUME NEW t \in Threads, PgFail(t) PROVE PgCallsOK' /\ TablesOK'
  <2>1. PgCallsOK'
    BY <1>2, PgReturns DEF PgFail
  <2>2. blobLock' \in [Nodes -> Threads \cup {None}] /\ faults' \in Nat
    BY <1>1, <1>2 DEF PgFail, TablesOK
  <2> QED BY <1>1, <1>2, <2>1, <2>2 DEF PgFail, TablesOK
<1>3. ASSUME NEW t \in Threads, LostReply(t) PROVE PgCallsOK' /\ TablesOK'
  <2>1. PgCallsOK'
    BY <1>3, PgReturns DEF LostReply
  <2>2. counts' \in [Digests -> Nat] /\ manifests' \in [Files -> Contents \cup {None}]
    BY <1>3, TransactionType DEF LostReply
  <2>3. faults' \in Nat
    BY <1>1, <1>3 DEF LostReply, TablesOK
  <2> QED BY <1>1, <1>3, <2>1, <2>2, <2>3 DEF LostReply, TablesOK
<1>4. ASSUME NEW n \in Nodes, NodeCrash(n) PROVE PgCallsOK' /\ TablesOK'
  <2>1. PgCallsOK'
    BY <1>1, <1>4, PgIdle DEF NodeCrash, PgCallsOK
  <2> QED BY <1>1, <1>4, <2>1 DEF NodeCrash, TablesOK
<1>5. ASSUME NEW n \in Nodes, OpenPostgres(n) PROVE PgCallsOK' /\ TablesOK'
  BY <1>1, <1>5 DEF OpenPostgres, TablesOK, PgCallsOK
<1> QED BY <1>2, <1>3, <1>4, <1>5

LEMMA PgInvStep ==
  ASSUME PgInv, [PgNext]_vars
  PROVE  PgInv'
<1>1. ASSUME UNCHANGED vars PROVE PgCallsOK' /\ TablesOK'
  BY <1>1, PgInvParts DEF vars, shared, past, PgCallsOK, TablesOK
<1>2. PgCallsOK' /\ TablesOK'
  BY <1>1, IngestType, DeleteType, ReadType, FsckType, PgBeginType, PgFailureType
     DEF PgNext, PgStep, Rest
<1> QED BY <1>2 DEF PgInv, PgTypeOK, PgCallsOK, TablesOK, PgWellFormed

LEMMA PgInvInit == PgInit => PgInv
<1> SUFFICES ASSUME PgInit PROVE PgInv
  OBVIOUS
<1>1. PgCallsOK
  BY PgIdle DEF PgInit, PgCallsOK
<1>2. TablesOK
  BY DEF PgInit, TablesOK
<1> QED BY <1>1, <1>2, PgInvParts

\* The tables and the calls keep their types: a count never leaves Nat, though a
\* transaction subtracts from it what was peeked before it began.
THEOREM PgTypeCorrect == PgSpec => []PgTypeOK
<1>1. PgInv => PgTypeOK
  BY DEF PgInv
<1> QED BY <1>1, PgInvInit, PgInvStep, PTL DEF PgSpec

-------------------------------------------------------------------------------
(* References: what changing one file's manifest does to the number of them      *)

\* FileRefs and ContentOf of a table m of manifests.
RefsIn(m, d) == {r \in Files \X Positions :
                   m[r[1]] # None /\ r[2] <= Len(m[r[1]]) /\ m[r[1]][r[2]] = d}
ContentIn(m, f) == IF m[f] = None THEN <<>> ELSE m[f]
Tables == [Files -> Contents \cup {None}]

LEMMA RefsFinite ==
  ASSUME NEW m, NEW d
  PROVE  IsFiniteSet(RefsIn(m, d)) /\ Cardinality(RefsIn(m, d)) \in Nat
<1>1. IsFiniteSet(Positions)
  BY PgAssumption, FS_Interval, 1 \in Int, MaxChunks \in Int DEF Positions
<1>2. IsFiniteSet(Files \X Positions)
  BY <1>1, PgAssumption, FS_Product
<1>3. RefsIn(m, d) \in SUBSET (Files \X Positions)
  BY DEF RefsIn
<1>4. IsFiniteSet(RefsIn(m, d))
  BY <1>2, <1>3, FS_Subset
<1> QED BY <1>4, FS_CardinalityType

LEMMA RefsSplit ==
  ASSUME NEW m \in Tables, NEW f \in Files, NEW d
  PROVE  LET off == {r \in RefsIn(m, d) : r[1] # f}
             c == ContentIn(m, f)
         IN  /\ IsFiniteSet(off) /\ Cardinality(off) \in Nat
             /\ Cardinality(RefsIn(m, d)) = Cardinality(off) + Occurrences(c, d)
<1> DEFINE off == {r \in RefsIn(m, d) : r[1] # f}
           on == {r \in RefsIn(m, d) : r[1] = f}
           c == ContentIn(m, f)
           at == {i \in DOMAIN c : c[i] = d}
<1>1. IsFiniteSet(off) /\ IsFiniteSet(on)
  BY RefsFinite, FS_Subset, off \in SUBSET RefsIn(m, d), on \in SUBSET RefsIn(m, d)
<1>2. Cardinality(off) \in Nat /\ Cardinality(on) \in Nat
  BY <1>1, FS_CardinalityType
<1>3. off \cap on = {} /\ RefsIn(m, d) = off \cup on
  OBVIOUS
<1>4. Cardinality(RefsIn(m, d)) = Cardinality(off) + Cardinality(on)
  <2>1. Cardinality(off \cup on) = Cardinality(off) + Cardinality(on) - Cardinality(off \cap on)
    BY <1>1, FS_Union
  <2>2. Cardinality(off \cap on) = 0
    BY <1>3, FS_EmptySet
  <2> HIDE DEF off, on
  <2> QED BY <1>2, <1>3, <2>1, <2>2
<1>5. c \in Contents \cup {<<>>} /\ (m[f] # None => c = m[f]) /\ (m[f] = None => c = <<>>)
  BY DEF ContentIn, Tables
<1>6. IsFiniteSet(at) /\ Len(c) \in Nat /\ DOMAIN c = 1 .. Len(c) /\ Len(c) <= MaxChunks
      /\ Cardinality(at) = Occurrences(c, d) /\ Cardinality(at) \in Nat
  <2> HIDE DEF c
  <2> QED BY <1>5, OccurrencesType DEF Occurrences
<1>7. on = {f} \X at
  <2> HIDE DEF c
  <2>1. ASSUME NEW r \in on PROVE r \in {f} \X at
    <3>1. /\ r \in Files \X Positions /\ r[1] = f
          /\ m[f] # None /\ r[2] <= Len(m[f]) /\ m[f][r[2]] = d
      BY <2>1 DEF RefsIn
    <3>2. r[2] \in 1 .. Len(c) /\ c[r[2]] = d
      BY <1>5, <1>6, <3>1, PgAssumption DEF Positions
    <3> QED BY <1>6, <3>1, <3>2
  <2>2. ASSUME NEW r \in {f} \X at PROVE r \in on
    <3>1. /\ r[1] = f /\ r[2] \in 1 .. Len(c) /\ c[r[2]] = d /\ r = <<r[1], r[2]>>
      BY <1>6, <2>2
    <3>2. m[f] # None
      BY <1>5, <3>1
    <3>3. r[2] \in Positions
      BY <1>6, <3>1, PgAssumption DEF Positions
    <3>4. r \in Files \X Positions
      BY <2>2, <3>1, <3>3
    <3> QED BY <1>5, <1>6, <3>1, <3>2, <3>4 DEF RefsIn
  <2> QED BY <2>1, <2>2
<1>8. Cardinality(on) = Occurrences(c, d)
  <2>1. IsFiniteSet({f}) /\ Cardinality({f}) = 1
    BY FS_Singleton
  <2>2. Cardinality({f} \X at) = 1 * Cardinality(at)
    BY <1>6, <2>1, FS_Product
  <2> HIDE DEF on, at, c
  <2> QED BY <1>6, <1>7, <2>2
<1> QED BY <1>1, <1>2, <1>4, <1>8

\* Replacing what one file holds takes away the references of the old content and
\* adds those of the new one.
LEMMA RefsReplaced ==
  ASSUME NEW m \in Tables, NEW f \in Files, NEW x \in Contents \cup {None}, NEW d,
         NEW m2, m2 = [m EXCEPT ![f] = x]
  PROVE  /\ Cardinality(RefsIn(m2, d)) =
              (Cardinality(RefsIn(m, d)) + Occurrences(ContentIn(m2, f), d))
                - Occurrences(ContentIn(m, f), d)
         /\ Cardinality(RefsIn(m, d)) \in Nat
         /\ Occurrences(ContentIn(m, f), d) \in Nat /\ Occurrences(ContentIn(m2, f), d) \in Nat
<1> DEFINE off == {r \in RefsIn(m, d) : r[1] # f}
<1>1. m2 \in Tables
  BY DEF Tables
<1>2. {r \in RefsIn(m2, d) : r[1] # f} = off
  <2>1. \A r \in Files \X Positions : r[1] # f => m2[r[1]] = m[r[1]]
    BY DEF Tables
  <2> QED BY <2>1 DEF RefsIn
<1>3. /\ Cardinality(off) \in Nat
      /\ Cardinality(RefsIn(m, d)) = Cardinality(off) + Occurrences(ContentIn(m, f), d)
  BY RefsSplit
<1>4. Cardinality(RefsIn(m2, d)) = Cardinality(off) + Occurrences(ContentIn(m2, f), d)
  BY <1>1, <1>2, RefsSplit
<1>5. ContentIn(m, f) \in Contents \cup {<<>>} /\ ContentIn(m2, f) \in Contents \cup {<<>>}
  BY <1>1 DEF ContentIn, Tables
<1>6. Occurrences(ContentIn(m, f), d) \in Nat /\ Occurrences(ContentIn(m2, f), d) \in Nat
  BY <1>5, OccurrencesType
<1> QED BY <1>3, <1>4, <1>6, RefsFinite

-------------------------------------------------------------------------------
(* The counts are exact                                                          *)

\* A step of a call is a step of that call alone, which keeps what it was called for.
LEMMA PgStepsAlone ==
  ASSUME PgInv, NEW t \in Threads, PgStep(t) \/ PgFail(t) \/ LostReply(t)
  PROVE  /\ Busy(t) /\ call' = [call EXCEPT ![t] = call'[t]]
         /\ call'[t].op = call[t].op /\ call'[t].file = call[t].file
         /\ Busy(t)' => call'[t].result = call[t].result
         /\ up' = up
<1>1. call \in [Threads -> PgRecords]
  BY PgInvParts DEF PgCallsOK
<1> DEFINE a == call'[t]
<1>2. ASSUME NEW r, Become(t, r), r.op = call[t].op, r.file = call[t].file,
             r.pc # "idle" => r.result = call[t].result
      PROVE  call' = [call EXCEPT ![t] = a] /\ a.op = call[t].op /\ a.file = call[t].file
             /\ (a.pc # "idle" => a.result = call[t].result)
  BY <1>1, <1>2 DEF Become
<1>3. ASSUME NEW res, Return(t, res)
      PROVE  call' = [call EXCEPT ![t] = a] /\ a.op = call[t].op /\ a.file = call[t].file
             /\ (a.pc # "idle" => a.result = call[t].result)
  <2> DEFINE r == [Idle EXCEPT !.op = call[t].op, !.file = call[t].file, !.result = res]
  <2>1. r.op = call[t].op /\ r.file = call[t].file /\ r.pc = "idle"
    BY DEF Idle
  <2> QED BY <1>2, <1>3, <2>1 DEF Return
<1>4. ASSUME PgStep(t) PROVE up' = up /\ Busy(t)
  BY <1>4 DEF PgStep, PgStoreExists, PgStorePut, PgPeek, CommitIngest, PgDigests, CommitDelete,
              PgLookup, PgFetch, PgFsckLive, PgFsckList, PgFsckUnlink, Busy
<1>5. call[t] \in PgRecords
  BY <1>1
<1>6. ASSUME NEW label, Goto(t, label)
      PROVE  call' = [call EXCEPT ![t] = a] /\ a.op = call[t].op /\ a.file = call[t].file
             /\ (a.pc # "idle" => a.result = call[t].result)
  <2> DEFINE r == [call[t] EXCEPT !.pc = label]
  <2>1. r.op = call[t].op /\ r.file = call[t].file /\ r.result = call[t].result
    BY <1>5 DEF PgRecords
  <2> QED BY <1>2, <1>6, <2>1 DEF Goto
<1>7. ASSUME ChunkStored(t)
      PROVE  call' = [call EXCEPT ![t] = a] /\ a.op = call[t].op /\ a.file = call[t].file
             /\ (a.pc # "idle" => a.result = call[t].result)
  BY <1>2, <1>5, <1>7 DEF ChunkStored, PgRecords
<1>8. ASSUME PgStep(t)
      PROVE  call' = [call EXCEPT ![t] = a] /\ a.op = call[t].op /\ a.file = call[t].file
             /\ (a.pc # "idle" => a.result = call[t].result)
  <2>1. CASE PgStoreExists(t)
    BY <1>6, <1>7, <2>1 DEF PgStoreExists
  <2>2. CASE PgStorePut(t)
    BY <1>7, <2>2 DEF PgStorePut
  <2>3. CASE PgPeek(t)
    BY <1>2, <1>5, <2>3 DEF PgPeek, PgRecords
  <2>4. CASE CommitIngest(t) \/ CommitDelete(t)
    BY <1>3, <2>4 DEF CommitIngest, CommitDelete
  <2>5. CASE PgDigests(t)
    BY <1>2, <1>3, <1>5, <2>5 DEF PgDigests, PgRecords
  <2>6. CASE PgLookup(t)
    BY <1>2, <1>3, <1>5, <2>6 DEF PgLookup, PgRecords
  <2>7. CASE PgFetch(t)
    BY <1>2, <1>3, <1>5, <2>7 DEF PgFetch, PgRecords
  <2>8. CASE PgFsckLive(t) \/ PgFsckList(t) \/ PgFsckUnlink(t)
    BY <1>2, <1>3, <1>5, <2>8 DEF PgFsckLive, PgFsckList, PgFsckUnlink, PgRecords
  <2> QED BY <1>8, <2>1, <2>2, <2>3, <2>4, <2>5, <2>6, <2>7, <2>8 DEF PgStep
<1>9. CASE PgFail(t) \/ LostReply(t)
  BY <1>3, <1>9 DEF PgFail, LostReply, Busy
<1> QED BY <1>4, <1>8, <1>9 DEF Busy

LEMMA CountsAgreeIn ==
  CountsAgree <=> \A d \in Digests : counts[d] = Cardinality(RefsIn(manifests, d))
BY DEF CountsAgree, FileRefs, RefsIn

LEMMA ExactInit == PgInit => ExactInv
<1> SUFFICES ASSUME PgInit PROVE ExactInv
  OBVIOUS
<1>1. PgInv /\ PgExclusive /\ PgPeekedIsCurrent
  BY PgInvInit, PgIdle DEF PgInit, PgExclusive, PgWriting, Busy, PgPeekedIsCurrent
<1>2. ASSUME NEW d \in Digests PROVE counts[d] = Cardinality(FileRefs(d))
  <2>1. FileRefs(d) = {}
    BY DEF PgInit, FileRefs
  <2> QED BY <2>1, FS_EmptySet DEF PgInit
<1> QED BY <1>1, <1>2 DEF ExactInv, ExactSoFar, CountsAgree

\* Two writing calls stay on different files, unless they clash.
LEMMA ExclusiveStep ==
  ASSUME ~clashed', PgInv, PgExclusive, [PgNext]_vars
  PROVE  PgExclusive'
<1>1. call \in [Threads -> PgRecords]
  BY PgInvParts DEF PgCallsOK
<1>2. ASSUME UNCHANGED call PROVE PgExclusive'
  BY <1>2 DEF PgExclusive, PgWriting, Busy
<1>3. ASSUME NEW t \in Threads, PgStep(t) \/ PgFail(t) \/ LostReply(t)
      PROVE  PgExclusive'
  BY <1>1, <1>3, PgStepsAlone DEF PgExclusive, PgWriting, Busy
<1>4. ASSUME NEW n \in Nodes, NodeCrash(n) PROVE PgExclusive'
  BY <1>1, <1>4, PgIdle DEF NodeCrash, PgExclusive, PgWriting, Busy
<1>5. ASSUME NEW t \in Threads, NEW op, NEW f, NEW c, NEW label, Begin(t, op, f, c, label)
      PROVE  PgExclusive'
  <2> DEFINE r == [Idle EXCEPT !.pc = label, !.op = op, !.file = f, !.new = c]
  <2>1. r.op = op /\ r.file = f /\ call' = [call EXCEPT ![t] = r]
    BY <1>5 DEF Idle, Begin, Become
  <2> HIDE DEF r
  <2>2. op \in {"ingest", "delete"} => NoWriterOn(f)
    BY <1>5 DEF Begin
  <2> QED BY <1>1, <2>1, <2>2 DEF PgExclusive, PgWriting, NoWriterOn, Busy
<1>6. ASSUME NEW t \in Threads, BeginCall(t) PROVE PgExclusive'
  BY <1>5, <1>6 DEF BeginCall
<1>7. ASSUME NEW n \in Nodes, OpenPostgres(n) PROVE PgExclusive'
  BY <1>2, <1>7 DEF OpenPostgres
<1>8. ASSUME Rest \/ UNCHANGED vars PROVE PgExclusive'
  BY <1>2, <1>8 DEF Rest, vars
<1> QED BY <1>3, <1>4, <1>6, <1>7, <1>8 DEF PgNext

\* What a transaction does to the counts.
LEMMA TransactionExact ==
  ASSUME ExactSoFar, NEW t \in Threads,
         \/ call[t].pc = "commit_ingest" /\ IngestTransaction(t)
         \/ call[t].pc = "commit_delete" /\ DeleteTransaction(t)
  PROVE  CountsAgree'
<1> DEFINE c == call[t]
           f == call[t].file
           x == IF c.pc = "commit_ingest" THEN c.new ELSE None
<1>1. c \in PgRecords /\ PgWellFormed(c) /\ TablesOK
  BY PgChunks, PgInvParts DEF ExactSoFar
<1>2. /\ f \in Files /\ x \in Contents \cup {None} /\ manifests \in Tables
      /\ manifests' = [manifests EXCEPT ![f] = x]
      /\ c.old = ContentIn(manifests, f)
  BY <1>1 DEF PgWellFormed, IngestPcs, IngestTransaction, DeleteTransaction, TablesOK, Tables,
              ExactSoFar, PgPeekedIsCurrent, ContentOf, ContentIn
<1>3. ContentIn(manifests', f) = IF c.pc = "commit_ingest" THEN c.new ELSE <<>>
  BY <1>1, <1>2, PgAssumption DEF ContentIn, Tables, PgWellFormed, IngestPcs
<1>4. ASSUME NEW d \in Digests
      PROVE  counts'[d] = (counts[d] + Occurrences(ContentIn(manifests', f), d))
                             - Occurrences(c.old, d)
  <2>1. CASE c.pc = "commit_ingest"
    BY <1>3, <2>1 DEF IngestTransaction, Debited, Credited
  <2>2. CASE c.pc = "commit_delete"
    <3>1. Occurrences(<<>>, d) = 0
      BY FS_EmptySet, {i \in DOMAIN <<>> : <<>>[i] = d} = {} DEF Occurrences
    <3>2. counts[d] \in Nat
      BY <1>1 DEF TablesOK
    <3>3. counts'[d] = counts[d] - Occurrences(c.old, d)
      BY <2>2 DEF DeleteTransaction, Debited
    <3> QED BY <1>3, <2>2, <3>1, <3>2, <3>3
  <2> QED BY <2>1, <2>2
<1>5. ASSUME NEW d \in Digests
      PROVE  counts'[d] = Cardinality(RefsIn(manifests', d))
  <2> DEFINE m2 == manifests'
  <2>1. Cardinality(RefsIn(m2, d)) =
              (Cardinality(RefsIn(manifests, d)) + Occurrences(ContentIn(m2, f), d))
                - Occurrences(ContentIn(manifests, f), d)
    <3>1. m2 = [manifests EXCEPT ![f] = x]
      BY <1>2
    <3> HIDE DEF m2, x, f
    <3> QED BY <1>2, <3>1, RefsReplaced
  <2>2. counts[d] = Cardinality(RefsIn(manifests, d))
    BY CountsAgreeIn DEF ExactSoFar
  <2> QED BY <1>2, <1>4, <2>1, <2>2
<1> QED BY <1>5 DEF CountsAgree, FileRefs, RefsIn

LEMMA ExactSoFarStep ==
  ASSUME ~clashed', ExactSoFar, [PgNext]_vars
  PROVE  ExactSoFar'
<1>1. PgInv /\ PgExclusive /\ PgPeekedIsCurrent /\ CountsAgree
      /\ call \in [Threads -> PgRecords]
  BY PgInvParts DEF ExactSoFar, PgCallsOK
<1>2. PgInv' /\ PgExclusive'
  BY <1>1, PgInvStep, ExclusiveStep
<1>3. ASSUME UNCHANGED <<manifests, counts>> PROVE CountsAgree'
  BY <1>1, <1>3 DEF CountsAgree, FileRefs
<1>4. ASSUME UNCHANGED manifests, NEW t \in Threads, call' = [call EXCEPT ![t] = call'[t]],
             call'[t].pc \notin {"commit_ingest", "commit_delete"}
      PROVE  PgPeekedIsCurrent'
  BY <1>1, <1>4 DEF PgPeekedIsCurrent, ContentOf
<1>5. ASSUME NEW t \in Threads, CommitIngest(t) \/ CommitDelete(t) \/ LostReply(t)
      PROVE  PgPeekedIsCurrent' /\ CountsAgree'
  <2>1. CASE UNCHANGED <<manifests, counts>>
    <3>1. call'[t].pc = "idle" /\ call' = [call EXCEPT ![t] = call'[t]]
      BY <1>1, <1>5, PgEnded, PgStepsAlone DEF CommitIngest, CommitDelete, LostReply, Become, PgStep
    <3> QED BY <1>3, <1>4, <2>1, <3>1
  <2>2. CASE ~ UNCHANGED <<manifests, counts>>
    <3>1. /\ \/ call[t].pc = "commit_ingest" /\ IngestTransaction(t)
             \/ call[t].pc = "commit_delete" /\ DeleteTransaction(t)
          /\ \E res \in {"ok", "err"} : Return(t, res)
      BY <1>5, <2>2 DEF CommitIngest, CommitDelete, LostReply
    <3>2. CountsAgree'
      BY <3>1, TransactionExact
    <3>3. call'[t].pc = "idle" /\ call' = [call EXCEPT ![t] = call'[t]]
      BY <1>1, <3>1, PgEnded DEF Become
    <3>4. PgWriting(t) /\ call[t].file \in Files
      BY <1>1, <3>1, PgChunks DEF PgWriting, Busy, PgWellFormed, IngestPcs
    <3>5. ASSUME NEW u \in Threads, call'[u].pc \in {"commit_ingest", "commit_delete"}
          PROVE  call'[u].old = ContentOf(call[u].file)' /\ call'[u] = call[u]
      <4>1. u # t /\ call'[u] = call[u]
        BY <1>1, <3>3, <3>5
      <4>2. PgWriting(u) /\ call[u].file \in Files
        BY <1>1, <3>5, <4>1, PgChunks DEF PgWriting, Busy, PgWellFormed, IngestPcs
      <4>3. call[u].file # call[t].file
        BY <1>1, <3>4, <4>1, <4>2 DEF PgExclusive
      <4>4. manifests'[call[u].file] = manifests[call[u].file]
        BY <1>1, <3>1, <3>4, <4>2, <4>3, PgInvParts DEF IngestTransaction, DeleteTransaction, TablesOK
      <4> QED BY <1>1, <3>5, <4>1, <4>4 DEF PgPeekedIsCurrent, ContentOf
    <3> QED BY <3>2, <3>5 DEF PgPeekedIsCurrent, ContentOf
  <2> QED BY <2>1, <2>2
<1>6. ASSUME NEW t \in Threads, PgPeek(t) \/ PgDigests(t)
      PROVE  PgPeekedIsCurrent' /\ CountsAgree'
  <2>1. UNCHANGED <<manifests, counts>> /\ call' = [call EXCEPT ![t] = call'[t]]
        /\ call'[t].file = call[t].file
    BY <1>1, <1>6, PgStepsAlone DEF PgPeek, PgDigests, shared, PgStep
  <2>2. call'[t].pc \in {"commit_ingest", "commit_delete"} => call'[t].old = ContentOf(call[t].file)
    <3>1. CASE PgPeek(t)
      BY <1>1, <3>1 DEF PgPeek, Become, PgRecords
    <3>2. CASE PgDigests(t)
      <4>1. CASE manifests[call[t].file] = None
        BY <1>1, <1>6, <3>2, <4>1, PgEnded DEF PgDigests, Become
      <4>2. CASE manifests[call[t].file] # None
        BY <1>1, <3>2, <4>2 DEF PgDigests, Become, PgRecords, ContentOf
      <4> QED BY <4>1, <4>2
    <3> QED BY <1>6, <3>1, <3>2
  <2> QED BY <1>1, <1>3, <2>1, <2>2 DEF PgPeekedIsCurrent, ContentOf
<1>7. ASSUME NEW t \in Threads,
             \/ PgStoreExists(t) \/ PgStorePut(t) \/ PgLookup(t) \/ PgFetch(t)
             \/ PgFsckLive(t) \/ PgFsckList(t) \/ PgFsckUnlink(t) \/ PgFail(t)
      PROVE  PgPeekedIsCurrent' /\ CountsAgree'
  <2>1. UNCHANGED <<manifests, counts>> /\ call' = [call EXCEPT ![t] = call'[t]]
    BY <1>1, <1>7, PgStepsAlone DEF PgStoreExists, PgStorePut, PgLookup, PgFetch, PgFsckLive,
       PgFsckList, PgFsckUnlink, PgFail, shared, PgStep
  <2>2. call'[t].pc \notin {"commit_ingest", "commit_delete"}
    <3>1. CASE PgStoreExists(t)
      BY <1>1, <3>1, StoredType DEF PgStoreExists, Goto, Become, PgRecords
    <3>2. CASE PgStorePut(t)
      BY <1>1, <3>2, StoredType DEF PgStorePut, Become
    <3>3. CASE PgLookup(t) \/ PgFetch(t)
      <4>1. CASE \E res \in {"ok", "err"} : Return(t, res)
        BY <1>1, <4>1, PgEnded DEF Become
      <4>2. CASE ~ \E res \in {"ok", "err"} : Return(t, res)
        BY <1>1, <3>3, <4>2 DEF PgLookup, PgFetch, Become, PgRecords
      <4> QED BY <4>1, <4>2
    <3>4. CASE PgFsckLive(t) \/ PgFsckList(t) \/ PgFsckUnlink(t)
      <4>1. CASE Return(t, "ok")
        BY <1>1, <4>1, PgEnded DEF Become
      <4>2. CASE ~ Return(t, "ok")
        BY <1>1, <3>4, <4>2 DEF PgFsckLive, PgFsckList, PgFsckUnlink, Become, PgRecords
      <4> QED BY <4>1, <4>2
    <3>5. CASE PgFail(t)
      BY <1>1, <3>5, PgEnded DEF PgFail, Become
    <3> QED BY <1>7, <3>1, <3>2, <3>3, <3>4, <3>5
  <2> QED BY <1>3, <1>4, <2>1, <2>2
<1>8. ASSUME NEW t \in Threads, NEW op, NEW f, NEW c, NEW label, Begin(t, op, f, c, label),
             label \notin {"commit_ingest", "commit_delete"}
      PROVE  PgPeekedIsCurrent' /\ CountsAgree'
  <2>1. call' = [call EXCEPT ![t] = call'[t]] /\ call'[t].pc = label
    BY <1>1, <1>8 DEF Begin, Become, Idle
  <2> QED BY <1>3, <1>4, <1>8, <2>1 DEF Begin, shared
<1>9. ASSUME NEW t \in Threads, BeginCall(t) PROVE PgPeekedIsCurrent' /\ CountsAgree'
  BY <1>8, <1>9 DEF BeginCall
<1>10. ASSUME NEW n \in Nodes, NodeCrash(n) PROVE PgPeekedIsCurrent' /\ CountsAgree'
  BY <1>1, <1>3, <1>10, PgIdle DEF NodeCrash, PgPeekedIsCurrent, ContentOf, shared
<1>11. ASSUME UNCHANGED <<manifests, counts, call>> PROVE PgPeekedIsCurrent' /\ CountsAgree'
  BY <1>1, <1>3, <1>11 DEF PgPeekedIsCurrent, ContentOf
<1>12. ASSUME (\E n \in Nodes : OpenPostgres(n)) \/ Rest \/ UNCHANGED vars
       PROVE  PgPeekedIsCurrent' /\ CountsAgree'
  BY <1>11, <1>12 DEF OpenPostgres, Rest, vars, shared
<1>13. PgPeekedIsCurrent' /\ CountsAgree'
  BY <1>5, <1>6, <1>7, <1>9, <1>10, <1>12 DEF PgNext, PgStep
<1> QED BY <1>2, <1>13 DEF ExactSoFar

\* Once two calls have clashed nothing more is said of the counts.
LEMMA ExactStep ==
  ASSUME ExactInv, [PgNext]_vars
  PROVE  ExactInv'
<1>1. clashed => clashed'
  BY PgInvParts DEF ExactInv, TablesOK, PgNext, BeginCall, Begin, PgStep, PgStoreExists, PgStorePut,
     PgPeek, CommitIngest, PgDigests, CommitDelete, PgLookup, PgFetch, PgFsckLive, PgFsckList,
     PgFsckUnlink, PgFail, LostReply, NodeCrash, OpenPostgres, Rest, vars, past
<1> QED BY <1>1, PgInvStep, ExactSoFarStep DEF ExactInv

\* At every instant a count is the number of references to its chunk, whatever
\* fails and whichever process dies, until two calls have been writing one file at
\* once: the manifest and the counts change in one transaction, and what it releases
\* is what the manifest held when it was peeked, before the transaction began.
THEOREM PgCountsExact == PgSpec => []CountsExact
<1>1. PgInit => ExactInv
  BY ExactInit
<1>2. ExactInv /\ [PgNext]_vars => ExactInv'
  BY ExactStep
<1>3. ExactInv => CountsExact
  BY DEF ExactInv, ExactSoFar, CountsExact
<1> QED BY <1>1, <1>2, <1>3, PTL DEF PgSpec

-------------------------------------------------------------------------------
(* fsck reclaims what nothing counts                                             *)

\* A transaction takes no chunk out of the table of counts, and a delete adds none.
LEMMA CountedByTransactions ==
  ASSUME PgInv, NEW t \in Threads,
         \/ call[t].pc = "commit_ingest" /\ IngestTransaction(t)
         \/ call[t].pc = "commit_delete" /\ DeleteTransaction(t)
  PROVE  /\ Counted \subseteq Counted'
         /\ call[t].pc = "commit_delete" => Counted' = Counted
<1> DEFINE c == call[t]
<1>1. c \in PgRecords /\ PgWellFormed(c) /\ TablesOK
  BY PgChunks, PgInvParts
<1>2. ASSUME NEW d \in Digests
      PROVE  /\ counts[d] \in Nat /\ Occurrences(c.old, d) \in Nat /\ Occurrences(c.new, d) \in Nat
  BY <1>1, OccurrencesType DEF TablesOK, PgRecords
<1>3. ASSUME c.pc = "commit_ingest", IngestTransaction(t), NEW d \in Digests, counts[d] > 0
      PROVE  counts'[d] > 0
  <2>1. /\ counts'[d] = (counts[d] + Occurrences(c.new, d)) - Occurrences(c.old, d)
        /\ Occurrences(c.old, d) > 0 => counts[d] + Occurrences(c.new, d) > Occurrences(c.old, d)
    BY <1>3 DEF IngestTransaction, Debitable, Debited, Credited
  <2> QED BY <1>2, <1>3, <2>1
<1>4. ASSUME c.pc = "commit_delete", DeleteTransaction(t), NEW d \in Digests
      PROVE  counts'[d] > 0 <=> counts[d] > 0
  <2>1. /\ counts'[d] = counts[d] - Occurrences(c.old, d)
        /\ Occurrences(c.old, d) > 0 => counts[d] > Occurrences(c.old, d)
    BY <1>4 DEF DeleteTransaction, Debitable, Debited
  <2> QED BY <1>2, <2>1
<1> QED BY <1>3, <1>4 DEF Counted

\* While nothing changes the blobs or what is counted, what fsck knows stays true.
LEMMA RepairKnowsStill ==
  ASSUME PgInv, RepairKnows, UNCHANGED blobs, Counted' = Counted,
         \A u \in Threads : call'[u] = call[u] \/ call'[u].pc \notin {"fsck_list", "fsck_unlink"}
  PROVE  RepairKnows'
BY DEF RepairKnows

\* The step a call takes when it is not one of fsck's.
LEMMA NotFsckStep ==
  ASSUME PgInv, NEW t \in Threads,
         \/ PgStoreExists(t) \/ PgStorePut(t) \/ PgPeek(t) \/ CommitIngest(t)
         \/ PgDigests(t) \/ CommitDelete(t) \/ PgLookup(t) \/ PgFetch(t)
         \/ PgFail(t) \/ LostReply(t)
  PROVE  call'[t].pc \notin RepairPcs
<1>1. call \in [Threads -> PgRecords]
  BY PgInvParts DEF PgCallsOK
<1>2. CASE \E res \in {"ok", "err"} : Return(t, res)
  BY <1>1, <1>2, PgEnded DEF Become, RepairPcs
<1>3. CASE ~ \E res \in {"ok", "err"} : Return(t, res)
  <2>1. CASE ChunkStored(t) /\ call[t].pc \in {"exists", "put"}
    BY <1>1, <2>1, StoredType DEF Become, RepairPcs
  <2>2. CASE PgStoreExists(t) /\ Goto(t, "put")
    BY <1>1, <2>2 DEF Goto, Become, PgRecords, RepairPcs
  <2>3. CASE PgPeek(t) \/ PgDigests(t) \/ PgLookup(t) \/ PgFetch(t)
    <3>1. CASE PgPeek(t)
      BY <1>1, <1>3, <3>1 DEF PgPeek, Become, PgRecords, RepairPcs
    <3>2. CASE PgDigests(t)
      BY <1>1, <1>3, <3>2 DEF PgDigests, Become, PgRecords, RepairPcs
    <3>3. CASE PgLookup(t)
      <4>1. PICK s : Become(t, [call[t] EXCEPT !.pc = "fetch", !.new = s])
        BY <1>3, <3>3 DEF PgLookup
      <4> QED BY <1>1, <4>1 DEF Become, PgRecords, RepairPcs
    <3>4. CASE PgFetch(t)
      BY <1>1, <1>3, <3>4 DEF PgFetch, Become, PgRecords, RepairPcs
    <3> QED BY <2>3, <3>1, <3>2, <3>3, <3>4
  <2> QED BY <1>3, <2>1, <2>2, <2>3 DEF PgStoreExists, PgStorePut, CommitIngest, CommitDelete,
                                    PgFail, LostReply
<1> QED BY <1>2, <1>3

LEMMA ApartStep ==
  ASSUME RepairAlone, PgInv, Apart, [PgNext]_vars
  PROVE  Apart'
<1>1. call \in [Threads -> PgRecords]
  BY PgInvParts DEF PgCallsOK
<1>2. ASSUME UNCHANGED call PROVE Apart'
  BY <1>2 DEF Apart, Running, Busy
<1>3. ASSUME NEW t \in Threads, PgStep(t) \/ PgFail(t) \/ LostReply(t)
      PROVE  Apart'
  BY <1>1, <1>3, PgStepsAlone DEF Apart, Running, Busy
<1>4. ASSUME NEW n \in Nodes, NodeCrash(n) PROVE Apart'
  BY <1>1, <1>4, PgIdle DEF NodeCrash, Apart, Running, Busy
<1>5. ASSUME NEW t \in Threads, NEW op, NEW f, NEW c, NEW label, Begin(t, op, f, c, label),
             op = "ingest" => ~Running("repair"), op = "repair" => ~Running("ingest")
      PROVE  Apart'
  <2> DEFINE r == [Idle EXCEPT !.pc = label, !.op = op, !.file = f, !.new = c]
  <2>1. r.op = op /\ call' = [call EXCEPT ![t] = r] /\ ~Busy(t)
    BY <1>5 DEF Idle, Begin, Become
  <2> HIDE DEF r
  <2> QED BY <1>1, <1>5, <2>1 DEF Apart, Running, Busy
<1>6. ASSUME NEW t \in Threads, BeginCall(t) PROVE Apart'
  BY <1>5, <1>6 DEF BeginCall
<1>7. ASSUME (\E n \in Nodes : OpenPostgres(n)) \/ Rest \/ UNCHANGED vars PROVE Apart'
  BY <1>2, <1>7 DEF OpenPostgres, Rest, vars
<1> QED BY <1>3, <1>4, <1>6, <1>7 DEF PgNext

\* While fsck is between its steps, nothing is stored and nothing becomes counted.
LEMMA RepairKnowsStep ==
  ASSUME PgInv, Apart, RepairKnows, [PgNext]_vars
  PROVE  RepairKnows'
<1>1. call \in [Threads -> PgRecords] /\ TablesOK
  BY PgInvParts DEF PgCallsOK
<1>2. ASSUME NEW t \in Threads, PgWellFormed(call[t]), call[t].op = "ingest", Busy(t),
             call' = [call EXCEPT ![t] = call'[t]], call'[t].pc \notin RepairPcs
      PROVE  RepairKnows'
  <2>1. \A u \in Threads : call[u].pc \notin {"fsck_list", "fsck_unlink"}
    <3>1. \A u \in Threads : ~(Busy(u) /\ call[u].op = "repair")
      BY <1>2 DEF Apart, Running
    <3> QED BY <3>1, PgChunks DEF PgWellFormed, RepairPcs, Busy
  <2>2. \A u \in Threads : call'[u].pc \notin {"fsck_list", "fsck_unlink"}
    BY <1>1, <1>2, <2>1 DEF RepairPcs
  <2> QED BY <2>2 DEF RepairKnows
<1>3. ASSUME NEW t \in Threads,
             \/ PgStoreExists(t) \/ PgStorePut(t) \/ PgPeek(t) \/ CommitIngest(t)
             \/ LostReply(t) /\ call[t].pc = "commit_ingest"
      PROVE  RepairKnows'
  <2>1. call[t].op = "ingest" /\ Busy(t) /\ PgWellFormed(call[t])
    BY <1>3, PgChunks DEF PgStoreExists, PgStorePut, PgPeek, CommitIngest, PgWellFormed,
                          IngestPcs, Busy
  <2>2. call' = [call EXCEPT ![t] = call'[t]] /\ call'[t].pc \notin RepairPcs
    BY <1>3, PgStepsAlone, NotFsckStep DEF PgStep
  <2> QED BY <1>2, <2>1, <2>2
<1>4. ASSUME NEW t \in Threads,
             \/ PgDigests(t) \/ CommitDelete(t) \/ PgLookup(t) \/ PgFetch(t)
             \/ PgFail(t)
             \/ LostReply(t) /\ call[t].pc = "commit_delete"
      PROVE  RepairKnows'
  <2>1. call' = [call EXCEPT ![t] = call'[t]] /\ call'[t].pc \notin RepairPcs
    BY <1>4, PgStepsAlone, NotFsckStep DEF PgStep
  <2>2. UNCHANGED blobs
    BY <1>4 DEF PgDigests, CommitDelete, PgLookup, PgFetch, PgFail, LostReply, shared
  <2>3. Counted' = Counted
    <3>1. CASE UNCHANGED counts
      BY <3>1 DEF Counted
    <3>2. CASE ~ UNCHANGED counts
      BY <1>4, <3>2, CountedByTransactions
         DEF PgDigests, CommitDelete, PgLookup, PgFetch, PgFail, LostReply, shared
    <3> QED BY <3>1, <3>2
  <2> QED BY <1>1, <2>1, <2>2, <2>3, RepairKnowsStill DEF RepairPcs
<1>5. ASSUME NEW t \in Threads, PgFsckLive(t) \/ PgFsckList(t) \/ PgFsckUnlink(t)
      PROVE  RepairKnows'
  <2>1. call' = [call EXCEPT ![t] = call'[t]] /\ Counted' = Counted
    BY <1>5, PgStepsAlone DEF PgFsckLive, PgFsckList, PgFsckUnlink, shared, Counted, PgStep
  <2>2. blobs' \subseteq blobs
    BY <1>5 DEF PgFsckLive, PgFsckList, PgFsckUnlink, shared
  <2>3. ASSUME NEW u \in Threads, u # t
        PROVE  /\ call'[u].pc = "fsck_list" => call'[u].seen = Counted
               /\ call'[u].pc = "fsck_unlink" => blobs' \ call'[u].seen \subseteq Counted
                                                /\ call'[u].seen \cap Counted = {}
    BY <1>1, <2>1, <2>2, <2>3 DEF RepairKnows
  <2>4. /\ call'[t].pc = "fsck_list" => call'[t].seen = Counted
        /\ call'[t].pc = "fsck_unlink" => blobs' \ call'[t].seen \subseteq Counted
                                         /\ call'[t].seen \cap Counted = {}
    <3>1. CASE PgFsckLive(t)
      BY <1>1, <3>1 DEF PgFsckLive, Become, PgRecords
    <3>2. CASE PgFsckList(t)
      <4>1. CASE Return(t, "ok")
        BY <1>1, <4>1, PgEnded DEF Become
      <4>2. CASE ~Return(t, "ok")
        <5>1. /\ Become(t, [call[t] EXCEPT !.pc = "fsck_unlink", !.seen = blobs \ @])
              /\ call[t].pc = "fsck_list" /\ blobs' = blobs
          BY <3>2, <4>2 DEF PgFsckList, shared
        <5>2. call'[t].seen = blobs \ Counted /\ call'[t].pc = "fsck_unlink"
          BY <1>1, <5>1 DEF Become, PgRecords, RepairKnows
        <5> QED BY <5>1, <5>2
      <4> QED BY <4>1, <4>2
    <3>3. CASE PgFsckUnlink(t) /\ Return(t, "ok")
      BY <1>1, <3>3, PgEnded DEF Become
    <3>4. CASE PgFsckUnlink(t) /\ ~Return(t, "ok")
      <4>1. PICK d \in call[t].seen : /\ blobs' = blobs \ {d}
                                      /\ Become(t, [call[t] EXCEPT !.seen = @ \ {d}])
        BY <3>4 DEF PgFsckUnlink
      <4>2. call'[t].seen = call[t].seen \ {d} /\ call[t].pc = "fsck_unlink"
        BY <1>1, <3>4, <4>1 DEF Become, PgRecords, PgFsckUnlink
      <4>3. blobs \ call[t].seen \subseteq Counted /\ call[t].seen \cap Counted = {}
            /\ call'[t].pc # "fsck_list"
        BY <1>1, <4>1, <4>2 DEF RepairKnows, Become, PgRecords
      <4> QED BY <4>1, <4>2, <4>3
    <3> QED BY <1>5, <3>1, <3>2, <3>3, <3>4
  <2> QED BY <2>1, <2>3, <2>4 DEF RepairKnows
<1>6. ASSUME NEW t \in Threads, NEW op, NEW f, NEW c, NEW label, Begin(t, op, f, c, label),
             label \notin {"fsck_list", "fsck_unlink"}
      PROVE  RepairKnows'
  <2>1. call' = [call EXCEPT ![t] = call'[t]] /\ call'[t].pc = label
    BY <1>1, <1>6 DEF Begin, Become, Idle
  <2>2. UNCHANGED blobs /\ Counted' = Counted
    BY <1>6 DEF Begin, shared, Counted
  <2> QED BY <1>1, <1>6, <2>1, <2>2, RepairKnowsStill
<1>7. ASSUME NEW t \in Threads, BeginCall(t) PROVE RepairKnows'
  BY <1>6, <1>7 DEF BeginCall
<1>8. ASSUME NEW n \in Nodes, NodeCrash(n) PROVE RepairKnows'
  <2>1. UNCHANGED blobs /\ Counted' = Counted
    BY <1>8 DEF NodeCrash, shared, Counted
  <2> QED BY <1>1, <1>8, <2>1, RepairKnowsStill, PgIdle DEF NodeCrash
<1>9. ASSUME (\E n \in Nodes : OpenPostgres(n)) \/ Rest \/ UNCHANGED vars PROVE RepairKnows'
  <2>1. UNCHANGED <<blobs, counts, call>>
    BY <1>9 DEF OpenPostgres, Rest, vars, shared
  <2> QED BY <2>1, RepairKnowsStill DEF Counted
<1>10. ASSUME NEW t \in Threads, LostReply(t) PROVE RepairKnows'
  BY <1>3, <1>4, <1>10 DEF LostReply
<1>11. ASSUME NEW t \in Threads, PgStep(t) \/ PgFail(t) PROVE RepairKnows'
  <2>1. CASE PgStoreExists(t) \/ PgStorePut(t) \/ PgPeek(t) \/ CommitIngest(t)
    BY <1>3, <2>1
  <2>2. CASE PgDigests(t) \/ CommitDelete(t) \/ PgLookup(t) \/ PgFetch(t) \/ PgFail(t)
    BY <1>4, <2>2
  <2>3. CASE PgFsckLive(t) \/ PgFsckList(t) \/ PgFsckUnlink(t)
    BY <1>5, <2>3
  <2> QED BY <1>11, <2>1, <2>2, <2>3 DEF PgStep
<1> QED BY <1>7, <1>8, <1>9, <1>10, <1>11 DEF PgNext

LEMMA UnansweredStep ==
  ASSUME PgInv, Unanswered, [PgNext]_vars
  PROVE  Unanswered'
<1>1. call \in [Threads -> PgRecords]
  BY PgInvParts DEF PgCallsOK
<1>2. ASSUME UNCHANGED call PROVE Unanswered'
  BY <1>2 DEF Unanswered, Busy
<1>3. ASSUME NEW t \in Threads, PgStep(t) \/ PgFail(t) \/ LostReply(t)
      PROVE  Unanswered'
  BY <1>1, <1>3, PgStepsAlone DEF Unanswered, Busy
<1>4. ASSUME NEW n \in Nodes, NodeCrash(n) PROVE Unanswered'
  BY <1>1, <1>4, PgIdle DEF NodeCrash, Unanswered, Busy
<1>5. ASSUME NEW t \in Threads, NEW op, NEW f, NEW c, NEW label, Begin(t, op, f, c, label)
      PROVE  Unanswered'
  <2> DEFINE r == [Idle EXCEPT !.pc = label, !.op = op, !.file = f, !.new = c]
  <2>1. r.result = "none" /\ call' = [call EXCEPT ![t] = r]
    BY <1>5 DEF Idle, Begin, Become
  <2> HIDE DEF r
  <2> QED BY <1>1, <2>1 DEF Unanswered, Busy
<1>6. ASSUME NEW t \in Threads, BeginCall(t) PROVE Unanswered'
  BY <1>5, <1>6 DEF BeginCall
<1>7. ASSUME (\E n \in Nodes : OpenPostgres(n)) \/ Rest \/ UNCHANGED vars PROVE Unanswered'
  BY <1>2, <1>7 DEF OpenPostgres, Rest, vars
<1> QED BY <1>3, <1>4, <1>6, <1>7 DEF PgNext

LEMMA RepairStep ==
  ASSUME RepairAlone, RepairInv, [PgNext]_vars
  PROVE  RepairInv'
BY PgInvStep, ApartStep, RepairKnowsStep, UnansweredStep DEF RepairInv

LEMMA RepairInit == PgInit => RepairInv
BY PgInvInit, PgIdle DEF PgInit, RepairInv, Apart, Running, Busy, RepairKnows, Unanswered

LEMMA RepairedStep ==
  ASSUME RepairInv, PgNext, NEW t \in Threads, Repaired(t)
  PROVE  blobs' \subseteq Counted'
<1>1. PgInv /\ RepairKnows /\ call \in [Threads -> PgRecords] /\ PgWellFormed(call[t])
      /\ call[t] \in PgRecords
  BY PgInvParts DEF RepairInv, PgCallsOK
<1>2. /\ call[t].pc = "fsck_unlink" /\ Busy(t) /\ call[t].result = "none"
      /\ call'[t].result = "ok" /\ call'[t] # call[t]
  BY DEF Repaired, RepairInv, Unanswered, Busy
<1>3. PgStep(t) \/ PgFail(t) \/ LostReply(t)
  <2>1. ASSUME NEW u \in Threads, PgStep(u) \/ PgFail(u) \/ LostReply(u) PROVE u = t
    BY <1>1, <1>2, <2>1, PgStepsAlone
  <2>2. ASSUME NEW n \in Nodes, NodeCrash(n) PROVE FALSE
    BY <1>1, <1>2, <2>2 DEF NodeCrash, Idle
  <2>3. ASSUME NEW n \in Nodes, OpenPostgres(n) PROVE FALSE
    BY <1>2, <2>3 DEF OpenPostgres
  <2>4. ~Rest
    BY <1>2 DEF Rest, vars
  <2>5. ASSUME NEW u \in Threads, NEW op, NEW f, NEW c, NEW label, Begin(u, op, f, c, label)
        PROVE  FALSE
    BY <1>1, <1>2, <2>5 DEF Begin, Become, Idle
  <2>6. ASSUME NEW u \in Threads, BeginCall(u) PROVE FALSE
    BY <2>5, <2>6 DEF BeginCall
  <2> QED BY <2>1, <2>2, <2>3, <2>4, <2>6 DEF PgNext
<1>4. CASE Return(t, "err")
  BY <1>1, <1>2, <1>4 DEF Return, Become, Idle
<1>5. CASE PgFsckUnlink(t)
  <2>1. CASE \E d \in call[t].seen : Become(t, [call[t] EXCEPT !.seen = @ \ {d}])
    BY <1>1, <1>2, <2>1 DEF Become, PgRecords
  <2>2. CASE call[t].seen = {} /\ UNCHANGED blobs
    BY <1>1, <1>5, <2>2 DEF RepairKnows, PgFsckUnlink, Counted
  <2> QED BY <1>5, <2>1, <2>2 DEF PgFsckUnlink
<1> QED BY <1>2, <1>3, <1>4, <1>5 DEF PgStep, PgFail, LostReply, PgStoreExists, PgStorePut,
           PgPeek, CommitIngest, PgDigests, CommitDelete, PgLookup, PgFetch, PgFsckLive, PgFsckList

\* A fsck(repair) that ends well, on a backend that can list its keys, has left no
\* blob that nothing counts, provided nobody ingests meanwhile: what it listed is
\* still what it may remove, because deletes, which never bring a count to 0, take
\* no chunk out of the table.
THEOREM PgReclaims ==
  ASSUME RepairAlone
  PROVE  PgSpec => RepairReclaims
<1>1. PgInit => RepairInv
  BY RepairInit
<1>2. RepairInv /\ [PgNext]_vars => RepairInv'
  BY RepairStep
<1>3. RepairInv /\ [PgNext]_vars
        => [\A t \in Threads : Repaired(t) => blobs' \subseteq Counted']_vars
  BY RepairedStep
<1> QED BY <1>1, <1>2, <1>3, PTL DEF PgSpec, RepairReclaims
-------------------------------------------------------------------------------
(* Every file is readable                                                        *)

\* What a file refers to stays counted: a commit counts what it writes before it
\* releases what it replaces, and what is counted stays so.
LEMMA ReferencedStep ==
  ASSUME PgInv, ReferencedIsCounted, [PgNext]_vars
  PROVE  ReferencedIsCounted'
<1>1. TablesOK
  BY PgInvParts
<1>2. ASSUME UNCHANGED <<manifests, counts>> PROVE ReferencedIsCounted'
  BY <1>2 DEF ReferencedIsCounted, Counted
<1>3. ASSUME NEW t \in Threads, call[t].pc = "commit_ingest", IngestTransaction(t)
      PROVE  ReferencedIsCounted'
  <2> DEFINE c == call[t]
  <2>1. /\ c \in PgRecords /\ c.new \in Contents /\ c.file \in Files /\ Counted \subseteq Counted'
    BY <1>3, PgChunks, CountedByTransactions DEF PgWellFormed, IngestPcs
  <2>2. ASSUME NEW i \in DOMAIN c.new PROVE c.new[i] \in Counted'
    <3> DEFINE d == c.new[i]
    <3>1. d \in Digests /\ counts[d] \in Nat
      BY <1>1, <2>1, <2>2, PgAssumption DEF TablesOK
    <3>2. /\ Occurrences(c.new, d) \in Nat /\ Occurrences(c.old, d) \in Nat
          /\ Occurrences(c.new, d) # 0
      <4>1. /\ Occurrences(c.new, d) \in Nat /\ Occurrences(c.old, d) \in Nat
            /\ IsFiniteSet({j \in DOMAIN c.new : c.new[j] = d})
        BY <2>1, OccurrencesType DEF PgRecords
      <4>2. {j \in DOMAIN c.new : c.new[j] = d} # {}
        BY <2>2
      <4> QED BY <4>1, <4>2, FS_EmptySet DEF Occurrences
    <3>3. /\ counts'[d] = (counts[d] + Occurrences(c.new, d)) - Occurrences(c.old, d)
          /\ Occurrences(c.old, d) > 0 =>
               counts[d] + Occurrences(c.new, d) > Occurrences(c.old, d)
      BY <1>3, <3>1 DEF IngestTransaction, Debitable, Debited, Credited
    <3> HIDE DEF d
    <3>4. d \in Counted'
      BY <3>1, <3>2, <3>3 DEF Counted
    <3> QED BY <3>4 DEF d
  <2>3. manifests' = [manifests EXCEPT ![c.file] = c.new]
    BY <1>3 DEF IngestTransaction
  <2> QED BY <1>1, <2>1, <2>2, <2>3 DEF ReferencedIsCounted, TablesOK
<1>4. ASSUME NEW t \in Threads, call[t].pc = "commit_delete", DeleteTransaction(t)
      PROVE  ReferencedIsCounted'
  <2>1. Counted' = Counted /\ call[t].file \in Files
    BY <1>4, CountedByTransactions, PgChunks DEF PgWellFormed
  <2>2. manifests' = [manifests EXCEPT ![call[t].file] = None]
    BY <1>4 DEF DeleteTransaction
  <2> QED BY <1>1, <2>1, <2>2 DEF ReferencedIsCounted, TablesOK
<1>5. ASSUME NEW t \in Threads, PgStep(t) \/ PgFail(t) \/ LostReply(t)
      PROVE  ReferencedIsCounted'
  BY <1>2, <1>3, <1>4, <1>5 DEF PgStep, PgStoreExists, PgStorePut, PgPeek, CommitIngest, PgDigests,
     CommitDelete, PgLookup, PgFetch, PgFsckLive, PgFsckList, PgFsckUnlink, PgFail, LostReply, shared
<1>6. ASSUME ~ \E t \in Threads : PgStep(t) \/ PgFail(t) \/ LostReply(t)
      PROVE  ReferencedIsCounted'
  BY <1>2, <1>6 DEF PgNext, BeginCall, Begin, NodeCrash, OpenPostgres, Rest, vars, shared
<1> QED BY <1>5, <1>6

\* Stored chunks stay where they are while somebody ingests.
LEMMA StoredStep ==
  ASSUME PgInv, Apart, StoredSoFar, [PgNext]_vars
  PROVE  StoredSoFar'
<1>1. call \in [Threads -> PgRecords]
  BY PgInvParts DEF PgCallsOK
<1>2. ASSUME NEW u \in Threads, call[u].pc \in IngestPcs, call'[u] = call[u],
             blobs \subseteq blobs'
      PROVE  \A i \in 1 .. call'[u].done : call'[u].new[i] \in blobs'
  BY <1>2 DEF StoredSoFar
<1>3. ASSUME NEW t \in Threads, call' = [call EXCEPT ![t] = call'[t]], blobs \subseteq blobs',
             call'[t].pc \in IngestPcs =>
               \A i \in 1 .. call'[t].done : call'[t].new[i] \in blobs'
      PROVE  StoredSoFar'
  BY <1>1, <1>2, <1>3 DEF StoredSoFar
<1>4. ASSUME NEW t \in Threads, call[t].pc \in {"exists", "put"}, ChunkStored(t),
             blobs \subseteq blobs', Chunk(t) \in blobs'
      PROVE  StoredSoFar'
  <2>1. /\ call'[t].new = call[t].new /\ call'[t].done = call[t].done + 1
        /\ call' = [call EXCEPT ![t] = call'[t]]
    BY <1>1, <1>4, StoredType DEF Become
  <2>2. call[t].done \in Nat
    BY <1>1 DEF PgRecords
  <2>3. ASSUME NEW i \in 1 .. call'[t].done PROVE call'[t].new[i] \in blobs'
    <3>1. CASE i = call[t].done + 1
      BY <1>4, <2>1, <3>1 DEF Chunk
    <3>2. CASE i \in 1 .. call[t].done
      BY <1>4, <2>1, <3>2 DEF StoredSoFar, IngestPcs
    <3> QED BY <2>1, <2>2, <3>1, <3>2
  <2> QED BY <1>3, <1>4, <2>1, <2>3
<1>5. ASSUME NEW t \in Threads, PgStoreExists(t) PROVE StoredSoFar'
  <2>1. CASE Chunk(t) \in blobs
    BY <1>4, <1>5, <2>1 DEF PgStoreExists, shared
  <2>2. CASE Chunk(t) \notin blobs
    <3>1. /\ call'[t].new = call[t].new /\ call'[t].done = call[t].done
          /\ call' = [call EXCEPT ![t] = call'[t]] /\ call[t].pc \in IngestPcs
          /\ blobs' = blobs
      BY <1>1, <1>5, <2>2 DEF PgStoreExists, Goto, Become, PgRecords, IngestPcs, shared
    <3> QED BY <1>3, <3>1 DEF StoredSoFar
  <2> QED BY <2>1, <2>2
<1>6. ASSUME NEW t \in Threads, PgStorePut(t) PROVE StoredSoFar'
  BY <1>4, <1>6 DEF PgStorePut
<1>7. ASSUME NEW t \in Threads, PgPeek(t) PROVE StoredSoFar'
  <2>1. /\ call'[t].new = call[t].new /\ call'[t].done = call[t].done
        /\ call' = [call EXCEPT ![t] = call'[t]] /\ call[t].pc \in IngestPcs
        /\ blobs' = blobs
    BY <1>1, <1>7 DEF PgPeek, Become, PgRecords, IngestPcs, shared
  <2> QED BY <1>3, <2>1 DEF StoredSoFar
<1>8. ASSUME NEW t \in Threads, call' = [call EXCEPT ![t] = call'[t]], UNCHANGED blobs,
             call'[t].pc \notin IngestPcs
      PROVE  StoredSoFar'
  BY <1>3, <1>8
<1>9. ASSUME NEW t \in Threads, \E res \in {"ok", "err"} : Return(t, res), UNCHANGED blobs
      PROVE  StoredSoFar'
  BY <1>1, <1>8, <1>9, PgEnded DEF Become, IngestPcs
<1>10. ASSUME NEW t \in Threads, CommitIngest(t) \/ CommitDelete(t) \/ PgFail(t) \/ LostReply(t)
       PROVE  StoredSoFar'
  BY <1>9, <1>10 DEF CommitIngest, CommitDelete, PgFail, LostReply, shared
<1>11. ASSUME NEW t \in Threads, PgDigests(t) \/ PgLookup(t) \/ PgFetch(t) \/ PgFsckLive(t)
                                 \/ PgFsckList(t)
       PROVE  StoredSoFar'
  <2>1. UNCHANGED blobs
    BY <1>11 DEF PgDigests, PgLookup, PgFetch, PgFsckLive, PgFsckList, shared
  <2>2. CASE \E res \in {"ok", "err"} : Return(t, res)
    BY <1>9, <2>1, <2>2
  <2>3. CASE ~ \E res \in {"ok", "err"} : Return(t, res)
    <3>1. call' = [call EXCEPT ![t] = call'[t]] /\ call[t] \in PgRecords
      BY <1>1, <1>11, PgStepsAlone DEF PgStep
    <3>2. ASSUME NEW r, Become(t, r) PROVE call'[t] = r
      BY <1>1, <3>2 DEF Become
    <3>3. call'[t].pc \notin IngestPcs
      <4>1. CASE PgDigests(t) \/ PgLookup(t) \/ PgFetch(t)
        BY <2>3, <3>1, <3>2, <4>1 DEF PgDigests, PgLookup, PgFetch, PgRecords, IngestPcs
      <4>2. CASE PgFsckLive(t) \/ PgFsckList(t)
        <5>1. PICK label \in {"fsck_list", "fsck_unlink"}, s \in SUBSET Digests :
                Become(t, [call[t] EXCEPT !.pc = label, !.seen = s])
          BY <2>3, <4>2, PgInvParts DEF PgFsckLive, PgFsckList, TablesOK, Counted
        <5> QED BY <3>1, <3>2, <5>1 DEF PgRecords, IngestPcs
      <4> QED BY <1>11, <4>1, <4>2
    <3> QED BY <1>8, <2>1, <3>1, <3>3
  <2> QED BY <2>2, <2>3
<1>12. ASSUME NEW t \in Threads, PgFsckUnlink(t) PROVE StoredSoFar'
  <2>1. call[t].op = "repair" /\ Busy(t) /\ call' = [call EXCEPT ![t] = call'[t]]
        /\ call'[t].op = "repair"
    BY <1>12, PgStepsAlone, PgChunks DEF PgFsckUnlink, PgWellFormed, RepairPcs, PgStep
  <2>2. \A u \in Threads : call[u].pc \notin IngestPcs
    <3>1. \A u \in Threads : ~(Busy(u) /\ call[u].op = "ingest")
      BY <2>1 DEF Apart, Running
    <3> QED BY <3>1, PgChunks DEF PgWellFormed, IngestPcs, Busy
  <2>3. PgInv'
    BY <1>12, PgInvStep
  <2>4. call'[t].pc \notin IngestPcs
    BY <2>1, <2>3 DEF PgInv, PgWellFormed, IngestPcs
  <2> QED BY <1>1, <2>1, <2>2, <2>4 DEF StoredSoFar
<1>13. ASSUME NEW t \in Threads, NEW op, NEW f, NEW c, NEW label, Begin(t, op, f, c, label)
       PROVE  StoredSoFar'
  <2>1. call'[t].done = 0 /\ call' = [call EXCEPT ![t] = call'[t]] /\ UNCHANGED blobs
    BY <1>1, <1>13 DEF Begin, Become, Idle, shared
  <2>2. \A i \in 1 .. call'[t].done : call'[t].new[i] \in blobs'
    BY <2>1
  <2> QED BY <1>3, <2>1, <2>2
<1>14. ASSUME NEW t \in Threads, BeginCall(t) PROVE StoredSoFar'
  BY <1>13, <1>14 DEF BeginCall
<1>15. ASSUME NEW n \in Nodes, NodeCrash(n) PROVE StoredSoFar'
  BY <1>1, <1>15, PgIdle DEF NodeCrash, StoredSoFar, IngestPcs, shared
<1>16. ASSUME (\E n \in Nodes : OpenPostgres(n)) \/ Rest \/ UNCHANGED vars PROVE StoredSoFar'
  <2>1. UNCHANGED <<blobs, call>>
    BY <1>16 DEF OpenPostgres, Rest, vars, shared
  <2> QED BY <2>1 DEF StoredSoFar
<1> QED BY <1>5, <1>6, <1>7, <1>10, <1>11, <1>12, <1>14, <1>15, <1>16 DEF PgNext, PgStep

LEMMA FilesReadableStep ==
  ASSUME ReadableInv, [PgNext]_vars
  PROVE  PgFilesReadable'
<1>1. /\ PgInv /\ RepairKnows /\ ReferencedIsCounted /\ TablesOK /\ PgFilesReadable
      /\ call \in [Threads -> PgRecords]
  BY PgInvParts DEF ReadableInv, RepairInv, PgCallsOK
<1>2. ASSUME blobs \subseteq blobs', UNCHANGED manifests PROVE PgFilesReadable'
  BY <1>1, <1>2 DEF PgFilesReadable
<1>3. ASSUME NEW t \in Threads, PgFsckUnlink(t) PROVE PgFilesReadable'
  <2>1. ASSUME NEW f \in Files, manifests[f] # None, NEW i \in DOMAIN manifests[f]
        PROVE  manifests[f][i] \in blobs'
    <3>1. manifests[f][i] \in Counted /\ manifests[f][i] \in blobs
      BY <1>1, <2>1 DEF ReferencedIsCounted, PgFilesReadable
    <3>2. call[t].seen \cap Counted = {}
      BY <1>1, <1>3 DEF RepairKnows, PgFsckUnlink
    <3> QED BY <1>3, <3>1, <3>2 DEF PgFsckUnlink
  <2> QED BY <1>3, <2>1 DEF PgFilesReadable, PgFsckUnlink
<1>4. ASSUME NEW t \in Threads, UNCHANGED blobs,
             \/ call[t].pc = "commit_ingest" /\ IngestTransaction(t)
             \/ call[t].pc = "commit_delete" /\ DeleteTransaction(t)
      PROVE  PgFilesReadable'
  <2> DEFINE c == call[t]
  <2>1. c \in PgRecords /\ PgWellFormed(c)
    BY <1>1, PgChunks
  <2>2. CASE c.pc = "commit_ingest" /\ IngestTransaction(t)
    <3>1. /\ c.new \in Contents /\ c.done = Len(c.new) /\ c.file \in Files
          /\ DOMAIN c.new = 1 .. Len(c.new)
      BY <2>1, <2>2, PgAssumption DEF PgWellFormed, IngestPcs
    <3>2. \A i \in DOMAIN c.new : c.new[i] \in blobs
      BY <2>2, <3>1 DEF ReadableInv, StoredSoFar, IngestPcs
    <3> QED BY <1>1, <1>4, <2>2, <3>1, <3>2 DEF PgFilesReadable, IngestTransaction, TablesOK
  <2>3. CASE c.pc = "commit_delete" /\ DeleteTransaction(t)
    BY <1>1, <1>4, <2>1, <2>3 DEF PgFilesReadable, DeleteTransaction, TablesOK, PgWellFormed
  <2> QED BY <1>4, <2>2, <2>3
<1>5. ASSUME NEW t \in Threads, CommitIngest(t) \/ CommitDelete(t) \/ LostReply(t)
      PROVE  PgFilesReadable'
  BY <1>2, <1>4, <1>5 DEF CommitIngest, CommitDelete, LostReply
<1>6. ASSUME NEW t \in Threads,
             \/ PgStoreExists(t) \/ PgStorePut(t) \/ PgPeek(t) \/ PgDigests(t)
             \/ PgLookup(t) \/ PgFetch(t) \/ PgFsckLive(t) \/ PgFsckList(t) \/ PgFail(t)
      PROVE  PgFilesReadable'
  BY <1>2, <1>6 DEF PgStoreExists, PgStorePut, PgPeek, PgDigests, PgLookup, PgFetch, PgFsckLive,
                    PgFsckList, PgFail, shared
<1>7. ASSUME NEW t \in Threads, BeginCall(t) PROVE PgFilesReadable'
  BY <1>2, <1>7 DEF BeginCall, Begin, shared
<1>8. ASSUME (\E n \in Nodes : NodeCrash(n) \/ OpenPostgres(n)) \/ Rest \/ UNCHANGED vars
      PROVE  PgFilesReadable'
  BY <1>2, <1>8 DEF NodeCrash, OpenPostgres, Rest, vars, shared
<1> QED BY <1>3, <1>5, <1>6, <1>7, <1>8 DEF PgNext, PgStep

\* Every file in the database can be read from every node, provided nobody ingests
\* while fsck repairs: what fsck unlinks is not counted, and what a manifest refers
\* to is, even when two calls writing one file at once have spoilt the counts; what
\* a commit refers to was stored by the same call and has not been unlinked since.
THEOREM PgReadable ==
  ASSUME RepairAlone
  PROVE  PgSpec => []PgFilesReadable
<1>1. PgInit => ReadableInv
  <2> SUFFICES ASSUME PgInit PROVE ReadableInv
    OBVIOUS
  <2>1. StoredSoFar /\ ReferencedIsCounted /\ PgFilesReadable
    BY PgIdle DEF PgInit, StoredSoFar, ReferencedIsCounted, PgFilesReadable, IngestPcs
  <2> QED BY <2>1, RepairInit DEF ReadableInv
<1>2. ReadableInv /\ [PgNext]_vars => ReadableInv'
  BY RepairStep, StoredStep, ReferencedStep, FilesReadableStep DEF ReadableInv, RepairInv
<1>3. ReadableInv => PgFilesReadable
  BY DEF ReadableInv
<1> QED BY <1>1, <1>2, <1>3, PTL DEF PgSpec
===============================================================================
