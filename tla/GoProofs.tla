-------------------------------- MODULE GoProofs --------------------------------
(* Theorems about the Go binding for every number of goroutines, every set of    *)
(* files, contents and readers, every chunk size and every value of the bounds.  *)
EXTENDS GoProperties, SequenceTheorems, TLAPS

IngestOps     == {"ingest", "ingest_file", "ingest_reader"}
Buffers       == {"error", "digests", "bytes", "value"}
GoInputs      == Readers \cup {NoReader} \cup [blocks : Contents, end : {"eof"}]
RegisteredPcs == CorePcs \cup {"enter", "ok", "err", "unregister"}

-------------------------------------------------------------------------------
(* What is known of a call from the step it is at                               *)

GoWellFormed(c) ==
  /\ c.pc # "idle" => c.op \in Ops
  /\ c.op \in Ops \ {"stats"} => c.file \in Files
  /\ c.pc \in {"register", "unregister"} => Stream(c.op) # "none"
  /\ c.pc = "commit" => c.op = "ingest_reader"
  /\ c.pc = "write" => c.op = "read_to"
  /\ c.pc \notin {"idle", "unregister"} => c.result = "none"
  /\ c.pc # "err" => ~c.told
  /\ c.op = "read_to" /\ c.pc \in {"register", "enter", "core", "value"} => c.pos = 0
  /\ c.pc = "write" => c.pos <= Len(c.want)

\* How far an ingest and a read have come.
Unread(r)   == Pause \notin {r.blocks[i] : i \in DOMAIN r.blocks}
Whole(c)    == c.got = c.input.blocks /\ c.input.end # "error"
Cut         == 2 * HalfInt

IngestProgress(c) == Unread(c.input) =>
  /\ c.op # "ingest_reader" => c.input.end = "eof"
  /\ c.pc \in {"register", "enter"} => c.got = <<>> /\ c.held = <<>> /\ c.pos = 0
  /\ c.pc \in {"core", "value"} =>
       IF c.op = "ingest_reader"
         THEN /\ c.pos <= Len(c.input.blocks)
              /\ c.got \o c.held = SubSeq(c.input.blocks, 1, c.pos)
              /\ c.chunker = "fixed" => Len(c.held) < ChunkSize
         ELSE c.got = <<>> /\ c.held = <<>>
  /\ c.pc \in {"commit", "ok"} => Whole(c)
  /\ c.result = "ok" => Whole(c)

ReadProgress(c) ==
  /\ c.pc \in {"register", "enter", "core", "value"} => c.got = <<>> /\ c.pos = 0
  /\ c.pc = "write" => c.pos <= Len(c.want) /\ c.got = SubSeq(c.want, 1, c.pos)
  /\ c.pc = "ok" /\ c.op = "read_to" => c.got = c.want
  /\ c.result = "ok" /\ (c.op = "read_to" \/ Len(c.want) < Cut) => c.got = c.want

Progress(c) == /\ c.op \in IngestOps => IngestProgress(c)
               /\ c.op \in {"read", "read_to"} => ReadProgress(c)

CallsOK == /\ call \in [Goroutines -> GoRecords]
           /\ \A g \in Goroutines : GoWellFormed(call[g])

FilesOK == /\ files \in [Files -> Seq(Blocks) \cup {None}]
           /\ calls \in Nat

-------------------------------------------------------------------------------
(* What the handles rest on: the Store's handle and bridge change only while no  *)
(* call is in progress, so that a call inside C has the handle of the Store.     *)

HandlesFit ==
  /\ store \in [handle : 0 .. MaxOpens, bridge : 0 .. MaxOpens]
  /\ userdata \in Seq(0 .. MaxOpens) /\ Len(userdata) <= MaxOpens
  /\ alive \subseteq DOMAIN userdata
  /\ bridgeSeq \in 0 .. MaxOpens /\ bridges \subseteq 1 .. bridgeSeq
  /\ store.handle # 0 => /\ store.handle \in alive
                         /\ userdata[store.handle] = store.bridge
                         /\ store.bridge \in bridges \cup {0}

HandlesOK == 
  /\ HandlesFit
  /\ \A g \in Goroutines :
       call[g].pc \in CorePcs => store.handle # 0 /\ call[g].handle = store.handle

-------------------------------------------------------------------------------
(* What the callbacks rest on: the registries hold one entry for each call that  *)
(* is between its registration and its return, under the id the call has.        *)

Registered(c, k) == Stream(c.op) = k /\ c.pc \in RegisteredPcs

StreamsOK ==
  /\ seq \in [Streams -> Nat]
  /\ streams = [k \in Streams |-> streams[k]]
  /\ \A k \in Streams : /\ streams[k] \in [DOMAIN streams[k] -> Goroutines]
                        /\ DOMAIN streams[k] \subseteq 1 .. seq[k]
  /\ \A k \in Streams : \A g \in Goroutines : Registered(call[g], k) =>
       call[g].id \in DOMAIN streams[k] /\ streams[k][call[g].id] = g
  /\ \A k \in Streams : \A i \in DOMAIN streams[k] :
       Registered(call[streams[k][i]], k) /\ call[streams[k][i]].id = i

-------------------------------------------------------------------------------
(* What the buffers rest on: Rust has a buffer for a call exactly while the call *)
(* is at the step that frees it.                                                 *)

Owed(c, kind) ==
  \/ kind = "value" /\ c.pc = "value"
  \/ kind = "error" /\ c.pc = "err" /\ c.told
  \/ kind = "digests" /\ c.pc = "ok" /\ c.op \in IngestOps
  \/ kind = "bytes" /\ c.pc = "ok" /\ c.op = "read" /\ c.want # <<>>

HeapOK == /\ heap \subseteq Goroutines \X Buffers
          /\ \A g \in Goroutines, kind \in Buffers :
               <<g, kind>> \in heap <=> Owed(call[g], kind)

GoInv == CallsOK /\ FilesOK /\ HandlesOK /\ StreamsOK /\ HeapOK

ProgressInv == GoInv /\ \A g \in Goroutines : Progress(call[g])

-------------------------------------------------------------------------------
(* What the chunker does with the bytes it is given                              *)

LEMMA BlocksJoined ==
  \A x, y, z \in Seq(Blocks) : (x \o y) \o z = x \o (y \o z)
BY ConcatAssociative

LEMMA Quotient ==
  ASSUME NEW n \in Nat, NEW k \in Nat \ {0}
  PROVE  k * (n \div k) \in 0 .. n /\ n - k * (n \div k) < k
<1>1. n = k * (n \div k) + (n % k)
  OBVIOUS
<1>2. n % k \in 0 .. k - 1 /\ n \div k \in Nat
  OBVIOUS
<1>3. k * (n \div k) \in Nat
  BY <1>2
<1> DEFINE full == k * (n \div k)
<1>4. full \in Nat /\ n = full + (n % k)
  BY <1>1, <1>3
<1> HIDE DEF full
<1>5. full \in 0 .. n /\ n - full < k
  BY <1>2, <1>4
<1> QED BY <1>5 DEF full

\* Cutting a sequence in two loses nothing.
LEMMA SplitSeq ==
  ASSUME NEW s \in Seq(Blocks), NEW k \in 0 .. Len(s)
  PROVE  /\ SubSeq(s, 1, k) \in Seq(Blocks) /\ SubSeq(s, k + 1, Len(s)) \in Seq(Blocks)
         /\ Len(SubSeq(s, 1, k)) = k /\ Len(SubSeq(s, k + 1, Len(s))) = Len(s) - k
         /\ SubSeq(s, 1, k) \o SubSeq(s, k + 1, Len(s)) = s
<1>1. Len(s) \in Nat /\ \A i \in 1 .. Len(s) : s[i] \in Blocks
  OBVIOUS
<1>2. SubSeq(s, 1, k) \in Seq(Blocks) /\ Len(SubSeq(s, 1, k)) = k
  BY <1>1, SubSeqProperties
<1>3. SubSeq(s, k + 1, Len(s)) \in Seq(Blocks) /\ Len(SubSeq(s, k + 1, Len(s))) = Len(s) - k
  BY <1>1, SubSeqProperties
<1>4. SubSeq(s, 1, k) \o SubSeq(s, k + 1, Len(s)) = SubSeq(s, 1, Len(s))
  <2>1. 1 \in 1 .. Len(s) + 1 /\ k \in 1 - 1 .. Len(s) /\ Len(s) \in k .. Len(s)
    BY <1>1
  <2> QED BY <2>1, ConcatAdjacentSubSeq
<1> QED BY <1>2, <1>3, <1>4, SubSeqFull

\* What is fed to a chunker is handed on or held, in order; a fixed chunker holds
\* less than a chunk.
LEMMA Feeding ==
  ASSUME NEW c \in GoRecords, NEW data \in Seq(Blocks), NEW r, r = Fed(c, data)
  PROVE  /\ r.got \in Seq(Blocks) /\ r.held \in Seq(Blocks)
         /\ r = [c EXCEPT !.got = r.got, !.held = r.held]
         /\ r.got \o r.held = c.got \o (c.held \o data)
         /\ c.chunker = "fixed" => Len(r.held) < ChunkSize
<1> DEFINE all == c.held \o data
           full == ChunkSize * (Len(all) \div ChunkSize)
           holding == [c EXCEPT !.held = all]
<1>1. c.held \in Seq(Blocks) /\ c.got \in Seq(Blocks)
  BY DEF GoRecords
<1>2. all \in Seq(Blocks) /\ Len(all) \in Nat
  BY <1>1, ConcatProperties
<1>3. full \in 0 .. Len(all) /\ Len(all) - full < ChunkSize
  BY <1>2, Quotient, GoAssumption
<1>4. holding = [c EXCEPT !.held = all] /\ holding.held = all /\ holding.got = c.got
      /\ holding.chunker = c.chunker
      /\ holding.held = c.held \o data
  BY DEF GoRecords
<1>5. CASE c.chunker = "fixed"
  <2> DEFINE a == SubSeq(all, 1, full)
             b == SubSeq(all, full + 1, Len(all))
  <2>1. r = [holding EXCEPT !.got = c.got \o a, !.held = b]
    BY <1>4, <1>5 DEF Fed, FixedFeed
  <2> HIDE DEF full
  <2>2. a \in Seq(Blocks) /\ b \in Seq(Blocks) /\ Len(b) = Len(all) - full /\ a \o b = all
    BY <1>2, <1>3, SplitSeq
  <2> HIDE DEF a, b, all
  <2>3. r = [c EXCEPT !.got = c.got \o a, !.held = b]
    BY <2>1 DEF GoRecords
  <2>4. c.got \o a \in Seq(Blocks) /\ (c.got \o a) \o b = c.got \o (a \o b)
    <3>1. c.got \in Seq(Blocks) /\ a \in Seq(Blocks) /\ b \in Seq(Blocks)
      BY <1>1, <2>2
    <3>2. c.got \o a \in Seq(Blocks)
      BY <3>1, ConcatProperties
    <3>3. (c.got \o a) \o b = c.got \o (a \o b)
      BY <3>1, BlocksJoined
    <3> QED BY <3>2, <3>3
  <2>5. r.got = c.got \o a /\ r.held = b
    BY <2>3 DEF GoRecords
  <2> QED BY <1>3, <2>2, <2>3, <2>4, <2>5 DEF all
<1>6. CASE c.chunker # "fixed"
  <2> HIDE DEF all
  <2>1. r = [c EXCEPT !.held = all]
    BY <1>4, <1>6 DEF Fed, CdcFeed, all
  <2>2. r.got = c.got /\ r.held = all /\ r = [c EXCEPT !.got = r.got, !.held = r.held]
    BY <2>1 DEF GoRecords
  <2> QED BY <1>1, <1>2, <1>6, <2>2 DEF all
<1> QED BY <1>5, <1>6

LEMMA Finishing ==
  ASSUME NEW c \in GoRecords
  PROVE  /\ Finished(c) = [c EXCEPT !.got = c.got \o c.held, !.held = <<>>]
         /\ Finished(c).got = c.got \o c.held /\ Finished(c).held = <<>>
         /\ c.got \o c.held \in Seq(Blocks)
         /\ Finished(c) \in GoRecords
<1>1. c.held \in Seq(Blocks) /\ c.got \in Seq(Blocks)
  BY DEF GoRecords
<1>2. c.got \o c.held \in Seq(Blocks)
  BY <1>1, ConcatProperties
<1> DEFINE all == c.got \o c.held
<1>3. Finished(c) = [c EXCEPT !.got = all, !.held = <<>>]
  BY DEF Finished
<1> HIDE DEF all
<1>4. <<>> \in Seq(Blocks)
  BY EmptySeq
<1>5. Finished(c).got = all /\ Finished(c).held = <<>> /\ Finished(c) \in GoRecords
  BY <1>2, <1>3, <1>4 DEF GoRecords, all
<1> QED BY <1>2, <1>3, <1>5 DEF all

\* C.int of a length below 2^32 is the length, or negative.
LEMMA Lengths ==
  ASSUME NEW n \in Nat, n < Cut
  PROVE  CInt(n) = n \/ CInt(n) < 0
<1>1. HalfInt \in Nat /\ HalfInt > 0 /\ Cut \in Nat /\ Cut > 0
  BY GoAssumption DEF Cut
<1>2. CASE n < HalfInt
  <2>1. n + HalfInt \in 0 .. Cut - 1
    BY <1>1, <1>2 DEF Cut
  <2>2. (n + HalfInt) % Cut = n + HalfInt
    BY <1>1, <2>1
  <2> QED BY <1>1, <2>2 DEF CInt, Cut
<1>3. CASE n >= HalfInt
  <2> DEFINE m == n - HalfInt
  <2>1. m \in 0 .. HalfInt - 1 /\ n + HalfInt = m + Cut
    BY <1>1, <1>3 DEF Cut
  <2>2. (m + Cut) % Cut = m
    <3>1. m \in 0 .. Cut - 1
      BY <1>1, <2>1 DEF Cut
    <3> QED BY <1>1, <3>1
  <2> QED BY <1>1, <2>1, <2>2 DEF CInt, Cut
<1> QED BY <1>1, <1>2, <1>3

-------------------------------------------------------------------------------
(* Steps of one call that change nothing but the call, its buffers and the files *)

LEMMA IntBounds ==
  ASSUME NEW n \in Nat
  PROVE  CInt(n) \in Int /\ CInt(n) <= n
<1>1. HalfInt \in Nat /\ Cut \in Nat \ {0} /\ n + HalfInt \in Nat
  BY GoAssumption DEF Cut
<1>2. (n + HalfInt) % Cut \in Nat /\ (n + HalfInt) % Cut <= n + HalfInt
  <2> DEFINE m == n + HalfInt
  <2>1. Cut * (m \div Cut) \in 0 .. m
    BY <1>1, Quotient
  <2>2. m = Cut * (m \div Cut) + (m % Cut) /\ m % Cut \in 0 .. Cut - 1
    BY <1>1
  <2> QED BY <1>1, <2>1, <2>2
<1> QED BY <1>1, <1>2 DEF CInt, Cut

LEMMA StreamOf ==
  /\ \A op \in Ops \cup {"none"} : Stream(op) \in Streams \cup {"none"}
  /\ Stream("ingest_reader") = "reader" /\ Stream("read_to") = "writer"
  /\ \A op \in {"none", "ingest", "ingest_file", "read", "delete", "stats"} :
       Stream(op) = "none"
BY DEF Stream, Streams, Ops

LEMMA GoIdle ==
  /\ Idle \in GoRecords /\ Idle.pc = "idle" /\ Idle.op = "none" /\ Idle.result = "none"
  /\ Idle.got = <<>> /\ Idle.held = <<>> /\ Idle.pos = 0 /\ Idle.told = FALSE
  /\ Idle.want = <<>> /\ Idle.handle = 0 /\ Idle.id = 0
  /\ GoWellFormed(Idle)
<1>1. <<>> \in Seq(Blocks) /\ 0 \in 0 .. MaxOpens /\ 0 \in Nat
  BY EmptySeq, GoAssumption
<1>2. NoReader \in Readers \cup {NoReader} \cup [blocks : Contents, end : {"eof"}]
  OBVIOUS
<1> HIDE DEF NoReader
<1>3. Idle \in GoRecords
  BY <1>1, <1>2 DEF Idle, GoRecords, Pcs, Chunkers
<1> QED BY <1>3 DEF Idle, GoWellFormed, Ops

\* The call of g becomes r; the buffers are those that r has to free.
Moves(g, r) ==
  /\ r \in GoRecords /\ GoWellFormed(r) /\ Become(g, r)
  /\ r.op = call[g].op /\ r.id = call[g].id
  /\ r.pc \in CorePcs => store.handle # 0 /\ r.handle = store.handle
  /\ Stream(r.op) # "none" => call[g].pc \in RegisteredPcs /\ r.pc \in RegisteredPcs
  /\ Progress(call[g]) => Progress(r)

Rebuffers(g, r) ==
  /\ heap' \subseteq Goroutines \X Buffers
  /\ \A kind \in Buffers : <<g, kind>> \in heap' <=> Owed(r, kind)
  /\ \A u \in Goroutines \ {g}, kind \in Buffers : <<u, kind>> \in heap' <=> <<u, kind>> \in heap

\* What a step keeps.
Kept == /\ GoInv'
        /\ (\A u \in Goroutines : Progress(call[u])) => (\A u \in Goroutines : Progress(call'[u]))

LEMMA GoMoves ==
  ASSUME GoInv, NEW g \in Goroutines, NEW r, Moves(g, r), Rebuffers(g, r),
         UNCHANGED <<handles, registries>>, FilesOK'
  PROVE  Kept
<1>1. call \in [Goroutines -> GoRecords] /\ call' = [call EXCEPT ![g] = r]
  BY DEF GoInv, CallsOK, Moves, Become
<1>2. CallsOK'
  BY <1>1 DEF GoInv, CallsOK, Moves
<1>3. HandlesOK'
  BY <1>1 DEF GoInv, HandlesOK, HandlesFit, Moves, handles, registries
<1>4. StreamsOK'
  <2>1. UNCHANGED <<streams, seq>>
    BY DEF registries
  <2>2. \A k \in Streams, u \in Goroutines :
          /\ Registered(call'[u], k) <=> Registered(call[u], k)
          /\ call'[u].id = call[u].id
    BY <1>1, StreamOf DEF Registered, Moves, Streams
  <2> QED BY <2>1, <2>2 DEF GoInv, StreamsOK
<1>5. HeapOK'
  <2>1. ASSUME NEW u \in Goroutines, NEW kind \in Buffers
        PROVE  <<u, kind>> \in heap' <=> Owed(call'[u], kind)
    <3>1. CASE u = g
      BY <1>1, <3>1 DEF Rebuffers
    <3>2. CASE u # g
      BY <1>1, <3>2 DEF Rebuffers, GoInv, HeapOK
    <3> QED BY <3>1, <3>2
  <2> QED BY <2>1 DEF HeapOK, Rebuffers
<1>6. (\A u \in Goroutines : Progress(call[u])) => (\A u \in Goroutines : Progress(call'[u]))
  BY <1>1 DEF Moves
<1> QED BY <1>2, <1>3, <1>4, <1>5, <1>6 DEF GoInv, Kept

LEMMA SameBuffers ==
  ASSUME HeapOK, NEW g \in Goroutines, NEW r, heap' = heap,
         \A kind \in Buffers : Owed(r, kind) <=> Owed(call[g], kind)
  PROVE  Rebuffers(g, r)
BY DEF HeapOK, Rebuffers

LEMMA OneBuffer ==
  ASSUME HeapOK, NEW g \in Goroutines, NEW r, NEW b \in Buffers, heap' = heap \cup {<<g, b>>},
         \A kind \in Buffers : Owed(r, kind) <=> kind = b \/ Owed(call[g], kind)
  PROVE  Rebuffers(g, r)
BY DEF HeapOK, Rebuffers

LEMMA BufferFreed ==
  ASSUME HeapOK, NEW g \in Goroutines, NEW r, NEW b \in Buffers, heap' = Freed(g, b),
         \A kind \in Buffers : Owed(r, kind) <=> kind # b /\ Owed(call[g], kind)
  PROVE  Rebuffers(g, r)
BY DEF HeapOK, Rebuffers, Freed

LEMMA GoCall ==
  ASSUME GoInv, NEW g \in Goroutines
  PROVE  /\ call[g] \in GoRecords /\ GoWellFormed(call[g]) /\ HeapOK /\ FilesOK
         /\ call[g].pc \in CorePcs => store.handle # 0 /\ call[g].handle = store.handle
         /\ call[g].input.blocks \in Seq(Blocks)
         /\ call[g].got \in Seq(Blocks) /\ call[g].held \in Seq(Blocks)
         /\ call[g].want \in Seq(Blocks) /\ call[g].pos \in Nat
<1>1. call[g] \in GoRecords /\ GoWellFormed(call[g])
  BY DEF GoInv, CallsOK
<1>2. call[g].input.blocks \in Seq(Blocks)
  <2>1. call[g].input \in Readers \cup {NoReader} \cup [blocks : Contents, end : {"eof"}]
    BY <1>1 DEF GoRecords
  <2>2. NoReader.blocks \in Seq(Blocks)
    BY EmptySeq DEF NoReader
  <2> QED BY <2>1, <2>2, GoAssumption
<1> QED BY <1>1, <1>2 DEF GoInv, HandlesOK, HandlesFit, GoRecords

LEMMA ErrorMoves ==
  ASSUME GoInv, NEW g \in Goroutines, ErrorTold(g),
         call[g].pc \in {"enter", "core", "commit", "write"},
         UNCHANGED <<handles, registries>>, FilesOK'
  PROVE  Kept
<1> DEFINE c == call[g]
           r == [c EXCEPT !.pc = "err", !.told = TRUE]
<1>1. c \in GoRecords /\ GoWellFormed(c) /\ HeapOK
  BY GoCall
<1>2. /\ r \in GoRecords /\ r = [c EXCEPT !.pc = "err", !.told = TRUE] /\ r.pc = "err" /\ r.told
      /\ r.op = c.op /\ r.id = c.id /\ r.file = c.file /\ r.input = c.input /\ r.result = "none"
  BY <1>1 DEF GoRecords, Pcs, GoWellFormed
<1>3. Become(g, r) /\ heap' = heap \cup {<<g, "error">>}
  BY DEF ErrorTold
<1> HIDE DEF r
<1>4. GoWellFormed(r)
  BY <1>1, <1>2 DEF GoWellFormed
<1>5. Progress(c) => Progress(r)
  BY <1>2 DEF Progress, IngestProgress, ReadProgress
<1>6. Moves(g, r)
  BY <1>1, <1>2, <1>3, <1>4, <1>5 DEF Moves, CorePcs, RegisteredPcs
<1>7. Rebuffers(g, r)
  <2>1. \A kind \in Buffers : Owed(r, kind) <=> kind = "error" \/ Owed(c, kind)
    BY <1>2 DEF Owed
  <2> QED BY <1>1, <1>3, <2>1, OneBuffer DEF Buffers
<1> QED BY <1>6, <1>7, GoMoves

LEMMA EnterStep ==
  ASSUME GoInv, NEW g \in Goroutines, Enter(g)
  PROVE  Kept
<1> DEFINE c == call[g]
<1>1. c \in GoRecords /\ GoWellFormed(c) /\ HeapOK /\ c.pc = "enter"
  BY GoCall DEF Enter
<1>2. UNCHANGED <<handles, registries>> /\ FilesOK'
  BY GoCall DEF Enter, FilesOK
<1>3. CASE store.handle = 0
  <2> DEFINE r == [c EXCEPT !.pc = "err"]
  <2>1. /\ r \in GoRecords /\ r.pc = "err" /\ r.told = c.told /\ r.op = c.op /\ r.id = c.id
        /\ r.file = c.file /\ r.input = c.input /\ r.result = c.result
    BY <1>1 DEF GoRecords, Pcs
  <2>2. Become(g, r) /\ heap' = heap
    BY <1>3 DEF Enter, Goto
  <2> HIDE DEF r
  <2>3. GoWellFormed(r) /\ (Progress(c) => Progress(r))
    BY <1>1, <2>1 DEF GoWellFormed, Progress, IngestProgress, ReadProgress
  <2>4. Rebuffers(g, r)
    <3>1. \A kind \in Buffers : Owed(r, kind) <=> Owed(c, kind)
      BY <1>1, <2>1 DEF Owed, GoWellFormed
    <3> QED BY <1>1, <2>2, <3>1, SameBuffers
  <2>5. Moves(g, r)
    BY <1>1, <2>1, <2>2, <2>3 DEF Moves, CorePcs, RegisteredPcs
  <2> QED BY <1>2, <2>4, <2>5, GoMoves
<1>4. CASE store.handle # 0 /\ c.file \in BadIds
  BY <1>1, <1>2, <1>4, ErrorMoves DEF Enter
<1>5. CASE store.handle # 0 /\ c.file \notin BadIds
  <2> DEFINE h == store.handle
             r == [c EXCEPT !.pc = "core", !.handle = h]
  <2>1. h \in 0 .. MaxOpens
    BY DEF GoInv, HandlesOK, HandlesFit
  <2>2. Become(g, r) /\ heap' = heap
    BY <1>5 DEF Enter
  <2> HIDE DEF h
  <2>3. /\ r \in GoRecords /\ r.pc = "core" /\ r.told = c.told /\ r.op = c.op /\ r.id = c.id
        /\ r.file = c.file /\ r.input = c.input /\ r.result = c.result /\ r.handle = h
        /\ r.got = c.got /\ r.held = c.held /\ r.pos = c.pos /\ r.want = c.want
        /\ r.chunker = c.chunker
    BY <1>1, <2>1 DEF GoRecords, Pcs
  <2> HIDE DEF r
  <2>4. GoWellFormed(r)
    BY <1>1, <2>3 DEF GoWellFormed
  <2>5. Progress(c) => Progress(r)
    <3> SUFFICES ASSUME Progress(c) PROVE Progress(r)
      OBVIOUS
    <3>1. ASSUME c.op \in IngestOps PROVE IngestProgress(r)
      <4> SUFFICES ASSUME Unread(c.input) PROVE IngestProgress(r)
        BY <2>3 DEF IngestProgress
      <4>1. c.got = <<>> /\ c.held = <<>> /\ c.pos = 0 /\ c.result = "none"
        BY <1>1, <3>1 DEF Progress, IngestProgress, GoWellFormed
      <4>2. <<>> \o <<>> = <<>> /\ SubSeq(c.input.blocks, 1, 0) = <<>> /\ Len(<<>>) = 0
        BY SubSeqEmpty, 1 \in Int, 0 \in Int, 0 < 1
      <4>3. Len(c.input.blocks) \in Nat
        BY GoCall
      <4> QED BY <1>1, <2>3, <3>1, <4>1, <4>2, <4>3, GoAssumption DEF Progress, IngestProgress
    <3>2. ASSUME c.op \in {"read", "read_to"} PROVE ReadProgress(r)
      BY <1>1, <2>3, <3>2 DEF Progress, ReadProgress, GoWellFormed
    <3> QED BY <2>3, <3>1, <3>2 DEF Progress
  <2>6. Rebuffers(g, r)
    <3>1. \A kind \in Buffers : Owed(r, kind) <=> Owed(c, kind)
      BY <1>1, <2>3 DEF Owed, GoWellFormed
    <3> QED BY <1>1, <2>2, <3>1, SameBuffers
  <2>7. Moves(g, r)
    BY <1>1, <1>5, <2>2, <2>3, <2>4, <2>5 DEF Moves, CorePcs, RegisteredPcs, h
  <2> QED BY <1>2, <2>6, <2>7, GoMoves
<1> QED BY <1>3, <1>4, <1>5

LEMMA FilesAfterType ==
  ASSUME GoInv, NEW g \in Goroutines
  PROVE  FilesAfter(g) \in [Files -> Seq(Blocks) \cup {None}]
<1> DEFINE c == call[g]
           fed == Fed(c, c.input.blocks)
<1>1. c \in GoRecords /\ c.input.blocks \in Seq(Blocks) /\ files \in [Files -> Seq(Blocks) \cup {None}]
      /\ c.got \in Seq(Blocks)
  BY GoCall DEF FilesOK
<1>2. Finished(fed).got \in Seq(Blocks)
  <2>1. fed = Fed(c, c.input.blocks)
    OBVIOUS
  <2> HIDE DEF fed
  <2>2. fed.got \in Seq(Blocks) /\ fed.held \in Seq(Blocks)
        /\ fed = [c EXCEPT !.got = fed.got, !.held = fed.held]
    BY <1>1, <2>1, Feeding
  <2>3. fed \in GoRecords
    BY <1>1, <2>2 DEF GoRecords
  <2> QED BY <2>3, Finishing
<1> QED BY <1>1, <1>2 DEF FilesAfter

LEMMA CoreFailsStep ==
  ASSUME GoInv, NEW g \in Goroutines, CoreFails(g)
  PROVE  Kept
<1>1. FilesOK'
  BY FilesAfterType, GoCall DEF CoreFails, FilesOK
<1> QED BY <1>1, ErrorMoves DEF CoreFails

\* A step that only moves the call on to the next label.
LEMMA LabelMoves ==
  ASSUME GoInv, NEW g \in Goroutines, NEW r, NEW label \in RegisteredPcs,
         r = [call[g] EXCEPT !.pc = label], Become(g, r),
         call[g].pc \in RegisteredPcs, label \in CorePcs => call[g].pc \in CorePcs,
         GoWellFormed(r), Progress(call[g]) => Progress(r)
  PROVE  Moves(g, r)
<1> DEFINE c == call[g]
<1>1. c \in GoRecords /\ (c.pc \in CorePcs => store.handle # 0 /\ c.handle = store.handle)
  BY GoCall
<1>2. r \in GoRecords /\ r.pc = label /\ r.op = c.op /\ r.id = c.id /\ r.handle = c.handle
  BY <1>1 DEF GoRecords, Pcs, RegisteredPcs, CorePcs
<1> QED BY <1>1, <1>2 DEF Moves

LEMMA BackendStep ==
  ASSUME GoInv, NEW g \in Goroutines, BackendGet(g) \/ BackendGot(g)
  PROVE  Kept
<1> DEFINE c == call[g]
           label == IF c.pc = "core" THEN "value" ELSE "core"
           r == [c EXCEPT !.pc = label]
<1>1. c \in GoRecords /\ GoWellFormed(c) /\ HeapOK /\ c.pc \in {"core", "value"}
  BY GoCall DEF BackendGet, BackendGot
<1>2. UNCHANGED <<handles, registries>> /\ FilesOK'
  BY GoCall DEF BackendGet, BackendGot, FilesOK
<1>3. Become(g, r)
  BY DEF BackendGet, BackendGot, Goto
<1>4. /\ r = [c EXCEPT !.pc = label] /\ r.pc = label /\ r.told = c.told /\ r.op = c.op /\ r.id = c.id
      /\ r.file = c.file /\ r.input = c.input /\ r.result = c.result
      /\ r.got = c.got /\ r.held = c.held /\ r.pos = c.pos /\ r.want = c.want
      /\ r.chunker = c.chunker
  BY <1>1 DEF GoRecords
<1>5. label \in {"core", "value"} /\ label # c.pc
  BY <1>1
<1> HIDE DEF r, label
<1>6. GoWellFormed(r) /\ (Progress(c) => Progress(r))
  <2>1. GoWellFormed(r)
    BY <1>1, <1>4, <1>5 DEF GoWellFormed
  <2>2. Progress(c) => Progress(r)
    <3>1. IngestProgress(c) => IngestProgress(r)
      BY <1>1, <1>4, <1>5 DEF GoWellFormed, IngestProgress
    <3>2. ReadProgress(c) => ReadProgress(r)
      BY <1>1, <1>4, <1>5 DEF GoWellFormed, ReadProgress
    <3> QED BY <1>4, <3>1, <3>2 DEF Progress
  <2> QED BY <2>1, <2>2
<1>7. Moves(g, r)
  BY <1>1, <1>3, <1>4, <1>5, <1>6, LabelMoves DEF RegisteredPcs, CorePcs
<1>8. Rebuffers(g, r)
  <2>1. CASE c.pc = "core"
    <3>1. \A kind \in Buffers : Owed(r, kind) <=> kind = "value" \/ Owed(c, kind)
      BY <1>1, <1>4, <1>5, <2>1 DEF Owed
    <3>2. heap' = heap \cup {<<g, "value">>}
      BY <2>1 DEF BackendGet, BackendGot
    <3> QED BY <1>1, <3>1, <3>2, OneBuffer DEF Buffers
  <2>2. CASE c.pc = "value"
    <3>1. \A kind \in Buffers : Owed(r, kind) <=> kind # "value" /\ Owed(c, kind)
      BY <1>1, <1>4, <1>5, <2>2 DEF Owed
    <3>2. heap' = Freed(g, "value")
      BY <2>2 DEF BackendGet, BackendGot
    <3> QED BY <1>1, <3>1, <3>2, BufferFreed DEF Buffers
  <2> QED BY <1>1, <2>1, <2>2
<1> QED BY <1>2, <1>7, <1>8, GoMoves

\* A callback finds its own call.
LEMMA OwnStream ==
  ASSUME GoInv, NEW g \in Goroutines, NEW k \in Streams, Stream(call[g].op) = k,
         call[g].pc \in RegisteredPcs
  PROVE  call[g].id \in DOMAIN streams[k] /\ streams[k][call[g].id] = g
BY DEF GoInv, StreamsOK, Registered

LEMMA ReadCallbackStep ==
  ASSUME GoInv, NEW g \in Goroutines, ReadCallback(g)
  PROVE  Kept
<1> DEFINE c == call[g]
           bs == c.input.blocks
           x == ReadOf(c.input, c.pos)
<1>1. /\ c \in GoRecords /\ GoWellFormed(c) /\ HeapOK /\ c.pc = "core" /\ c.op = "ingest_reader"
      /\ bs \in Seq(Blocks) /\ c.pos \in Nat /\ c.got \in Seq(Blocks) /\ c.held \in Seq(Blocks)
      /\ c.result = "none" /\ call \in [Goroutines -> GoRecords]
  BY GoCall DEF ReadCallback, GoWellFormed, GoInv, CallsOK
<1>2. UNCHANGED <<handles, registries>> /\ FilesOK'
  BY GoCall DEF ReadCallback, FilesOK
<1>3. c.id \in DOMAIN streams["reader"] /\ streams["reader"][c.id] = g
  BY <1>1, OwnStream, StreamOf DEF RegisteredPcs, CorePcs, Streams
<1>4. Len(bs) \in Nat
  BY <1>1
<1>5. CASE x.err = "other"
  BY <1>1, <1>2, <1>3, <1>5, ErrorMoves DEF ReadCallback
<1>6. CASE x.err # "other" /\ OutLen(x) = 0
  <2> DEFINE fin == Finished(c)
             all == c.got \o c.held
             r == [fin EXCEPT !.pc = "commit"]
  <2>1. heap' = heap /\ Become(g, r)
    BY <1>1, <1>3, <1>6 DEF ReadCallback, Become
  <2>2. fin = [c EXCEPT !.got = all, !.held = <<>>] /\ all \in Seq(Blocks) /\ fin \in GoRecords
    BY <1>1, Finishing
  <2> HIDE DEF fin, all
  <2>3. /\ r \in GoRecords /\ r.pc = "commit" /\ r.told = c.told /\ r.op = c.op /\ r.id = c.id
        /\ r.file = c.file /\ r.input = c.input /\ r.result = c.result /\ r.handle = c.handle
        /\ r.got = all /\ r.held = <<>> /\ r.want = c.want /\ r.chunker = c.chunker
    <3>1. "commit" \in Pcs
      BY DEF Pcs
    <3> QED BY <1>1, <2>2, <3>1 DEF GoRecords
  <2> HIDE DEF r
  <2>4. GoWellFormed(r)
    BY <1>1, <2>3 DEF GoWellFormed
  <2>5. Progress(c) => Progress(r)
    <3> SUFFICES ASSUME Progress(c), Unread(c.input) PROVE IngestProgress(r)
      BY <1>1, <2>3 DEF Progress, IngestProgress, IngestOps
    <3>1. c.pos <= Len(bs) /\ all = SubSeq(bs, 1, c.pos)
      BY <1>1 DEF Progress, IngestProgress, IngestOps, all
    <3>2. ASSUME c.pos < Len(bs) PROVE FALSE
      <4>1. c.pos + 1 \in DOMAIN bs
        BY <1>1, <1>4, <3>2
      <4>2. bs[c.pos + 1] # Pause
        BY <4>1 DEF Unread
      <4> QED BY <1>6, <3>2, <4>2 DEF OutLen, ReadOf
    <3>3. c.pos = Len(bs)
      BY <1>1, <1>4, <3>1, <3>2
    <3>4. all = bs
      BY <1>1, <3>1, <3>3, SubSeqFull
    <3>5. c.input.end # "error"
      BY <1>4, <1>6, <3>3 DEF ReadOf
    <3> QED BY <1>1, <2>3, <3>4, <3>5 DEF IngestProgress, Whole
  <2>6. Rebuffers(g, r)
    <3>1. \A kind \in Buffers : Owed(r, kind) <=> Owed(c, kind)
      BY <1>1, <2>3 DEF Owed
    <3> QED BY <1>1, <2>1, <3>1, SameBuffers
  <2>7. Moves(g, r)
    BY <1>1, <2>1, <2>3, <2>4, <2>5, GoCall DEF Moves, CorePcs, RegisteredPcs
  <2> QED BY <1>2, <2>6, <2>7, GoMoves
<1>7. CASE x.err # "other" /\ OutLen(x) # 0
  <2> DEFINE b == bs[c.pos + 1]
             data == <<b>>
             fed == Fed(c, data)
             p == c.pos + 1
             r == [fed EXCEPT !.pos = p]
  <2>1. c.pos < Len(bs) /\ b \in Blocks /\ p \in 1 .. Len(bs) /\ p \in Nat
    <3>1. c.pos < Len(bs)
      BY <1>1, <1>4, <1>7 DEF OutLen, ReadOf
    <3> QED BY <1>1, <1>4, <3>1
  <2>2. data \in Seq(Blocks) /\ fed = Fed(c, data)
    BY <2>1
  <2>3. heap' = heap /\ call' = [call EXCEPT ![g] = Fed(@, data), ![g].pos = @ + 1]
    BY <1>3, <1>7 DEF ReadCallback
  <2> HIDE DEF fed
  <2>4. /\ fed.got \in Seq(Blocks) /\ fed.held \in Seq(Blocks)
        /\ fed = [c EXCEPT !.got = fed.got, !.held = fed.held]
        /\ fed.got \o fed.held = c.got \o (c.held \o data)
        /\ c.chunker = "fixed" => Len(fed.held) < ChunkSize
    BY <1>1, <2>2, Feeding
  <2>5. fed.pos = c.pos
    BY <1>1, <2>4 DEF GoRecords
  <2>6. Become(g, r)
    BY <1>1, <2>2, <2>3, <2>5 DEF Become
  <2> DEFINE got == fed.got
             held == fed.held
  <2> HIDE DEF data, b, p
  <2>7. /\ r \in GoRecords /\ r.pc = "core" /\ r.told = c.told /\ r.op = c.op /\ r.id = c.id
        /\ r.file = c.file /\ r.input = c.input /\ r.result = c.result /\ r.handle = c.handle
        /\ r.got = got /\ r.held = held /\ r.pos = p /\ r.want = c.want
        /\ r.chunker = c.chunker
    BY <1>1, <2>1, <2>4 DEF GoRecords
  <2> HIDE DEF r
  <2>8. GoWellFormed(r)
    BY <1>1, <2>7 DEF GoWellFormed
  <2>9. Progress(c) => Progress(r)
    <3> SUFFICES ASSUME Progress(c), Unread(c.input) PROVE IngestProgress(r)
      BY <1>1, <2>7 DEF Progress, IngestProgress, IngestOps
    <3>1. c.got \o c.held = SubSeq(bs, 1, c.pos)
      BY <1>1 DEF Progress, IngestProgress, IngestOps
    <3>3. got \o held = SubSeq(bs, 1, c.pos) \o data
      <4>1. (c.got \o c.held) \o data = c.got \o (c.held \o data)
        BY <1>1, <2>2, BlocksJoined
      <4> HIDE DEF bs
      <4> QED BY <2>4, <3>1, <4>1
    <3>4. SubSeq(bs, 1, p) = SubSeq(bs, 1, c.pos) \o data
      <4>1. 1 \in 1 .. Len(bs) /\ p \in 1 .. Len(bs) /\ p - 1 = c.pos /\ bs[p] = b
        BY <1>1, <1>4, <2>1 DEF p, b
      <4>2. SubSeq(bs, 1, p) = SubSeq(bs, 1, p - 1) \o <<bs[p]>>
        BY <1>1, <4>1, SubSeqRecursiveSecond
      <4> QED BY <4>1, <4>2 DEF data
    <3>5. p <= Len(bs)
      BY <2>1, <1>4
    <3> QED BY <1>1, <2>4, <2>7, <3>3, <3>4, <3>5 DEF IngestProgress
  <2>10. Rebuffers(g, r)
    <3>1. \A kind \in Buffers : Owed(r, kind) <=> Owed(c, kind)
      BY <1>1, <2>7 DEF Owed
    <3> QED BY <1>1, <2>3, <3>1, SameBuffers
  <2>11. Moves(g, r)
    BY <1>1, <2>6, <2>7, <2>8, <2>9, GoCall DEF Moves, CorePcs, RegisteredPcs
  <2> QED BY <1>2, <2>10, <2>11, GoMoves
<1> QED BY <1>5, <1>6, <1>7

LEMMA DigestsOutStep ==
  ASSUME GoInv, NEW g \in Goroutines, Ingested(g) \/ IngestedPath(g) \/ IngestedReader(g)
  PROVE  Kept
<1> DEFINE c == call[g]
           new == files'[c.file]
           r == [c EXCEPT !.pc = "ok", !.got = new]
<1>1. /\ c \in GoRecords /\ GoWellFormed(c) /\ HeapOK /\ c.op \in IngestOps
      /\ c.pc \in {"core", "commit"} /\ c.result = "none" /\ c.file \in Files
      /\ c.got \in Seq(Blocks) /\ c.held \in Seq(Blocks) /\ c.input.blocks \in Seq(Blocks)
      /\ c.pc = "commit" <=> c.op = "ingest_reader"
  BY GoCall DEF Ingested, IngestedPath, IngestedReader, GoWellFormed, IngestOps, Ops
<1>2. UNCHANGED <<handles, registries>> /\ FilesOK' /\ files' = FilesAfter(g)
      /\ heap' = heap \cup {<<g, "digests">>} /\ Become(g, r)
  BY FilesAfterType, GoCall DEF Ingested, IngestedPath, IngestedReader, DigestsOut, FilesOK
<1> DEFINE fed == Fed(c, c.input.blocks)
<1>3. fed.got \in Seq(Blocks) /\ fed.held \in Seq(Blocks)
      /\ fed = [c EXCEPT !.got = fed.got, !.held = fed.held]
      /\ fed.got \o fed.held = c.got \o (c.held \o c.input.blocks)
  BY <1>1, Feeding
<1>4. fed \in GoRecords /\ Finished(fed).got = fed.got \o fed.held
      /\ Finished(fed).got \in Seq(Blocks)
  <2> HIDE DEF fed
  <2>1. fed \in GoRecords
    BY <1>1, <1>3 DEF GoRecords
  <2> QED BY <2>1, Finishing
<1>5. /\ c.pc = "core" => new = Finished(fed).got
      /\ c.pc = "commit" => new = c.got
  BY <1>1, <1>2 DEF FilesAfter, IngestOps, FilesOK, GoInv
<1>6. new \in Seq(Blocks)
  BY <1>1, <1>4, <1>5
<1> HIDE DEF new, fed
<1>7. /\ r \in GoRecords /\ r.pc = "ok" /\ r.told = c.told /\ r.op = c.op /\ r.id = c.id
      /\ r.file = c.file /\ r.input = c.input /\ r.result = c.result /\ r.handle = c.handle
      /\ r.got = new /\ r.want = c.want
  BY <1>1, <1>6 DEF GoRecords, Pcs
<1> HIDE DEF r
<1>8. GoWellFormed(r)
  BY <1>1, <1>7 DEF GoWellFormed
<1>9. Progress(c) => Progress(r)
  <2> SUFFICES ASSUME Progress(c), Unread(c.input) PROVE IngestProgress(r)
    BY <1>1, <1>7 DEF Progress, IngestProgress, IngestOps
  <2>1. CASE c.pc = "core"
    <3>1. c.got = <<>> /\ c.held = <<>> /\ c.input.end = "eof"
      BY <1>1, <2>1 DEF Progress, IngestProgress
    <3>2. \A s \in Seq(Blocks) : <<>> \o s = s
      BY ConcatEmptySeq
    <3>3. new = c.input.blocks
      BY <1>1, <1>3, <1>4, <1>5, <2>1, <3>1, <3>2
    <3> QED BY <1>1, <1>7, <3>1, <3>3 DEF IngestProgress, Whole
  <2>2. CASE c.pc = "commit"
    BY <1>1, <1>5, <1>7, <2>2 DEF Progress, IngestProgress, Whole
  <2> QED BY <1>1, <2>1, <2>2
<1>10. Rebuffers(g, r)
  <2>1. \A kind \in Buffers : Owed(r, kind) <=> kind = "digests" \/ Owed(c, kind)
    BY <1>1, <1>7 DEF Owed, IngestOps
  <2> QED BY <1>1, <1>2, <2>1, OneBuffer DEF Buffers
<1>11. Moves(g, r)
  BY <1>1, <1>2, <1>7, <1>8, <1>9 DEF Moves, CorePcs, RegisteredPcs
<1> QED BY <1>2, <1>10, <1>11, GoMoves

LEMMA ReadAllStep ==
  ASSUME GoInv, NEW g \in Goroutines, ReadAll(g)
  PROVE  Kept
<1> DEFINE c == call[g]
           w == files[c.file]
           r == [c EXCEPT !.pc = "ok", !.want = w]
<1>1. /\ c \in GoRecords /\ GoWellFormed(c) /\ HeapOK /\ c.op = "read" /\ c.pc = "core"
      /\ c.result = "none" /\ c.file \in Files /\ w # None /\ Become(g, r)
  BY GoCall DEF ReadAll, GoWellFormed, Ops
<1>2. UNCHANGED <<handles, registries>> /\ FilesOK' /\ w \in Seq(Blocks)
      /\ heap' = heap \cup IF w = <<>> THEN {} ELSE {<<g, "bytes">>}
  BY <1>1, GoCall DEF ReadAll, FilesOK
<1> HIDE DEF w
<1>3. /\ r \in GoRecords /\ r.pc = "ok" /\ r.told = c.told /\ r.op = c.op /\ r.id = c.id
      /\ r.file = c.file /\ r.result = c.result /\ r.want = w
  BY <1>1, <1>2 DEF GoRecords, Pcs
<1> HIDE DEF r
<1>4. GoWellFormed(r) /\ (Progress(c) => Progress(r))
  BY <1>1, <1>3 DEF GoWellFormed, Progress, ReadProgress, IngestOps
<1>5. Rebuffers(g, r)
  <2>1. CASE w = <<>>
    <3>1. heap' = heap
      BY <1>2, <2>1
    <3>2. \A kind \in Buffers : Owed(r, kind) <=> Owed(c, kind)
      BY <1>1, <1>3, <2>1 DEF Owed, IngestOps
    <3> QED BY <1>1, <3>1, <3>2, SameBuffers
  <2>2. CASE w # <<>>
    <3>1. heap' = heap \cup {<<g, "bytes">>}
      BY <1>2, <2>2
    <3>2. \A kind \in Buffers : Owed(r, kind) <=> kind = "bytes" \/ Owed(c, kind)
      BY <1>1, <1>3, <2>2 DEF Owed, IngestOps
    <3> QED BY <1>1, <3>1, <3>2, OneBuffer DEF Buffers
  <2> QED BY <2>1, <2>2
<1>6. Moves(g, r)
  BY <1>1, <1>3, <1>4, StreamOf DEF Moves, CorePcs, RegisteredPcs
<1> QED BY <1>2, <1>5, <1>6, GoMoves

LEMMA ReadToStartsStep ==
  ASSUME GoInv, NEW g \in Goroutines, ReadToStarts(g)
  PROVE  Kept
<1> DEFINE c == call[g]
           w == files[c.file]
           r == [c EXCEPT !.pc = "write", !.want = w]
<1>1. /\ c \in GoRecords /\ GoWellFormed(c) /\ HeapOK /\ c.op = "read_to" /\ c.pc = "core"
      /\ c.result = "none" /\ c.file \in Files /\ w # None /\ Become(g, r) /\ heap' = heap
      /\ c.pos = 0
  BY GoCall DEF ReadToStarts, GoWellFormed, Ops
<1>2. UNCHANGED <<handles, registries>> /\ FilesOK' /\ w \in Seq(Blocks)
  BY <1>1, GoCall DEF ReadToStarts, FilesOK
<1>3. Len(w) \in Nat /\ SubSeq(w, 1, 0) = <<>>
  BY <1>2, SubSeqEmpty, 1 \in Int, 0 \in Int, 0 < 1
<1> HIDE DEF w
<1>4. /\ r \in GoRecords /\ r.pc = "write" /\ r.told = c.told /\ r.op = c.op /\ r.id = c.id
      /\ r.file = c.file /\ r.result = c.result /\ r.want = w /\ r.got = c.got /\ r.pos = c.pos
      /\ r.handle = c.handle
  BY <1>1, <1>2 DEF GoRecords, Pcs
<1> HIDE DEF r
<1>5. GoWellFormed(r)
  BY <1>1, <1>3, <1>4 DEF GoWellFormed
<1>6. Progress(c) => Progress(r)
  <2> SUFFICES ASSUME Progress(c) PROVE ReadProgress(r)
    BY <1>1, <1>4 DEF Progress, IngestOps
  <2>1. c.got = <<>>
    BY <1>1 DEF Progress, ReadProgress
  <2>2. r.got = SubSeq(r.want, 1, r.pos) /\ r.pos <= Len(r.want)
    BY <1>1, <1>3, <1>4, <2>1
  <2> QED BY <1>1, <1>4, <2>2 DEF ReadProgress
<1>7. Rebuffers(g, r)
  <2>1. \A kind \in Buffers : Owed(r, kind) <=> Owed(c, kind)
    BY <1>1, <1>4 DEF Owed, IngestOps
  <2> QED BY <1>1, <2>1, SameBuffers
<1>8. Moves(g, r)
  BY <1>1, <1>4, <1>5, <1>6, GoCall DEF Moves, CorePcs, RegisteredPcs
<1> QED BY <1>2, <1>7, <1>8, GoMoves

LEMMA WriteCallbackStep ==
  ASSUME GoInv, NEW g \in Goroutines, WriteCallback(g)
  PROVE  Kept
<1> DEFINE c == call[g]
<1>1. /\ c \in GoRecords /\ GoWellFormed(c) /\ HeapOK /\ c.op = "read_to" /\ c.pc = "write"
      /\ c.result = "none" /\ c.want \in Seq(Blocks) /\ c.got \in Seq(Blocks) /\ c.pos \in Nat
      /\ c.pos <= Len(c.want) /\ Len(c.want) \in Nat /\ call \in [Goroutines -> GoRecords]
  BY GoCall DEF WriteCallback, GoWellFormed, GoInv, CallsOK
<1>2. UNCHANGED <<handles, registries>> /\ FilesOK'
  BY GoCall DEF WriteCallback, FilesOK
<1>3. c.id \in DOMAIN streams["writer"] /\ streams["writer"][c.id] = g
  BY <1>1, OwnStream, StreamOf DEF RegisteredPcs, CorePcs, Streams
<1>4. CASE AllWritten(g)
  <2> DEFINE r == [c EXCEPT !.pc = "ok"]
  <2>1. Become(g, r) /\ heap' = heap /\ c.pos = Len(c.want)
    BY <1>4 DEF WriteCallback, Goto, AllWritten
  <2>2. /\ r = [c EXCEPT !.pc = "ok"] /\ r.pc = "ok" /\ r.told = c.told /\ r.op = c.op
        /\ r.file = c.file /\ r.result = c.result /\ r.want = c.want /\ r.got = c.got
    BY <1>1 DEF GoRecords
  <2> HIDE DEF r
  <2>3. GoWellFormed(r)
    BY <1>1, <2>2 DEF GoWellFormed
  <2>4. Progress(c) => Progress(r)
    <3>1. SubSeq(c.want, 1, Len(c.want)) = c.want
      BY <1>1, SubSeqFull
    <3> QED BY <1>1, <2>1, <2>2, <3>1 DEF Progress, ReadProgress, IngestOps
  <2>5. Rebuffers(g, r)
    <3>1. \A kind \in Buffers : Owed(r, kind) <=> Owed(c, kind)
      BY <1>1, <2>2 DEF Owed, IngestOps
    <3> QED BY <1>1, <2>1, <3>1, SameBuffers
  <2>6. Moves(g, r)
    BY <1>1, <2>1, <2>2, <2>3, <2>4, LabelMoves DEF RegisteredPcs, CorePcs
  <2> QED BY <1>2, <2>5, <2>6, GoMoves
<1>5. CASE ~AllWritten(g)
  <2> DEFINE p == c.pos + 1
             b == c.want[p]
             got == Append(c.got, b)
             r == [c EXCEPT !.pos = p, !.got = got]
  <2>1. p \in 1 .. Len(c.want) /\ p \in Nat /\ b \in Blocks /\ p - 1 = c.pos
    BY <1>1, <1>5 DEF AllWritten
  <2>2. heap' = heap /\ call' = [call EXCEPT ![g].pos = @ + 1, ![g].got = Append(@, b)]
    BY <1>3, <1>5 DEF WriteCallback
  <2>3. Become(g, r)
    BY <1>1, <2>2 DEF Become, GoRecords
  <2>4. got = c.got \o <<b>> /\ got \in Seq(Blocks)
    <3>1. c.got \in Seq(Blocks) /\ b \in Blocks
      BY <1>1, <2>1
    <3> HIDE DEF b
    <3>2. Append(c.got, b) = c.got \o <<b>>
      BY <3>1, AppendIsConcat
    <3>3. Append(c.got, b) \in Seq(Blocks)
      BY <3>1, AppendProperties
    <3> QED BY <3>2, <3>3
  <2>5. SubSeq(c.want, 1, p) = SubSeq(c.want, 1, c.pos) \o <<b>>
    <3>1. SubSeq(c.want, 1, p) = SubSeq(c.want, 1, p - 1) \o <<c.want[p]>>
      BY <1>1, <2>1, SubSeqRecursiveSecond, 1 \in 1 .. Len(c.want)
    <3> QED BY <2>1, <3>1
  <2> HIDE DEF got, b, p
  <2>6. /\ r \in GoRecords /\ r.pc = "write" /\ r.told = c.told /\ r.op = c.op /\ r.id = c.id
        /\ r.file = c.file /\ r.result = c.result /\ r.want = c.want /\ r.got = got /\ r.pos = p
        /\ r.handle = c.handle
    BY <1>1, <2>1, <2>4 DEF GoRecords
  <2> HIDE DEF r
  <2>7. GoWellFormed(r)
    BY <1>1, <2>1, <2>6 DEF GoWellFormed
  <2>8. Progress(c) => Progress(r)
    <3> SUFFICES ASSUME Progress(c) PROVE ReadProgress(r)
      BY <1>1, <2>6 DEF Progress, IngestOps
    <3>1. c.got = SubSeq(c.want, 1, c.pos)
      BY <1>1 DEF Progress, ReadProgress
    <3>2. got = SubSeq(c.want, 1, p)
      BY <2>4, <2>5, <3>1
    <3>3. r.got = SubSeq(r.want, 1, r.pos) /\ r.pos <= Len(r.want)
      BY <2>1, <2>6, <3>2
    <3> QED BY <1>1, <2>6, <3>3 DEF ReadProgress
  <2>9. Rebuffers(g, r)
    <3>1. \A kind \in Buffers : Owed(r, kind) <=> Owed(c, kind)
      BY <1>1, <2>6 DEF Owed, IngestOps
    <3> QED BY <1>1, <2>2, <3>1, SameBuffers
  <2>10. Moves(g, r)
    BY <1>1, <2>3, <2>6, <2>7, <2>8, GoCall DEF Moves, CorePcs, RegisteredPcs
  <2> QED BY <1>2, <2>9, <2>10, GoMoves
<1> QED BY <1>4, <1>5

LEMMA DoneStep ==
  ASSUME GoInv, NEW g \in Goroutines, Deleted(g) \/ StatsRead(g)
  PROVE  Kept
<1> DEFINE c == call[g]
           r == [c EXCEPT !.pc = "ok"]
<1>1. /\ c \in GoRecords /\ GoWellFormed(c) /\ HeapOK /\ c.op \in {"delete", "stats"}
      /\ c.pc = "core" /\ Become(g, r) /\ heap' = heap
  BY GoCall DEF Deleted, StatsRead, Goto
<1>2. UNCHANGED <<handles, registries>> /\ FilesOK'
  BY FilesAfterType, GoCall DEF Deleted, StatsRead, FilesOK
<1>3. r = [c EXCEPT !.pc = "ok"] /\ r.pc = "ok" /\ r.told = c.told /\ r.op = c.op /\ r.file = c.file
      /\ r.result = c.result
  BY <1>1 DEF GoRecords
<1> HIDE DEF r
<1>4. GoWellFormed(r) /\ (Progress(c) => Progress(r))
  BY <1>1, <1>3 DEF GoWellFormed, Progress, IngestOps
<1>5. Rebuffers(g, r)
  <2>1. \A kind \in Buffers : Owed(r, kind) <=> Owed(c, kind)
    BY <1>1, <1>3 DEF Owed, IngestOps
  <2> QED BY <1>1, <2>1, SameBuffers
<1>6. Moves(g, r)
  BY <1>1, <1>3, <1>4, LabelMoves DEF RegisteredPcs, CorePcs
<1> QED BY <1>2, <1>5, <1>6, GoMoves

-------------------------------------------------------------------------------
(* Back in Go                                                                    *)

\* A call ends, and with it the buffer that its result came in.
LEMMA FinishMoves ==
  ASSUME GoInv, NEW g \in Goroutines, NEW c, NEW b \in Buffers, Finish(g, c),
         call[g].pc \in {"ok", "err"}, heap' = Freed(g, b),
         NEW res \in {"ok", "err"}, NEW got \in Seq(Blocks),
         c = [call[g] EXCEPT !.got = got, !.result = res],
         \A kind \in Buffers \ {b} : ~Owed(call[g], kind),
         UNCHANGED <<handles, registries, files, calls>>,
         Progress(call[g]) /\ res = "ok" =>
           /\ call[g].op \in IngestOps /\ Unread(call[g].input) =>
                got = call[g].input.blocks /\ call[g].input.end # "error"
           /\ call[g].op = "read_to" \/ (call[g].op = "read" /\ Len(call[g].want) < Cut) =>
                got = call[g].want
  PROVE  Kept
<1> DEFINE o == call[g]
           label == IF Stream(c.op) = "none" THEN "idle" ELSE "unregister"
           r == [c EXCEPT !.pc = label, !.chunker = "fixed", !.pos = 0, !.handle = 0, !.held = <<>>,
                          !.told = FALSE]
<1>1. /\ o \in GoRecords /\ GoWellFormed(o) /\ HeapOK /\ FilesOK
  BY GoCall
<1>2. /\ c \in GoRecords /\ c.op = o.op /\ c.id = o.id /\ c.file = o.file /\ c.got = got
      /\ c.want = o.want /\ c.input = o.input /\ c.result = res
  <2> HIDE DEF o
  <2>1. c = [o EXCEPT !.got = got, !.result = res]
    BY DEF o
  <2> QED BY <1>1, <2>1 DEF GoRecords
<1>3. Become(g, r)
  BY DEF Finish
<1>4. label \in {"idle", "unregister"} /\ (label = "unregister" <=> Stream(o.op) # "none")
  BY <1>2
<1>5. <<>> \in Seq(Blocks) /\ 0 \in 0 .. MaxOpens /\ 0 \in Nat
  BY EmptySeq, GoAssumption
<1> HIDE DEF label
<1>6. /\ r \in GoRecords /\ r.pc = label /\ r.op = o.op /\ r.id = o.id /\ r.file = o.file
      /\ r.got = got /\ r.want = o.want /\ r.input = o.input /\ r.result = res /\ ~r.told
  <2> HIDE DEF o
  <2>1. label \in Pcs /\ "fixed" \in Chunkers
    BY <1>4 DEF Pcs, Chunkers
  <2>2. r \in GoRecords
    BY <1>2, <1>5, <2>1 DEF GoRecords
  <2>3. r.pc = label /\ r.op = c.op /\ r.id = c.id /\ r.file = c.file /\ r.got = c.got
        /\ r.want = c.want /\ r.input = c.input /\ r.result = c.result /\ r.told = FALSE
    BY <1>2 DEF GoRecords
  <2> QED BY <1>2, <2>2, <2>3
<1> HIDE DEF r
<1>7. GoWellFormed(r)
  BY <1>1, <1>4, <1>6 DEF GoWellFormed
<1>8. Progress(o) => Progress(r)
  <2> SUFFICES ASSUME Progress(o) PROVE Progress(r)
    OBVIOUS
  <2>1. ASSUME o.op \in IngestOps PROVE IngestProgress(r)
    BY <1>4, <1>6, <2>1 DEF Progress, IngestProgress, Whole
  <2>2. ASSUME o.op \in {"read", "read_to"} PROVE ReadProgress(r)
    BY <1>4, <1>6, <2>2 DEF ReadProgress
  <2> QED BY <1>6, <2>1, <2>2 DEF Progress
<1>9. Rebuffers(g, r)
  <2>1. \A kind \in Buffers : Owed(r, kind) <=> kind # b /\ Owed(o, kind)
    BY <1>4, <1>6 DEF Owed
  <2> QED BY <1>1, <2>1, BufferFreed
<1>10. Moves(g, r)
  BY <1>3, <1>4, <1>6, <1>7, <1>8 DEF Moves, CorePcs, RegisteredPcs
<1>11. FilesOK'
  BY <1>1 DEF FilesOK
<1> QED BY <1>9, <1>10, <1>11, GoMoves

LEMMA TakeErrorStep ==
  ASSUME GoInv, NEW g \in Goroutines, TakeError(g)
  PROVE  Kept
<1> DEFINE c == call[g]
           got == c.got
<1>1. c \in GoRecords /\ got \in Seq(Blocks) /\ c.pc = "err"
  BY GoCall DEF TakeError
<1>2. [c EXCEPT !.result = "err"] = [c EXCEPT !.got = got, !.result = "err"]
  BY <1>1 DEF GoRecords
<1>3. \A kind \in Buffers \ {"error"} : ~Owed(c, kind)
  BY <1>1 DEF Owed
<1> HIDE DEF got
<1> DEFINE r == [c EXCEPT !.got = got, !.result = "err"]
<1>4. Finish(g, [c EXCEPT !.result = "err"])
  BY DEF TakeError
<1>5. Finish(g, r)
  BY <1>2, <1>4
<1>6. r = [c EXCEPT !.got = got, !.result = "err"]
  OBVIOUS
<1> HIDE DEF r
<1>7. heap' = Freed(g, "error") /\ UNCHANGED <<handles, registries, files, calls>>
  BY DEF TakeError
<1> QED BY <1>1, <1>3, <1>5, <1>6, <1>7, FinishMoves DEF Buffers

LEMMA TakeDigestsStep ==
  ASSUME GoInv, NEW g \in Goroutines, TakeDigests(g)
  PROVE  Kept
<1> DEFINE c == call[g]
           got == c.got
<1>1. c \in GoRecords /\ got \in Seq(Blocks) /\ c.pc = "ok" /\ c.op # "read"
  BY GoCall DEF TakeDigests
<1>2. [c EXCEPT !.result = "ok"] = [c EXCEPT !.got = got, !.result = "ok"]
  BY <1>1 DEF GoRecords
<1>3. \A kind \in Buffers \ {"digests"} : ~Owed(c, kind)
  BY <1>1 DEF Owed
<1>4. Progress(c) =>
        /\ c.op \in IngestOps /\ Unread(c.input) => got = c.input.blocks /\ c.input.end # "error"
        /\ c.op = "read_to" => got = c.want
  BY <1>1 DEF Progress, IngestProgress, ReadProgress, Whole
<1> HIDE DEF got
<1> DEFINE r == [c EXCEPT !.got = got, !.result = "ok"]
<1>5. Finish(g, [c EXCEPT !.result = "ok"])
  BY DEF TakeDigests
<1>6. Finish(g, r)
  BY <1>2, <1>5
<1>7. r = [c EXCEPT !.got = got, !.result = "ok"]
  OBVIOUS
<1> HIDE DEF r
<1>8. heap' = Freed(g, "digests") /\ UNCHANGED <<handles, registries, files, calls>>
  BY DEF TakeDigests
<1> QED BY <1>1, <1>3, <1>4, <1>6, <1>7, <1>8, FinishMoves DEF Buffers

LEMMA TakeBytesStep ==
  ASSUME GoInv, NEW g \in Goroutines, TakeBytes(g)
  PROVE  Kept
<1> DEFINE c == call[g]
           n == CInt(Len(c.want))
           got == SubSeq(c.want, 1, n)
<1>1. c \in GoRecords /\ c.want \in Seq(Blocks) /\ c.pc = "ok" /\ c.op = "read"
      /\ Len(c.want) \in Nat
  BY GoCall DEF TakeBytes
<1>2. n \in Int /\ n <= Len(c.want) /\ (Len(c.want) < Cut => n = Len(c.want) \/ n < 0)
  BY <1>1, IntBounds, Lengths
<1>3. UNCHANGED <<handles, registries, files, calls>>
  BY DEF TakeBytes
<1>4. CASE n < 0
  <2>1. UNCHANGED <<heap, call>>
    BY <1>4 DEF TakeBytes
  <2>2. CallsOK'
    BY <2>1 DEF GoInv, CallsOK
  <2>3. HandlesOK' /\ FilesOK'
    BY <1>3, <2>1 DEF GoInv, HandlesOK, HandlesFit, handles, registries, FilesOK
  <2>4. StreamsOK'
    BY <1>3, <2>1 DEF GoInv, StreamsOK, registries, Registered
  <2>5. HeapOK'
    BY <2>1 DEF GoInv, HeapOK
  <2> QED BY <2>1, <2>2, <2>3, <2>4, <2>5 DEF GoInv, Kept
<1>5. CASE n >= 0
  <2>1. got \in Seq(Blocks)
    <3>1. \A i \in 1 .. n : c.want[i] \in Blocks
      BY <1>1, <1>2
    <3> QED BY <1>2, <3>1, SubSeqProperties
  <2>2. Len(c.want) < Cut => got = c.want
    BY <1>1, <1>2, <1>5, SubSeqFull
  <2> DEFINE r == [c EXCEPT !.got = got, !.result = "ok"]
  <2>3. Finish(g, r) /\ heap' = Freed(g, "bytes")
    BY <1>2, <1>5 DEF TakeBytes
  <2> HIDE DEF got
  <2>4. r = [c EXCEPT !.got = got, !.result = "ok"]
    OBVIOUS
  <2> HIDE DEF r
  <2>5. \A kind \in Buffers \ {"bytes"} : ~Owed(c, kind)
    BY <1>1 DEF Owed, IngestOps
  <2>6. c.op \notin IngestOps /\ c.op # "read_to"
    BY <1>1 DEF IngestOps
  <2> QED BY <1>1, <1>3, <2>1, <2>2, <2>3, <2>4, <2>5, <2>6, FinishMoves DEF Buffers
<1> QED BY <1>2, <1>4, <1>5

-------------------------------------------------------------------------------
(* A call begins, is registered and unregistered                                 *)

LEMMA BeginStep ==
  ASSUME GoInv, NEW g \in Goroutines, NEW op \in Ops, NEW f \in Files \cup {None},
         NEW k \in Chunkers, NEW input \in GoInputs, Begin(g, op, f, k, input),
         op # "stats" => f \in Files,
         op \in {"ingest", "ingest_file"} => input.end = "eof"
  PROVE  Kept
<1> DEFINE label == IF Stream(op) = "none" THEN "enter" ELSE "register"
           r == [Idle EXCEPT !.op = op, !.file = f, !.chunker = k, !.input = input, !.pc = label]
<1>1. call \in [Goroutines -> GoRecords] /\ call[g].pc = "idle" /\ HeapOK /\ FilesOK
      /\ GoWellFormed(call[g])
  BY GoCall DEF GoInv, CallsOK, Begin, Busy
<1>2. label \in {"enter", "register"} /\ (label = "enter" <=> Stream(op) = "none")
  OBVIOUS
<1>3. Become(g, r)
  BY DEF Begin
<1> HIDE DEF label
<1>4. /\ r \in GoRecords /\ r.pc = label /\ r.op = op /\ r.file = f /\ r.chunker = k
      /\ r.input = input /\ r.result = "none" /\ r.got = <<>> /\ r.held = <<>> /\ r.pos = 0
      /\ r.told = FALSE
  <2> HIDE DEF Idle
  <2>1. label \in Pcs
    BY <1>2 DEF Pcs
  <2>2. r \in GoRecords
    BY <2>1, GoIdle DEF GoRecords, GoInputs
  <2> QED BY <2>2, GoIdle DEF GoRecords
<1> HIDE DEF r
<1>5. GoWellFormed(r)
  BY <1>2, <1>4 DEF GoWellFormed
<1>6. Progress(r)
  BY <1>2, <1>4 DEF Progress, IngestProgress, ReadProgress, IngestOps
<1>7. call' = [call EXCEPT ![g] = r]
  BY <1>3 DEF Become
<1>8. CallsOK' /\ FilesOK'
  BY <1>1, <1>4, <1>5, <1>7 DEF GoInv, CallsOK, FilesOK, Begin
<1>9. HandlesOK'
  BY <1>1, <1>2, <1>4, <1>7 DEF GoInv, HandlesOK, HandlesFit, Begin, handles, registries, CorePcs
<1>10. StreamsOK'
  <2>1. UNCHANGED <<streams, seq>>
    BY DEF Begin, registries
  <2>2. \A j \in Streams, u \in Goroutines :
          /\ Registered(call'[u], j) <=> Registered(call[u], j)
          /\ Registered(call[u], j) => call'[u].id = call[u].id
    BY <1>1, <1>2, <1>4, <1>7 DEF Registered, RegisteredPcs, CorePcs, Streams
  <2> QED BY <2>1, <2>2 DEF GoInv, StreamsOK
<1>11. HeapOK'
  <2>1. \A kind \in Buffers : Owed(r, kind) <=> Owed(call[g], kind)
    BY <1>1, <1>2, <1>4 DEF Owed
  <2>2. heap' = heap
    BY DEF Begin
  <2> QED BY <1>1, <1>7, <2>1, <2>2 DEF HeapOK
<1> QED BY <1>1, <1>6, <1>7, <1>8, <1>9, <1>10, <1>11 DEF GoInv, Kept

LEMMA BeginCallStep ==
  ASSUME GoInv, NEW g \in Goroutines, BeginCall(g)
  PROVE  Kept
<1>1. NoReader \in GoInputs /\ Readers \subseteq GoInputs
      /\ (\A c \in Contents : [blocks |-> c, end |-> "eof"] \in GoInputs)
      /\ "fixed" \in Chunkers
  BY DEF GoInputs, Chunkers
<1>2. ASSUME NEW f \in Files, NEW k \in Chunkers, NEW op \in {"ingest", "ingest_file"},
             NEW input \in GoInputs, input.end = "eof", Begin(g, op, f, k, input)
      PROVE  Kept
  BY <1>2, BeginStep DEF Ops
<1>3. ASSUME NEW f \in Files, NEW k \in Chunkers, NEW r \in Readers,
             Begin(g, "ingest_reader", f, k, r)
      PROVE  Kept
  BY <1>1, <1>3, BeginStep DEF Ops
<1>4. ASSUME NEW f \in Files, NEW op \in {"read", "read_to", "delete"},
             Begin(g, op, f, "fixed", NoReader)
      PROVE  Kept
  BY <1>1, <1>4, BeginStep DEF Ops
<1>5. ASSUME Begin(g, "stats", None, "fixed", NoReader)
      PROVE  Kept
  BY <1>1, <1>5, BeginStep DEF Ops
<1>6. ASSUME NEW f \in Files, NEW k \in Chunkers, NEW op \in {"ingest", "ingest_file"},
             NEW c \in Contents, Begin(g, op, f, k, [blocks |-> c, end |-> "eof"])
      PROVE  Kept
  <2> DEFINE input == [blocks |-> c, end |-> "eof"]
  <2>1. input \in GoInputs /\ input.end = "eof" /\ Begin(g, op, f, k, input)
    BY <1>1, <1>6
  <2> HIDE DEF input
  <2> QED BY <1>2, <2>1
<1> QED BY <1>3, <1>4, <1>5, <1>6 DEF BeginCall

LEMMA RegisterStep ==
  ASSUME GoInv, NEW g \in Goroutines, Register(g)
  PROVE  Kept
<1> DEFINE c == call[g]
           k == Stream(c.op)
           n == NextId(k)
           r == [c EXCEPT !.pc = "enter", !.id = n]
<1>1. /\ c \in GoRecords /\ GoWellFormed(c) /\ HeapOK /\ FilesOK /\ c.pc = "register"
      /\ call \in [Goroutines -> GoRecords]
  BY GoCall DEF Register, GoInv, CallsOK
<1>2. k \in Streams
  BY <1>1, StreamOf DEF GoWellFormed, GoRecords
<1>3. n = seq[k] + 1 /\ n \in Nat /\ seq[k] \in Nat /\ n \notin DOMAIN streams[k]
      /\ seq \in [Streams -> Nat]
  BY <1>2 DEF NextId, GoInv, StreamsOK
<1>4. /\ seq' = [seq EXCEPT ![k] = n]
      /\ streams' = [streams EXCEPT ![k] = [i \in DOMAIN streams[k] \cup {n} |->
                                           IF i = n THEN g ELSE streams[k][i]]]
      /\ call' = [call EXCEPT ![g] = r]
  BY DEF Register, Become
<1> HIDE DEF n
<1>5. /\ r \in GoRecords /\ r.pc = "enter" /\ r.id = n /\ r.op = c.op /\ r.file = c.file
      /\ r.told = c.told /\ r.result = c.result /\ r.pos = c.pos /\ r.got = c.got
      /\ r.held = c.held /\ r.input = c.input
  BY <1>1, <1>3 DEF GoRecords, Pcs
<1> HIDE DEF r
<1>6. GoWellFormed(r) /\ (Progress(c) => Progress(r))
  BY <1>1, <1>5 DEF GoWellFormed, Progress, IngestProgress, ReadProgress
<1>7. CallsOK' /\ FilesOK'
  BY <1>1, <1>4, <1>5, <1>6 DEF GoInv, CallsOK, FilesOK, Register
<1>8. HandlesOK'
  BY <1>1, <1>4, <1>5 DEF GoInv, HandlesOK, HandlesFit, Register, handles, CorePcs
<1>9. StreamsOK'
  <2> DEFINE new == [i \in DOMAIN streams[k] \cup {n} |-> IF i = n THEN g ELSE streams[k][i]]
  <2>1. /\ DOMAIN new = DOMAIN streams[k] \cup {n} /\ new[n] = g
        /\ \A i \in DOMAIN streams[k] : new[i] = streams[k][i]
        /\ new \in [DOMAIN new -> Goroutines]
    BY <1>2, <1>3 DEF GoInv, StreamsOK
  <2>2. streams = [j \in Streams |-> streams[j]]
    BY DEF GoInv, StreamsOK
  <2>3. streams' = [streams EXCEPT ![k] = new]
    BY <1>2, <1>4, <2>2
  <2> HIDE DEF new
  <2>4. streams'[k] = new /\ (\A j \in Streams \ {k} : streams'[j] = streams[j])
        /\ streams' = [j \in Streams |-> streams'[j]]
    BY <1>2, <2>2, <2>3
  <2>5. seq'[k] = n /\ (\A j \in Streams \ {k} : seq'[j] = seq[j]) /\ seq' \in [Streams -> Nat]
    BY <1>2, <1>3, <1>4
  <2>6. call'[g] = r /\ \A u \in Goroutines \ {g} : call'[u] = call[u]
    BY <1>1, <1>4
  <2>7. \A j \in Streams, u \in Goroutines \ {g} :
          (Registered(call'[u], j) <=> Registered(call[u], j)) /\ call'[u].id = call[u].id
    BY <2>6 DEF Registered
  <2>8. \A j \in Streams : (Registered(call'[g], j) <=> j = k) /\ ~Registered(call[g], j)
    BY <1>1, <1>5, <2>6 DEF Registered, RegisteredPcs, CorePcs
  <2>9. ASSUME NEW j \in Streams
        PROVE  /\ streams'[j] \in [DOMAIN streams'[j] -> Goroutines]
               /\ DOMAIN streams'[j] \subseteq 1 .. seq'[j]
    <3>1. CASE j = k
      <4>1. DOMAIN streams[k] \subseteq 1 .. seq[k]
        BY <1>2 DEF GoInv, StreamsOK
      <4> QED BY <1>3, <2>1, <2>4, <2>5, <3>1, <4>1
    <3>2. CASE j # k
      BY <2>4, <2>5, <3>2 DEF GoInv, StreamsOK
    <3> QED BY <3>1, <3>2
  <2>10. ASSUME NEW j \in Streams, NEW u \in Goroutines, Registered(call'[u], j)
         PROVE  call'[u].id \in DOMAIN streams'[j] /\ streams'[j][call'[u].id] = u
    <3>1. CASE u = g
      BY <1>5, <2>1, <2>4, <2>6, <2>8, <2>10, <3>1
    <3>2. CASE u # g
      <4>1. Registered(call[u], j) /\ call'[u].id = call[u].id
        BY <2>7, <2>10, <3>2
      <4>2. call[u].id \in DOMAIN streams[j] /\ streams[j][call[u].id] = u
        BY <4>1 DEF GoInv, StreamsOK
      <4> QED BY <2>1, <2>4, <4>1, <4>2
    <3> QED BY <3>1, <3>2
  <2>11. ASSUME NEW j \in Streams, NEW i \in DOMAIN streams'[j]
         PROVE  Registered(call'[streams'[j][i]], j) /\ call'[streams'[j][i]].id = i
    <3>1. CASE j = k /\ i = n
      <4>1. streams'[j][i] = g
        BY <2>1, <2>4, <3>1
      <4> QED BY <1>5, <2>6, <2>8, <3>1, <4>1
    <3>2. CASE ~(j = k /\ i = n)
      <4>1. i \in DOMAIN streams[j] /\ streams'[j][i] = streams[j][i]
        BY <2>1, <2>4, <2>11, <3>2
      <4> DEFINE u == streams[j][i]
      <4>2. u \in Goroutines /\ Registered(call[u], j) /\ call[u].id = i
        BY <4>1 DEF GoInv, StreamsOK
      <4>3. u # g
        BY <2>8, <4>2
      <4>4. Registered(call'[u], j) /\ call'[u].id = i
        <5> HIDE DEF u
        <5> QED BY <2>7, <4>2, <4>3
      <4>5. streams'[j][i] = u
        BY <4>1
      <4> HIDE DEF u
      <4> QED BY <4>4, <4>5 DEF Registered
    <3> QED BY <3>1, <3>2
  <2> QED BY <2>4, <2>5, <2>9, <2>10, <2>11 DEF StreamsOK, Registered
<1>10. HeapOK'
  <2>1. \A kind \in Buffers : Owed(r, kind) <=> Owed(c, kind)
    BY <1>1, <1>5 DEF Owed
  <2>2. heap' = heap
    BY DEF Register
  <2> QED BY <1>1, <1>4, <2>1, <2>2 DEF HeapOK
<1> QED BY <1>1, <1>4, <1>6, <1>7, <1>8, <1>9, <1>10 DEF GoInv, Kept

LEMMA UnregisterStep ==
  ASSUME GoInv, NEW g \in Goroutines, Unregister(g)
  PROVE  Kept
<1> DEFINE c == call[g]
           k == Stream(c.op)
           n == c.id
           r == [c EXCEPT !.pc = "idle", !.id = 0]
<1>1. /\ c \in GoRecords /\ GoWellFormed(c) /\ HeapOK /\ FilesOK /\ c.pc = "unregister"
      /\ call \in [Goroutines -> GoRecords]
  BY GoCall DEF Unregister, GoInv, CallsOK
<1>2. k \in Streams
  BY <1>1, StreamOf DEF GoWellFormed, GoRecords
<1>3. /\ streams' = [streams EXCEPT ![k] = [i \in DOMAIN streams[k] \ {n} |-> streams[k][i]]]
      /\ seq' = seq
      /\ call' = [call EXCEPT ![g] = r]
  BY DEF Unregister, Become
<1>4. /\ r \in GoRecords /\ r.pc = "idle" /\ r.id = 0 /\ r.op = c.op /\ r.file = c.file
      /\ r.told = c.told /\ r.result = c.result /\ r.got = c.got /\ r.want = c.want
      /\ r.input = c.input
  BY <1>1 DEF GoRecords, Pcs
<1> HIDE DEF r
<1>5. GoWellFormed(r) /\ (Progress(c) => Progress(r))
  BY <1>1, <1>4 DEF GoWellFormed, Progress, IngestProgress, ReadProgress, Whole
<1>6. CallsOK' /\ FilesOK'
  BY <1>1, <1>3, <1>4, <1>5 DEF GoInv, CallsOK, FilesOK, Unregister
<1>7. HandlesOK'
  BY <1>1, <1>3, <1>4 DEF GoInv, HandlesOK, HandlesFit, Unregister, handles, CorePcs
<1>8. StreamsOK'
  <2>1. streams = [j \in Streams |-> streams[j]] /\ seq \in [Streams -> Nat]
    BY DEF GoInv, StreamsOK
  <2>2. /\ DOMAIN streams'[k] = DOMAIN streams[k] \ {n}
        /\ \A i \in DOMAIN streams'[k] : streams'[k][i] = streams[k][i]
        /\ \A j \in Streams \ {k} : streams'[j] = streams[j]
        /\ streams' = [j \in Streams |-> streams'[j]]
    BY <1>2, <1>3, <2>1
  <2>3. \A j \in Streams : /\ streams'[j] \in [DOMAIN streams'[j] -> Goroutines]
                           /\ DOMAIN streams'[j] \subseteq 1 .. seq'[j]
    <3>1. streams'[k] \in [DOMAIN streams'[k] -> Goroutines]
      BY <1>2, <1>3, <2>1 DEF GoInv, StreamsOK
    <3> QED BY <1>2, <1>3, <2>2, <3>1 DEF GoInv, StreamsOK
  <2>4. call'[g] = r /\ \A u \in Goroutines \ {g} : call'[u] = call[u]
    BY <1>1, <1>3
  <2>5. \A j \in Streams, u \in Goroutines \ {g} :
          (Registered(call'[u], j) <=> Registered(call[u], j)) /\ call'[u].id = call[u].id
    BY <2>4 DEF Registered
  <2>6. \A j \in Streams : (Registered(call[g], j) <=> j = k) /\ ~Registered(call'[g], j)
    BY <1>1, <1>4, <2>4 DEF Registered, RegisteredPcs, CorePcs
  <2>7. streams[k][n] = g /\ n \in DOMAIN streams[k]
    BY <1>2, <2>6 DEF GoInv, StreamsOK
  <2>8. ASSUME NEW j \in Streams, NEW u \in Goroutines, Registered(call'[u], j)
        PROVE  call'[u].id \in DOMAIN streams'[j] /\ streams'[j][call'[u].id] = u
    <3>1. u # g
      BY <2>6, <2>8
    <3>2. Registered(call[u], j) /\ call'[u].id = call[u].id
      BY <2>5, <2>8, <3>1
    <3>3. call[u].id \in DOMAIN streams[j] /\ streams[j][call[u].id] = u
      BY <3>2 DEF GoInv, StreamsOK
    <3>4. j = k => call[u].id # n
      BY <2>7, <3>1, <3>3
    <3> QED BY <2>2, <3>2, <3>3, <3>4
  <2>9. ASSUME NEW j \in Streams, NEW i \in DOMAIN streams'[j]
        PROVE  Registered(call'[streams'[j][i]], j) /\ call'[streams'[j][i]].id = i
    <3>1. i \in DOMAIN streams[j] /\ streams'[j][i] = streams[j][i] /\ (j = k => i # n)
      BY <2>2, <2>9
    <3> DEFINE u == streams[j][i]
    <3>2. u \in Goroutines /\ Registered(call[u], j) /\ call[u].id = i
      BY <3>1 DEF GoInv, StreamsOK
    <3>3. u # g
      BY <2>6, <3>1, <3>2
    <3>4. streams'[j][i] = u
      BY <3>1
    <3> HIDE DEF u
    <3>5. Registered(call'[u], j) /\ call'[u].id = i
      BY <2>5, <3>2, <3>3
    <3> QED BY <3>4, <3>5 DEF Registered
  <2> QED BY <1>3, <2>1, <2>2, <2>3, <2>8, <2>9 DEF StreamsOK, Registered
<1>9. HeapOK'
  <2>1. \A kind \in Buffers : Owed(r, kind) <=> Owed(c, kind)
    BY <1>1, <1>4 DEF Owed
  <2>2. heap' = heap
    BY DEF Unregister
  <2> QED BY <1>1, <1>3, <2>1, <2>2 DEF HeapOK
<1> QED BY <1>1, <1>3, <1>5, <1>6, <1>7, <1>8, <1>9 DEF GoInv, Kept

-------------------------------------------------------------------------------
(* The Store is opened and closed, while no call is in progress                  *)

LEMMA HandlesChange ==
  ASSUME GoInv, \A g \in Goroutines : ~Busy(g), HandlesFit',
         UNCHANGED <<streams, seq, heap, files, call, calls>>
  PROVE  Kept
<1>1. CallsOK' /\ FilesOK' /\ HeapOK'
  BY DEF GoInv, CallsOK, FilesOK, HeapOK
<1>2. StreamsOK'
  BY DEF GoInv, StreamsOK
<1>3. HandlesOK'
  BY DEF HandlesOK, HandlesFit, Busy, CorePcs
<1> QED BY <1>1, <1>2, <1>3 DEF GoInv, Kept

LEMMA OpenStoreStep ==
  ASSUME GoInv, NEW b \in 0 .. MaxOpens, OpenStore(b),
         bridgeSeq' \in 0 .. MaxOpens, bridges' \subseteq 1 .. bridgeSeq', b \in bridges' \cup {0}
  PROVE  Kept
<1> DEFINE h == Len(userdata')
<1>1. /\ userdata \in Seq(0 .. MaxOpens) /\ Len(userdata) \in Nat /\ Len(userdata) < MaxOpens
      /\ userdata' = Append(userdata, b) /\ alive \subseteq DOMAIN userdata /\ MaxOpens \in Nat
  BY GoAssumption DEF GoInv, HandlesOK, HandlesFit, OpenStore
<1>2. /\ userdata' \in Seq(0 .. MaxOpens) /\ h = Len(userdata) + 1 /\ userdata'[h] = b
      /\ DOMAIN userdata' = 1 .. h /\ DOMAIN userdata \subseteq DOMAIN userdata'
  BY <1>1
<1>3. h \in 0 .. MaxOpens /\ h \in 1 .. h
  BY <1>1, <1>2
<1> HIDE DEF h
<1>4. store' = [handle |-> h, bridge |-> b] /\ alive' = alive \cup {h}
  BY DEF OpenStore, h
<1>5. HandlesFit'
  BY <1>1, <1>2, <1>3, <1>4 DEF HandlesFit, h
<1> QED BY <1>5, HandlesChange DEF OpenStore

LEMMA HandlesStep ==
  ASSUME GoInv, OpenFilesystem \/ Open \/ OpenFails \/ Close
  PROVE  Kept
<1>1. /\ bridgeSeq \in 0 .. MaxOpens /\ bridges \subseteq 1 .. bridgeSeq /\ MaxOpens \in Nat
      /\ HandlesFit
  BY GoAssumption DEF GoInv, HandlesOK, HandlesFit
<1>2. CASE OpenFilesystem
  <2>1. OpenStore(0) /\ UNCHANGED <<bridges, bridgeSeq>>
    BY <1>2 DEF OpenFilesystem
  <2> QED BY <1>1, <2>1, OpenStoreStep
<1>3. CASE Open
  <2> DEFINE b == bridgeSeq + 1
  <2>1. OpenStore(b) /\ bridgeSeq' = b /\ bridges' = bridges \cup {b} /\ b \in 0 .. MaxOpens
        /\ b \in 1 .. b /\ 1 .. bridgeSeq \subseteq 1 .. b
    BY <1>1, <1>3 DEF Open
  <2> HIDE DEF b
  <2> QED BY <1>1, <2>1, OpenStoreStep
<1>4. CASE OpenFails
  <2>1. HandlesFit'
    BY <1>1, <1>4 DEF HandlesFit, OpenFails, handles
  <2> QED BY <1>4, <2>1, HandlesChange DEF OpenFails
<1>5. CASE Close
  <2>1. /\ store' = [handle |-> 0, bridge |-> 0] /\ 0 \in 0 .. MaxOpens
        /\ userdata' = userdata /\ bridgeSeq' = bridgeSeq
    BY <1>1, <1>5 DEF Close
  <2>2. alive' \subseteq alive /\ bridges' \subseteq bridges
    BY <1>5 DEF Close, Destroyed
  <2>3. store'.handle = 0 /\ store' \in [handle : 0 .. MaxOpens, bridge : 0 .. MaxOpens]
    BY <2>1
  <2>4. HandlesFit'
    BY <1>1, <2>1, <2>2, <2>3 DEF HandlesFit
  <2> QED BY <1>5, <2>4, HandlesChange DEF Close
<1> QED BY <1>2, <1>3, <1>4, <1>5

-------------------------------------------------------------------------------
(* The invariant                                                                 *)

LEMMA ProgressInit == GoInit => ProgressInv
<1> SUFFICES ASSUME GoInit PROVE ProgressInv
  OBVIOUS
<1>1. \A g \in Goroutines : call[g] = Idle
  BY DEF GoInit
<1>2. CallsOK
  BY <1>1, GoIdle DEF GoInit, CallsOK
<1>3. FilesOK
  BY GoAssumption DEF GoInit, FilesOK
<1>4. HandlesOK
  BY <1>1, GoIdle, GoAssumption, EmptySeq DEF GoInit, HandlesOK, HandlesFit, CorePcs
<1>5. StreamsOK
  <2>1. \A k \in Streams : DOMAIN streams[k] = {} /\ streams[k] \in [DOMAIN streams[k] -> Goroutines]
    BY DEF GoInit
  <2>2. \A g \in Goroutines, k \in Streams : ~Registered(call[g], k)
    BY <1>1, GoIdle DEF Registered, RegisteredPcs, CorePcs
  <2> QED BY <2>1, <2>2 DEF GoInit, StreamsOK
<1>6. HeapOK
  BY <1>1, GoIdle DEF GoInit, HeapOK, Owed
<1>7. Progress(Idle)
  BY GoIdle DEF Progress, IngestOps
<1> QED BY <1>1, <1>2, <1>3, <1>4, <1>5, <1>6, <1>7 DEF ProgressInv, GoInv

LEMMA GoNextStep ==
  ASSUME GoInv, [GoNext]_vars
  PROVE  Kept
<1>1. ASSUME NEW g \in Goroutines, GoStep(g) PROVE Kept
  BY <1>1, RegisterStep, EnterStep, CoreFailsStep, BackendStep, ReadCallbackStep, DigestsOutStep,
     ReadAllStep, ReadToStartsStep, WriteCallbackStep, DoneStep, TakeErrorStep, TakeDigestsStep,
     TakeBytesStep, UnregisterStep DEF GoStep
<1>2. ASSUME UNCHANGED vars PROVE Kept
  <2>1. UNCHANGED <<store, alive, userdata, bridges, bridgeSeq, streams, seq, heap, files, call, calls>>
    BY <1>2 DEF vars, handles, registries
  <2>2. HandlesOK' /\ StreamsOK'
    BY <2>1 DEF GoInv, HandlesOK, HandlesFit, StreamsOK
  <2> QED BY <2>1, <2>2 DEF GoInv, CallsOK, FilesOK, HeapOK, Kept
<1> QED BY <1>1, <1>2, BeginCallStep, HandlesStep DEF GoNext, Rest

LEMMA GoInvariant == GoSpec => []GoInv
<1>1. GoInit => GoInv
  BY ProgressInit DEF ProgressInv
<1>2. GoInv /\ [GoNext]_vars => GoInv'
  BY GoNextStep DEF Kept
<1> QED BY <1>1, <1>2, PTL DEF GoSpec

LEMMA ProgressInvariant == GoSpec => []ProgressInv
<1>1. GoInit => ProgressInv
  BY ProgressInit
<1>2. ProgressInv /\ [GoNext]_vars => ProgressInv'
  BY GoNextStep DEF ProgressInv, Kept
<1> QED BY <1>1, <1>2, PTL DEF GoSpec

-------------------------------------------------------------------------------
(* What follows from it                                                          *)

\* The state keeps its types, and Rust has a buffer for a call exactly while the
\* call is at the step that is to free it: no buffer is freed twice.
THEOREM GoTypeCorrect == GoSpec => []GoTypeOK
<1>1. GoInv => GoTypeOK
  <2> SUFFICES ASSUME GoInv PROVE GoTypeOK
    OBVIOUS
  <2>1. ASSUME NEW g \in Goroutines
        PROVE  /\ <<g, "value">> \in heap <=> call[g].pc = "value"
               /\ call[g].pc = "err" => (<<g, "error">> \in heap <=> call[g].told)
               /\ call[g].pc = "ok" /\ call[g].op \in {"ingest", "ingest_file", "ingest_reader"}
                    => <<g, "digests">> \in heap
    BY DEF GoInv, HeapOK, Owed, Buffers, IngestOps
  <2>2. \A k \in Streams : /\ DOMAIN streams[k] \subseteq 1 .. seq[k]
                           /\ \A i \in DOMAIN streams[k] : streams[k][i] \in Goroutines
    BY DEF GoInv, StreamsOK
  <2> QED BY <2>1, <2>2 DEF GoInv, CallsOK, FilesOK, HandlesOK, HandlesFit, GoTypeOK
<1> QED BY <1>1, GoInvariant, PTL

\* A C function never runs on a store that has been dropped, nor calls back for a
\* Go backend that is no longer registered, because Close waits for no call but
\* the program closes a Store only when none is in progress.
THEOREM LiveStore == GoSpec => []UsesLiveStore
<1>1. GoInv => UsesLiveStore
  BY DEF GoInv, HandlesOK, HandlesFit, UsesLiveStore
<1> QED BY <1>1, GoInvariant, PTL

\* From registration to return, a call's id leads its callbacks to its own reader
\* or writer: ids are never reused, and unregisterReader and unregisterWriter take
\* away nobody else's entry.
THEOREM OwnStreams == GoSpec => []StreamsApart
<1>1. GoInv => StreamsApart
  <2> SUFFICES ASSUME GoInv, NEW g \in Goroutines, Stream(call[g].op) # "none",
                      call[g].pc \in RegisteredPcs
               PROVE  LET k == Stream(call[g].op) IN
                      call[g].id \in DOMAIN streams[k] /\ streams[k][call[g].id] = g
    BY DEF StreamsApart, RegisteredPcs
  <2>1. Stream(call[g].op) \in Streams
    BY GoCall, StreamOf DEF GoRecords
  <2> QED BY <2>1 DEF GoInv, StreamsOK, Registered
<1> QED BY <1>1, GoInvariant, PTL

\* A method that has returned, with a result or an error, has freed every buffer
\* that Rust allocated for it and removed its reader or writer from the registry.
THEOREM LeavesNoBuffer == GoSpec => []NothingLeaks
<1>1. GoInv => NothingLeaks
  <2> SUFFICES ASSUME GoInv, NEW g \in Goroutines, call[g].pc = "idle"
               PROVE  /\ \A kind \in Buffers : <<g, kind>> \notin heap
                      /\ \A k \in Streams : \A i \in DOMAIN streams[k] : streams[k][i] # g
    BY DEF NothingLeaks, Busy, Buffers
  <2>1. \A kind \in Buffers : <<g, kind>> \notin heap
    BY DEF GoInv, HeapOK, Owed
  <2>2. \A k \in Streams : \A i \in DOMAIN streams[k] : streams[k][i] # g
    BY DEF GoInv, StreamsOK, Registered, RegisteredPcs, CorePcs
  <2> QED BY <2>1, <2>2
<1> QED BY <1>1, GoInvariant, PTL

\* An ingest that succeeds has stored what the reader had to give up to its end,
\* the bytes that come with io.EOF included, whichever chunker cuts them, and a
\* reader's error makes the ingest fail, except that a Read of 0 bytes without an
\* error is taken for the end. The bytes Rust has handed on and those it
\* holds are at every callback what the reader has handed out.
THEOREM StoresWhatWasRead == GoSpec => []IngestedWhole
<1>1. ProgressInv => IngestedWhole
  BY DEF ProgressInv, IngestedWhole, Progress, IngestProgress, IngestOps, Unread, Whole
<1> QED BY <1>1, ProgressInvariant, PTL

\* IngestReader holds less than a chunk of the file from one Read to the next, and
\* what has been read is in the store or in the chunker.
THEOREM HoldsLessThanAChunk == GoSpec => []ReaderHeldBounded
<1>1. ProgressInv => ReaderHeldBounded
  BY DEF ProgressInv, ReaderHeldBounded, Progress, IngestProgress, IngestOps, Unread
<1> QED BY <1>1, ProgressInvariant, PTL

\* A Read or ReadTo that succeeds has given Go the whole file as Rust found it,
\* for Read as long as the length is below 2^32.
THEOREM ReadsWhatIsThere == GoSpec => []ReadsWhole
<1>1. ProgressInv => ReadsWhole
  BY DEF ProgressInv, ReadsWhole, Progress, ReadProgress, Cut
<1> QED BY <1>1, ProgressInvariant, PTL
===============================================================================
