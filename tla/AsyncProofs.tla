------------------------------ MODULE AsyncProofs -------------------------------
(* Theorems about ingest_aiter for every number of calls, stores and workers,    *)
(* every stream and every size of a chunk, a read and the queue.                 *)
EXTENDS AsyncProperties, SequenceTheorems, FiniteSetTheorems, TLAPS

-------------------------------------------------------------------------------
(* A run of bytes                                                                *)

LEMMA BytesType ==
  ASSUME NEW a \in Nat, NEW n \in Nat
  PROVE  /\ Bytes(a, n) \in Seq(Byte) /\ Len(Bytes(a, n)) = n
         /\ DOMAIN Bytes(a, n) = 1 .. n
         /\ \A i \in 1 .. n : Bytes(a, n)[i] = a + i
<1>1. \A i \in 1 .. n : a + i \in Byte
  BY DEF Byte
<1>2. Bytes(a, n) \in [1 .. n -> Byte]
  BY <1>1 DEF Bytes
<1> QED BY <1>2 DEF Bytes

LEMMA NoBytes == \A a \in Nat : Bytes(a, 0) = <<>>
BY DEF Bytes

LEMMA BytesJoined ==
  ASSUME NEW a \in Nat, NEW m \in Nat, NEW n \in Nat
  PROVE  Bytes(a, m) \o Bytes(a + m, n) = Bytes(a, m + n)
<1> DEFINE s == Bytes(a, m)
           t == Bytes(a + m, n)
           u == Bytes(a, m + n)
<1>1. a + m \in Nat /\ m + n \in Nat
  OBVIOUS
<1>2. s \in Seq(Byte) /\ Len(s) = m /\ \A i \in 1 .. m : s[i] = a + i
  BY BytesType
<1>3. t \in Seq(Byte) /\ Len(t) = n /\ \A i \in 1 .. n : t[i] = (a + m) + i
  BY <1>1, BytesType
<1>4. u \in Seq(Byte) /\ Len(u) = m + n /\ \A i \in 1 .. m + n : u[i] = a + i
  BY <1>1, BytesType
<1> HIDE DEF s, t, u
<1>5. /\ s \o t \in Seq(Byte) /\ Len(s \o t) = m + n
      /\ \A i \in 1 .. m + n : (s \o t)[i] = IF i <= m THEN s[i] ELSE t[i - m]
  BY <1>2, <1>3, ConcatProperties
<1>6. ASSUME NEW i \in 1 .. m + n PROVE (s \o t)[i] = u[i]
  <2>1. CASE i <= m
    BY <1>2, <1>4, <1>5, <2>1
  <2>2. CASE ~(i <= m)
    <3>1. i - m \in 1 .. n
      BY <2>2
    <3>2. t[i - m] = (a + m) + (i - m)
      BY <1>3, <3>1
    <3>3. u[i] = a + i /\ (s \o t)[i] = t[i - m]
      BY <1>4, <1>5, <2>2
    <3>4. (a + m) + (i - m) = a + i
      OBVIOUS
    <3> QED BY <3>2, <3>3, <3>4
  <2> QED BY <2>1, <2>2
<1> QED BY <1>4, <1>5, <1>6, SeqEqual DEF s, t, u

LEMMA BytesCut ==
  ASSUME NEW a \in Nat, NEW n \in Nat, NEW x \in 1 .. n + 1, NEW y \in x - 1 .. n
  PROVE  SubSeq(Bytes(a, n), x, y) = Bytes(a + (x - 1), y - (x - 1))
<1> DEFINE s == Bytes(a, n)
           k == y - (x - 1)
           u == Bytes(a + (x - 1), k)
<1>1. k \in Nat /\ a + (x - 1) \in Nat
  OBVIOUS
<1>2. /\ s \in Seq(Byte) /\ Len(s) = n /\ \A i \in 1 .. n : s[i] = a + i
      /\ u \in Seq(Byte) /\ Len(u) = k /\ \A i \in 1 .. k : u[i] = (a + (x - 1)) + i
  BY <1>1, BytesType
<1> DEFINE v == SubSeq(s, x, y)
<1> HIDE DEF s, u
<1>3. v \in Seq(Byte) /\ Len(v) = k /\ \A i \in 1 .. k : v[i] = s[x + i - 1]
  BY <1>1, <1>2, SubSeqProperties
<1> HIDE DEF v
<1>4. \A i \in 1 .. k : v[i] = u[i]
  BY <1>1, <1>2, <1>3
<1> QED BY <1>2, <1>3, <1>4, SeqEqual DEF s, u, v

LEMMA BytesRange ==
  ASSUME NEW a \in Nat, NEW n \in Nat
  PROVE  Range(Bytes(a, n)) = a + 1 .. a + n
<1> DEFINE s == Bytes(a, n)
<1>1. DOMAIN s = 1 .. n /\ \A i \in 1 .. n : s[i] = a + i
  BY BytesType
<1> HIDE DEF s
<1>2. Range(s) \subseteq a + 1 .. a + n
  BY <1>1 DEF Range
<1>3. ASSUME NEW p \in a + 1 .. a + n PROVE p \in Range(s)
  <2>1. p - a \in 1 .. n /\ s[p - a] = p
    BY <1>1
  <2> QED BY <1>1, <2>1 DEF Range
<1> QED BY <1>2, <1>3 DEF s

-------------------------------------------------------------------------------
(* A stream and its chunks                                                       *)

\* How many blocks a call's source has; the offset after its first i items, None
\* the last; the i-th item.
Count(c)   == Len(source[c])
Upto(c, i) == End(c, IF i <= Count(c) THEN i ELSE Count(c))
Item(c, i) == IF i <= Count(c) THEN Block(c, i) ELSE None

SourceOK == source \in [Calls -> Sources]

LEMMA Offsets ==
  ASSUME SourceOK, NEW c \in Calls
  PROVE  /\ Count(c) \in Nat /\ Size(c) \in Nat
         /\ \A i \in Nat : Upto(c, i) \in 0 .. Size(c)
         /\ \A i, j \in Nat : i <= j => Upto(c, i) <= Upto(c, j)
         /\ Upto(c, Count(c)) = Size(c) /\ Upto(c, Count(c) + 1) = Size(c) /\ Upto(c, 0) = 0
         /\ \A i \in 0 .. Count(c) : End(c, i) = Upto(c, i)
<1> DEFINE s == source[c]
           n == Len(s)
<1>1. /\ s \in Seq(Nat) /\ n \in Nat /\ DOMAIN s = 1 .. n
      /\ \A i, j \in 1 .. n : i <= j => s[i] <= s[j]
  <2>1. s \in Sources
    BY DEF SourceOK
  <2>2. s \in Seq(Nat)
    BY <2>1, AsyncAssumption
  <2> HIDE DEF s
  <2> QED BY <2>1, <2>2, AsyncAssumption
<1> HIDE DEF s
<1>2. \A i \in 1 .. n : s[i] \in Nat
  BY <1>1
<1>3. Count(c) = n /\ \A i \in 0 .. n : End(c, i) = IF i = 0 THEN 0 ELSE s[i]
  BY DEF Count, End, s
<1> HIDE DEF n
<1>4. /\ \A i \in 0 .. n : End(c, i) \in Nat
      /\ \A i, j \in 0 .. n : i <= j => End(c, i) <= End(c, j)
  BY <1>1, <1>2, <1>3
<1>5. Size(c) = End(c, n)
  BY DEF Size, n, s
<1>6. End(c, 0) = 0
  BY DEF End
<1>7. \A i \in Nat : Upto(c, i) = End(c, IF i <= n THEN i ELSE n)
  BY <1>3 DEF Upto
<1>8. \A i \in Nat : (IF i <= n THEN i ELSE n) \in 0 .. n
  BY <1>1
<1>9. \A i, j \in Nat : i <= j => (IF i <= n THEN i ELSE n) <= (IF j <= n THEN j ELSE n)
  BY <1>1
<1> QED BY <1>1, <1>3, <1>4, <1>5, <1>6, <1>7, <1>8, <1>9

LEMMA BlockBytes ==
  ASSUME SourceOK, NEW c \in Calls, NEW i \in 1 .. Count(c)
  PROVE  /\ Upto(c, i) - Upto(c, i - 1) \in Nat
         /\ Block(c, i) = Bytes(Upto(c, i - 1), Upto(c, i) - Upto(c, i - 1))
         /\ Block(c, i) \in Seq(Byte)
         /\ Len(Block(c, i)) = Upto(c, i) - Upto(c, i - 1)
         /\ Block(c, i) # None
<1>1. i - 1 \in 0 .. Count(c) /\ i \in 0 .. Count(c) /\ i - 1 \in Nat /\ i \in Nat /\ i - 1 <= i
  BY Offsets
<1>2. /\ Upto(c, i) \in Nat /\ Upto(c, i - 1) \in Nat /\ Upto(c, i - 1) <= Upto(c, i)
      /\ End(c, i) = Upto(c, i) /\ End(c, i - 1) = Upto(c, i - 1)
  BY <1>1, Offsets
<1>3. Upto(c, i) - Upto(c, i - 1) \in Nat
  BY <1>2
<1>4. Block(c, i) = Bytes(Upto(c, i - 1), Upto(c, i) - Upto(c, i - 1))
  BY <1>2 DEF Block
<1>5. Block(c, i) \in Seq(Byte) /\ Len(Block(c, i)) = Upto(c, i) - Upto(c, i - 1)
  BY <1>2, <1>3, <1>4, BytesType
<1>6. Block(c, i) \in Seq(Nat)
  BY <1>5 DEF Byte
<1>7. Block(c, i) # None
  BY <1>6, AsyncAssumption
<1> QED BY <1>3, <1>4, <1>5, <1>7

\* The i-th chunk of a stream.
Piece(c, i) == Bytes((i - 1) * ChunkSize, (IF i * ChunkSize < Size(c) THEN i * ChunkSize ELSE Size(c))
                                          - (i - 1) * ChunkSize)

LEMMA Multiples ==
  ASSUME NEW n \in Nat, NEW k \in Nat \ {0}
  PROVE  n \div k \in Nat /\ (n \div k) * k <= n /\ n < (n \div k) * k + k
<1>1. n = k * (n \div k) + (n % k) /\ n % k \in 0 .. k - 1 /\ n \div k \in Nat
  OBVIOUS
<1> QED BY <1>1

LEMMA Products ==
  ASSUME NEW i \in Nat, NEW j \in Nat, NEW k \in Nat
  PROVE  /\ i * k \in Nat /\ i <= j => i * k <= j * k
         /\ (i + 1) * k = i * k + k /\ (i + j) * k = i * k + j * k
<1>1. i * k \in Nat /\ (i + 1) * k = i * k + k /\ (i + j) * k = i * k + j * k
  OBVIOUS
<1>2. ASSUME i <= j PROVE i * k <= j * k
  <2>1. j - i \in Nat /\ (j - i) * k \in Nat /\ j * k = i * k + (j - i) * k
    BY <1>2
  <2> QED BY <1>1, <2>1
<1> QED BY <1>1, <1>2

LEMMA WholePiece ==
  ASSUME SourceOK, NEW c \in Calls, NEW i \in Nat \ {0}, i * ChunkSize <= Size(c)
  PROVE  Piece(c, i) = Bytes((i - 1) * ChunkSize, ChunkSize)
<1>1. ChunkSize \in Nat /\ i - 1 \in Nat /\ Size(c) \in Nat
  BY AsyncAssumption, Offsets
<1>2. (i - 1) * ChunkSize \in Nat /\ i * ChunkSize = (i - 1) * ChunkSize + ChunkSize
  BY <1>1, Products
<1>3. (IF i * ChunkSize < Size(c) THEN i * ChunkSize ELSE Size(c)) - (i - 1) * ChunkSize = ChunkSize
  BY <1>1, <1>2
<1> QED BY <1>3 DEF Piece

LEMMA LastPiece ==
  ASSUME SourceOK, NEW c \in Calls, NEW n \in Nat, NEW r \in Nat,
         n * ChunkSize + r = Size(c), r < ChunkSize
  PROVE  Piece(c, n + 1) = Bytes(n * ChunkSize, r)
<1>1. ChunkSize \in Nat /\ n * ChunkSize \in Nat /\ (n + 1) * ChunkSize = n * ChunkSize + ChunkSize
      /\ (n + 1) - 1 = n
  BY AsyncAssumption, Products
<1>2. (IF (n + 1) * ChunkSize < Size(c) THEN (n + 1) * ChunkSize ELSE Size(c)) - n * ChunkSize = r
  BY <1>1
<1> QED BY <1>1, <1>2 DEF Piece

LEMMA PiecesOf ==
  ASSUME SourceOK, NEW c \in Calls, NEW all, all = Pieces(Stream(c))
  PROVE  /\ all \in Seq(Seq(Byte)) /\ Len(all) \in Nat
         /\ \A i \in 1 .. Len(all) : all[i] = Piece(c, i)
         /\ \A n \in Nat : n * ChunkSize <= Size(c) => n <= Len(all)
         /\ \A n, r \in Nat : n * ChunkSize + r = Size(c) /\ r < ChunkSize =>
              Len(all) = IF r = 0 THEN n ELSE n + 1
<1> DEFINE t == Size(c)
           s == Stream(c)
           k == (t + ChunkSize - 1) \div ChunkSize
           till(i) == IF i * ChunkSize < t THEN i * ChunkSize ELSE t
<1>1. ChunkSize \in Nat \ {0} /\ t \in Nat /\ t + ChunkSize - 1 \in Nat
  <2>1. ChunkSize \in Nat \ {0}
    BY AsyncAssumption
  <2>2. t \in Nat
    BY Offsets
  <2> QED BY <2>1, <2>2
<1>2. k \in Nat /\ k * ChunkSize <= t + ChunkSize - 1 /\ t + ChunkSize - 1 < k * ChunkSize + ChunkSize
  BY <1>1, Multiples
<1>3. s = Bytes(0, t) /\ Len(s) = t
  BY <1>1, BytesType DEF Stream
<1>4. all = [i \in 1 .. k |-> SubSeq(s, (i - 1) * ChunkSize + 1, till(i))]
  BY <1>3 DEF Pieces
<1> HIDE DEF k, t
<1>5. ASSUME NEW i \in 1 .. k
      PROVE  SubSeq(s, (i - 1) * ChunkSize + 1, till(i)) = Piece(c, i) /\ Piece(c, i) \in Seq(Byte)
  <2> DEFINE a == (i - 1) * ChunkSize
  <2>1. i - 1 \in Nat /\ i \in Nat /\ i <= k
    BY <1>2
  <2>2. a \in Nat /\ i * ChunkSize = a + ChunkSize /\ i * ChunkSize <= k * ChunkSize
    <3>1. (i - 1) + 1 = i
      BY <2>1
    <3> QED BY <1>1, <1>2, <2>1, <3>1, Products
  <2> HIDE DEF a
  <2>3. a < t /\ till(i) \in a .. t
    BY <1>1, <1>2, <2>2
  <2> HIDE DEF till
  <2>4. a + 1 \in 1 .. t + 1 /\ till(i) \in (a + 1) - 1 .. t /\ (a + 1) - 1 = a /\ 0 + a = a
    BY <1>1, <2>2, <2>3
  <2>5. SubSeq(s, a + 1, till(i)) = Bytes(a, till(i) - a)
    <3> DEFINE x == a + 1
    <3>1. x \in 1 .. t + 1 /\ till(i) \in x - 1 .. t /\ 0 + (x - 1) = a /\ x - 1 = a
      BY <2>2, <2>4
    <3> HIDE DEF x
    <3>2. SubSeq(Bytes(0, t), x, till(i)) = Bytes(0 + (x - 1), till(i) - (x - 1))
      BY <1>1, <3>1, BytesCut
    <3> QED BY <1>3, <3>1, <3>2 DEF x
  <2>6. Piece(c, i) = Bytes(a, till(i) - a)
    BY DEF Piece, a, till, t
  <2>7. till(i) - a \in Nat
    BY <1>1, <2>2, <2>3
  <2>8. Bytes(a, till(i) - a) \in Seq(Byte)
    BY <2>2, <2>7, BytesType
  <2> QED BY <2>5, <2>6, <2>8 DEF a
<1> HIDE DEF s, till
<1>6. all \in [1 .. k -> Seq(Byte)] /\ \A i \in 1 .. k : all[i] = Piece(c, i)
  BY <1>4, <1>5
<1>7. all \in Seq(Seq(Byte)) /\ Len(all) = k
  BY <1>2, <1>6
<1>8. ASSUME NEW n \in Nat, n * ChunkSize <= t PROVE n <= k
  <2>1. CASE n > k
    <3>1. k + 1 <= n /\ k + 1 \in Nat
      BY <1>2, <2>1
    <3>2. (k + 1) * ChunkSize <= n * ChunkSize /\ (k + 1) * ChunkSize = k * ChunkSize + ChunkSize
      BY <1>1, <1>2, <3>1, Products
    <3>3. k * ChunkSize \in Nat /\ n * ChunkSize \in Nat
      BY <1>1, <1>2, Products
    <3> QED BY <1>1, <1>2, <1>8, <3>2, <3>3
  <2> QED BY <1>2, <2>1
<1>9. ASSUME NEW n \in Nat, NEW r \in Nat, n * ChunkSize + r = t, r < ChunkSize
      PROVE  k = IF r = 0 THEN n ELSE n + 1
  <2>1. n * ChunkSize \in Nat /\ k * ChunkSize \in Nat /\ (n + 1) * ChunkSize = n * ChunkSize + ChunkSize
        /\ n + 1 \in Nat
    BY <1>1, <1>2, Products
  <2>2. n <= k
    BY <1>1, <1>8, <1>9, <2>1
  <2>3. CASE r = 0
    <3>1. CASE n + 1 <= k
      <4>1. (n + 1) * ChunkSize <= k * ChunkSize
        BY <1>1, <1>2, <2>1, <3>1, Products
      <4> QED BY <1>1, <1>2, <1>9, <2>1, <2>3, <4>1
    <3> QED BY <1>2, <2>2, <2>3, <3>1
  <2>4. CASE r # 0
    <3>1. CASE k = n
      BY <1>1, <1>2, <1>9, <2>1, <2>4, <3>1
    <3>2. CASE n + 2 <= k
      <4>1. (n + 2) * ChunkSize <= k * ChunkSize /\ (n + 2) * ChunkSize = n * ChunkSize + 2 * ChunkSize
        <5>1. n + 2 \in Nat /\ 2 \in Nat
          OBVIOUS
        <5> QED BY <1>1, <1>2, <3>2, <5>1, Products
      <4> QED BY <1>1, <1>2, <1>9, <2>1, <2>4, <4>1
    <3> QED BY <1>2, <2>2, <2>4, <3>1, <3>2
  <2> QED BY <2>3, <2>4
<1> QED BY <1>2, <1>6, <1>7, <1>8, <1>9 DEF t

-------------------------------------------------------------------------------
(* Jobs and locks                                                                *)

JobNames    == {"put", "ingest"} \X Calls
BusyPcs     == {"read", "store", "put", "count", "save", "commit"}
WaitingJobs == {pending[i] : i \in DOMAIN pending}

\* A job is in one place, and its call is at the step that waits for it.
JobsOK ==
  /\ pending \in Seq(JobNames) /\ running \subseteq JobNames
  /\ \A i, j \in DOMAIN pending : pending[i] = pending[j] => i = j
  /\ WaitingJobs \cap running = {}
  /\ \A c \in Calls :
       /\ PutJob(c) \in WaitingJobs \cup running => prod[c].pc = "put"
       /\ IngestJob(c) \in WaitingJobs => prod[c].pc # "idle" /\ work[c].pc = "idle"
       /\ IngestJob(c) \in running <=> work[c].pc \notin {"idle", "ok", "failed"}
       /\ prod[c].pc = "idle" => work[c].pc = "idle"

HoldsGil(pc, c) == pc \in RustPcs \/ (pc \in IoPcs /\ Native(StoreOf[c]))

HeldBy(c) ==
  /\ gil = c <=> HoldsGil(work[c].pc, c)
  /\ blobLock[StoreOf[c]] = c <=> work[c].pc = "put"
  /\ refLock[StoreOf[c]] = c <=> work[c].pc = "save"
  /\ future[c] \in {"none"} \cup
       (IF bridge[StoreOf[c]] # "none" /\ work[c].pc \in IoPcs THEN {"asked", "done"} ELSE {})
  /\ result[c] = "ok" => work[c].pc = "ok"

LockTypes ==
  /\ gil \in Calls \cup {None}
  /\ blobLock \in [Stores -> Calls \cup {None}] /\ refLock \in [Stores -> Calls \cup {None}]
  /\ bridge \in [Stores -> {"none", "running", "stopping", "stopped"}]
  /\ closing \in Stores \cup {None} /\ result \in [Calls -> {"none", "ok", "err"}]
  /\ faults \in Nat /\ DOMAIN future = Calls

LocksOK == LockTypes /\ \A c \in Calls : HeldBy(c)

-------------------------------------------------------------------------------
(* Where the bytes of a stream are                                               *)

Prods    == [pc : {"idle", "pull", "put", "done", "raised"}, pulled : Nat,
             item : Seq(Byte) \cup {None}]
QReaders == [buf : Seq(Byte), eof : BOOLEAN]
Works    == [pc : WorkPcs, rest : Seq(Byte), todo : Seq(Seq(Byte)), last : BOOLEAN]

DataTypes ==
  /\ SourceOK /\ prod \in [Calls -> Prods] /\ queue \in [Calls -> Seq(Seq(Byte) \cup {None})]
  /\ reader \in [Calls -> QReaders] /\ work \in [Calls -> Works]
  /\ stored \in [Calls -> Seq(Seq(Byte))]

\* How many items have been put on the queue, and how many taken off it.
Puts(c) == IF prod[c].pc = "put" THEN prod[c].pulled - 1 ELSE prod[c].pulled
Gets(c) == Puts(c) - Len(queue[c])

\* The queue has the items after those the reader took, in order.
QueueOK(c) ==
  /\ prod[c].pulled <= Count(c) + 1
  /\ prod[c].pc \in {"idle", "pull", "raised"} => prod[c].pulled <= Count(c)
  /\ prod[c].pc = "put" => prod[c].pulled >= 1 /\ prod[c].item = Item(c, prod[c].pulled)
  /\ Gets(c) >= 0 /\ Len(queue[c]) <= QueueSize
  /\ \A j \in 1 .. Len(queue[c]) : queue[c][j] = Item(c, Gets(c) + j)
  /\ reader[c].eof <=> Gets(c) = Count(c) + 1

\* What is in the queue from its j-th item on is at most as many of the longest
\* blocks.
SpreadOK(c) ==
  \A longest \in Nat : NoBlockLonger(c, longest) =>
    \A j \in 0 .. Len(queue[c]) :
      Upto(c, Puts(c)) - Upto(c, Gets(c) + j) <= (Len(queue[c]) - j) * longest

\* Chunks stored, chunks cut, the rest and the reader's buffer follow each other
\* up to what was taken off the queue.
Cut(c)      == Len(stored[c]) + Len(work[c].todo)
ChunksOK(c) == /\ \A i \in 1 .. Len(stored[c]) : stored[c][i] = Piece(c, i)
               /\ \A j \in 1 .. Len(work[c].todo) : work[c].todo[j] = Piece(c, Len(stored[c]) + j)
RestOK(c)   == LET at == Cut(c) * ChunkSize
                   r  == Len(work[c].rest)
                   b  == Len(reader[c].buf)
               IN  /\ r < ChunkSize /\ at + r + b = Upto(c, Gets(c))
                   /\ work[c].rest = Bytes(at, r) /\ reader[c].buf = Bytes(at + r, b)
EndOK(c)    == /\ reader[c].eof /\ work[c].rest = <<>> /\ reader[c].buf = <<>>
               /\ Len(work[c].todo) <= 1 /\ Cut(c) = Len(Pieces(Stream(c)))
CutOK(c)    == ChunksOK(c) /\ (IF work[c].last THEN EndOK(c) ELSE RestOK(c))

\* What was taken off the queue and is not stored is less than a read, a chunk and
\* a block.
LoadOK(c) ==
  \A longest \in Nat : NoBlockLonger(c, longest) =>
    /\ Len(reader[c].buf) <= ReadSize - 1 + longest
    /\ Upto(c, Gets(c)) - Len(stored[c]) * ChunkSize <= (ReadSize - 1) + longest + (ChunkSize - 1)

\* The step a worker is at, and what it has to store.
StageOK(w) ==
  /\ w.pc \in {"idle", "read"} => w.todo = <<>> /\ ~w.last
  /\ w.pc \in {"store", "put", "count", "save"} => w.todo # <<>>
  /\ w.pc \in {"commit", "ok"} => w.todo = <<>> /\ w.last

StreamOK(c) == QueueOK(c) /\ SpreadOK(c) /\ CutOK(c) /\ LoadOK(c) /\ StageOK(work[c])

Streams  == \A c \in Calls : StreamOK(c)
AsyncInv == JobsOK /\ LocksOK /\ DataTypes /\ Streams

-------------------------------------------------------------------------------
(* The jobs                                                                      *)

LEMMA JobsDiffer ==
  \A c, d \in Calls :
    /\ PutJob(c) \in JobNames /\ IngestJob(c) \in JobNames
    /\ PutJob(c) # IngestJob(d)
    /\ PutJob(c) = PutJob(d) => c = d
    /\ IngestJob(c) = IngestJob(d) => c = d
BY DEF PutJob, IngestJob, JobNames

\* A new job goes to the end of the queue.
LEMMA NewJob ==
  ASSUME JobsOK, NEW job \in JobNames, job \notin WaitingJobs \cup running,
         pending' = Append(pending, job), running' = running
  PROVE  /\ pending' \in Seq(JobNames) /\ WaitingJobs' = WaitingJobs \cup {job}
         /\ \A i, j \in DOMAIN pending' : pending'[i] = pending'[j] => i = j
         /\ WaitingJobs' \cap running' = {}
<1> DEFINE n == Len(pending)
           q == pending'
<1>1. pending \in Seq(JobNames) /\ n \in Nat /\ DOMAIN pending = 1 .. n
  BY DEF JobsOK
<1>2. /\ q \in Seq(JobNames) /\ Len(q) = n + 1 /\ DOMAIN q = 1 .. n + 1
      /\ q[n + 1] = job /\ \A i \in 1 .. n : q[i] = pending[i]
  BY <1>1
<1> HIDE DEF n
<1>3. WaitingJobs' = {q[i] : i \in DOMAIN q}
  BY DEF WaitingJobs
<1> HIDE DEF q
<1>4. \A i \in 1 .. n : pending[i] \in WaitingJobs
  BY <1>1 DEF WaitingJobs
<1>5. WaitingJobs' = WaitingJobs \cup {job}
  <2>1. WaitingJobs' \subseteq WaitingJobs \cup {job}
    <3> SUFFICES ASSUME NEW i \in 1 .. n + 1 PROVE q[i] \in WaitingJobs \cup {job}
      BY <1>2, <1>3
    <3>1. i \in 1 .. n \/ i = n + 1
      BY <1>1
    <3> QED BY <1>2, <1>4, <3>1
  <2>2. n + 1 \in 1 .. n + 1 /\ \A i \in 1 .. n : i \in 1 .. n + 1
    BY <1>1
  <2>3. WaitingJobs \cup {job} \subseteq WaitingJobs'
    BY <1>1, <1>2, <1>3, <2>2 DEF WaitingJobs
  <2> QED BY <2>1, <2>3
<1>6. \A i, j \in DOMAIN q : q[i] = q[j] => i = j
  <2> SUFFICES ASSUME NEW i \in 1 .. n + 1, NEW j \in 1 .. n + 1, q[i] = q[j] PROVE i = j
    BY <1>2
  <2>1. (i \in 1 .. n \/ i = n + 1) /\ (j \in 1 .. n \/ j = n + 1)
    BY <1>1
  <2> QED BY <1>1, <1>2, <1>4, <2>1 DEF JobsOK
<1>7. WaitingJobs' \cap running' = {}
  BY <1>5 DEF JobsOK
<1> QED BY <1>2, <1>5, <1>6, <1>7 DEF q

\* The oldest job goes to a worker.
LEMMA OldestJob ==
  ASSUME JobsOK, RunJob
  PROVE  /\ Head(pending) \in WaitingJobs /\ Head(pending) \in JobNames
         /\ pending' \in Seq(JobNames) /\ WaitingJobs' = WaitingJobs \ {Head(pending)}
         /\ running' = running \cup {Head(pending)}
         /\ \A i, j \in DOMAIN pending' : pending'[i] = pending'[j] => i = j
         /\ WaitingJobs' \cap running' = {}
<1> DEFINE n == Len(pending)
           h == Head(pending)
           q == pending'
<1>1. pending \in Seq(JobNames) /\ n \in Nat \ {0} /\ DOMAIN pending = 1 .. n
  BY DEF JobsOK, RunJob
<1>2. h = pending[1] /\ h \in JobNames /\ 1 \in 1 .. n
  BY <1>1
<1>3. /\ q \in Seq(JobNames) /\ Len(q) = n - 1 /\ DOMAIN q = 1 .. n - 1
      /\ \A i \in 1 .. n - 1 : q[i] = pending[i + 1]
  BY <1>1 DEF RunJob
<1>4. running' = running \cup {h}
  BY DEF RunJob
<1> HIDE DEF n, h
<1>5. WaitingJobs' = {q[i] : i \in DOMAIN q}
  BY DEF WaitingJobs
<1> HIDE DEF q
<1>6. \A i, j \in 1 .. n : pending[i] = pending[j] => i = j
  BY <1>1 DEF JobsOK
<1>7. WaitingJobs' = WaitingJobs \ {h}
  <2>1. ASSUME NEW i \in 1 .. n - 1 PROVE q[i] \in WaitingJobs \ {h}
    <3>1. i + 1 \in 1 .. n /\ i + 1 # 1
      BY <1>1
    <3> QED BY <1>1, <1>2, <1>3, <1>6, <3>1 DEF WaitingJobs
  <2>2. ASSUME NEW i \in 1 .. n, pending[i] # h PROVE pending[i] \in WaitingJobs'
    <3>1. i # 1
      BY <1>2, <2>2
    <3>2. i - 1 \in 1 .. n - 1 /\ (i - 1) + 1 = i
      BY <1>1, <3>1
    <3>3. q[i - 1] = pending[i]
      BY <1>3, <3>2
    <3> QED BY <1>3, <1>5, <3>2, <3>3
  <2>3. WaitingJobs' \subseteq WaitingJobs \ {h}
    BY <1>3, <1>5, <2>1
  <2>4. WaitingJobs \ {h} \subseteq WaitingJobs'
    BY <1>1, <2>2 DEF WaitingJobs
  <2> QED BY <2>3, <2>4
<1>8. \A i, j \in DOMAIN q : q[i] = q[j] => i = j
  <2> SUFFICES ASSUME NEW i \in 1 .. n - 1, NEW j \in 1 .. n - 1, q[i] = q[j] PROVE i = j
    BY <1>3
  <2>1. i + 1 \in 1 .. n /\ j + 1 \in 1 .. n
    BY <1>1
  <2>2. i + 1 = j + 1
    BY <1>3, <1>6, <2>1
  <2> QED BY <2>2
<1>9. h \in WaitingJobs
  BY <1>1, <1>2 DEF WaitingJobs
<1>10. WaitingJobs' \cap running' = {}
  BY <1>4, <1>7 DEF JobsOK
<1> QED BY <1>2, <1>3, <1>4, <1>7, <1>8, <1>9, <1>10 DEF h, q

LEMMA JobsSame ==
  ASSUME JobsOK, UNCHANGED jobs, \A d \in Calls : prod'[d].pc = prod[d].pc,
         \A d \in Calls : work'[d].pc = work[d].pc \/ {work[d].pc, work'[d].pc} \subseteq BusyPcs
  PROVE  JobsOK'
<1>1. WaitingJobs' = WaitingJobs /\ pending' = pending /\ running' = running
  BY DEF WaitingJobs, jobs
<1>2. ASSUME NEW d \in Calls
      PROVE  /\ PutJob(d) \in WaitingJobs' \cup running' => prod'[d].pc = "put"
             /\ IngestJob(d) \in WaitingJobs' => prod'[d].pc # "idle" /\ work'[d].pc = "idle"
             /\ IngestJob(d) \in running' <=> work'[d].pc \notin {"idle", "ok", "failed"}
             /\ prod'[d].pc = "idle" => work'[d].pc = "idle"
  BY <1>1 DEF JobsOK, BusyPcs
<1> QED BY <1>1, <1>2 DEF JobsOK

\* A worker's last step.
LEMMA JobsEnd ==
  ASSUME JobsOK, NEW c \in Calls, work[c].pc \in BusyPcs, work'[c].pc \in {"ok", "failed"},
         \A d \in Calls \ {c} : work'[d] = work[d], prod' = prod,
         pending' = pending, running' = running \ {IngestJob(c)}
  PROVE  JobsOK'
<1>1. WaitingJobs' = WaitingJobs
  BY DEF WaitingJobs
<1>2. IngestJob(c) \notin WaitingJobs
  BY DEF JobsOK, BusyPcs
<1>3. ASSUME NEW d \in Calls
      PROVE  /\ PutJob(d) \in WaitingJobs' \cup running' => prod'[d].pc = "put"
             /\ IngestJob(d) \in WaitingJobs' => prod'[d].pc # "idle" /\ work'[d].pc = "idle"
             /\ IngestJob(d) \in running' <=> work'[d].pc \notin {"idle", "ok", "failed"}
             /\ prod'[d].pc = "idle" => work'[d].pc = "idle"
  <2>1. CASE d = c
    BY <1>1, <1>2, <2>1 DEF JobsOK, BusyPcs
  <2>2. CASE d # c
    BY <1>1, <2>2, JobsDiffer DEF JobsOK
  <2> QED BY <2>1, <2>2
<1> QED BY <1>1, <1>3 DEF JobsOK
LEMMA JobsStart ==
  ASSUME JobsOK, DataTypes, NEW c \in Calls, Start(c)
  PROVE  JobsOK'
<1>1. /\ work' = work /\ \A d \in Calls \ {c} : prod'[d] = prod[d]
      /\ prod[c].pc = "idle" /\ prod'[c].pc = "pull"
  BY DEF Start, DataTypes, Prods
<1>2. work[c].pc = "idle" /\ IngestJob(c) \notin WaitingJobs \cup running
  BY <1>1 DEF JobsOK
<1>3. /\ pending' \in Seq(JobNames) /\ WaitingJobs' = WaitingJobs \cup {IngestJob(c)}
      /\ \A i, j \in DOMAIN pending' : pending'[i] = pending'[j] => i = j
      /\ WaitingJobs' \cap running' = {} /\ running' = running
  BY <1>2, JobsDiffer, NewJob DEF Start
<1>4. ASSUME NEW d \in Calls
      PROVE  /\ PutJob(d) \in WaitingJobs' \cup running' => prod'[d].pc = "put"
             /\ IngestJob(d) \in WaitingJobs' => prod'[d].pc # "idle" /\ work'[d].pc = "idle"
             /\ IngestJob(d) \in running' <=> work'[d].pc \notin {"idle", "ok", "failed"}
             /\ prod'[d].pc = "idle" => work'[d].pc = "idle"
  <2>1. CASE d = c
    BY <1>1, <1>2, <1>3, <2>1, JobsDiffer DEF JobsOK
  <2>2. CASE d # c
    BY <1>1, <1>3, <2>2, JobsDiffer DEF JobsOK
  <2> QED BY <2>1, <2>2
<1> QED BY <1>3, <1>4 DEF JobsOK

LEMMA JobsPull ==
  ASSUME JobsOK, DataTypes, NEW c \in Calls, Pull(c)
  PROVE  JobsOK'
<1>1. /\ work' = work /\ \A d \in Calls \ {c} : prod'[d] = prod[d]
      /\ prod[c].pc = "pull" /\ prod'[c].pc = "put"
  BY DEF Pull, DataTypes, Prods
<1>2. PutJob(c) \notin WaitingJobs \cup running
  BY <1>1 DEF JobsOK
<1>3. /\ pending' \in Seq(JobNames) /\ WaitingJobs' = WaitingJobs \cup {PutJob(c)}
      /\ \A i, j \in DOMAIN pending' : pending'[i] = pending'[j] => i = j
      /\ WaitingJobs' \cap running' = {} /\ running' = running
  BY <1>2, JobsDiffer, NewJob DEF Pull
<1>4. ASSUME NEW d \in Calls
      PROVE  /\ PutJob(d) \in WaitingJobs' \cup running' => prod'[d].pc = "put"
             /\ IngestJob(d) \in WaitingJobs' => prod'[d].pc # "idle" /\ work'[d].pc = "idle"
             /\ IngestJob(d) \in running' <=> work'[d].pc \notin {"idle", "ok", "failed"}
             /\ prod'[d].pc = "idle" => work'[d].pc = "idle"
  <2>1. CASE d = c
    BY <1>1, <1>2, <1>3, <2>1, JobsDiffer DEF JobsOK
  <2>2. CASE d # c
    BY <1>1, <1>3, <2>2, JobsDiffer DEF JobsOK
  <2> QED BY <2>1, <2>2
<1> QED BY <1>3, <1>4 DEF JobsOK

LEMMA JobsPut ==
  ASSUME JobsOK, DataTypes, NEW c \in Calls,
         prod[c].pc \in {"pull", "put"}, prod'[c].pc \in {"pull", "raised", "done"},
         \A d \in Calls \ {c} : prod'[d] = prod[d],
         work' = work, pending' = pending, PutJob(c) \notin WaitingJobs,
         running' = running \ {PutJob(c)}
  PROVE  JobsOK'
<1>1. WaitingJobs' = WaitingJobs
  BY DEF WaitingJobs
<1>2. ASSUME NEW d \in Calls
      PROVE  /\ PutJob(d) \in WaitingJobs' \cup running' => prod'[d].pc = "put"
             /\ IngestJob(d) \in WaitingJobs' => prod'[d].pc # "idle" /\ work'[d].pc = "idle"
             /\ IngestJob(d) \in running' <=> work'[d].pc \notin {"idle", "ok", "failed"}
             /\ prod'[d].pc = "idle" => work'[d].pc = "idle"
  <2>1. CASE d = c
    BY <1>1, <2>1, JobsDiffer DEF JobsOK
  <2>2. CASE d # c
    BY <1>1, <2>2, JobsDiffer DEF JobsOK
  <2> QED BY <2>1, <2>2
<1> QED BY <1>1, <1>2 DEF JobsOK

LEMMA JobsRun ==
  ASSUME JobsOK, DataTypes, RunJob
  PROVE  JobsOK'
<1> DEFINE h == Head(pending)
<1>1. /\ h \in WaitingJobs /\ h \in JobNames
      /\ pending' \in Seq(JobNames) /\ WaitingJobs' = WaitingJobs \ {h}
      /\ running' = running \cup {h}
      /\ \A i, j \in DOMAIN pending' : pending'[i] = pending'[j] => i = j
      /\ WaitingJobs' \cap running' = {}
  BY OldestJob
<1>2. /\ prod' = prod
      /\ \A d \in Calls : h = IngestJob(d) => work'[d].pc = "read"
      /\ \A d \in Calls : h # IngestJob(d) => work'[d] = work[d]
  BY DEF RunJob, DataTypes, Works
<1> HIDE DEF h
<1>3. ASSUME NEW d \in Calls
      PROVE  /\ PutJob(d) \in WaitingJobs' \cup running' => prod'[d].pc = "put"
             /\ IngestJob(d) \in WaitingJobs' => prod'[d].pc # "idle" /\ work'[d].pc = "idle"
             /\ IngestJob(d) \in running' <=> work'[d].pc \notin {"idle", "ok", "failed"}
             /\ prod'[d].pc = "idle" => work'[d].pc = "idle"
  <2>1. CASE h = IngestJob(d)
    <3>1. prod'[d].pc # "idle" /\ work'[d].pc = "read"
      BY <1>1, <1>2, <2>1 DEF JobsOK
    <3>2. IngestJob(d) \notin WaitingJobs' /\ IngestJob(d) \in running'
      BY <1>1, <2>1
    <3>3. PutJob(d) \in WaitingJobs' \cup running' => PutJob(d) \in WaitingJobs \cup running
      BY <1>1, <2>1, JobsDiffer
    <3> QED BY <1>2, <3>1, <3>2, <3>3 DEF JobsOK
  <2>2. CASE h # IngestJob(d)
    BY <1>1, <1>2, <2>2, JobsDiffer DEF JobsOK
  <2> QED BY <2>1, <2>2
<1> QED BY <1>1, <1>3 DEF JobsOK
LEMMA JobsStep ==
  ASSUME JobsOK, DataTypes, AsyncNext
  PROVE  JobsOK'
<1>1. CASE RunJob
  BY <1>1, JobsRun
<1>2. CASE \E s \in Stores : Aclose(s) \/ LoopStops(s)
  BY <1>2, JobsSame DEF Aclose, LoopStops
<1>3. CASE CloseReturns
  BY <1>3, JobsSame DEF CloseReturns
<1>4. ASSUME NEW c \in Calls, Start(c) PROVE JobsOK'
  BY <1>4, JobsStart
<1>5. ASSUME NEW c \in Calls, ProducerStep(c) PROVE JobsOK'
  <2>1. CASE Pull(c)
    BY <2>1, JobsPull
  <2>2. CASE Put(c)
    <3>1. PutJob(c) \in running /\ prod[c].pc = "put" /\ PutJob(c) \notin WaitingJobs
      BY <2>2 DEF Put, JobsOK
    <3>2. prod'[c].pc \in {"pull", "done"} /\ \A d \in Calls \ {c} : prod'[d] = prod[d]
      BY <2>2 DEF Put, DataTypes, Prods
    <3> QED BY <2>2, <3>1, <3>2, JobsPut DEF Put
  <2>3. CASE Return(c)
    BY <2>3, JobsSame DEF Return
  <2> QED BY <1>5, <2>1, <2>2, <2>3 DEF ProducerStep
<1>6. ASSUME NEW c \in Calls, SourceRaises(c) PROVE JobsOK'
  <2>1. prod'[c].pc = "raised" /\ \A d \in Calls \ {c} : prod'[d] = prod[d]
    BY <1>6 DEF SourceRaises, DataTypes, Prods
  <2>2. prod[c].pc = "pull" /\ PutJob(c) \notin WaitingJobs \cup running
    BY <1>6 DEF SourceRaises, JobsOK
  <2>3. running' = running \ {PutJob(c)}
    BY <1>6, <2>2 DEF SourceRaises, jobs
  <2> QED BY <1>6, <2>1, <2>2, <2>3, JobsPut DEF SourceRaises, jobs
<1>7. ASSUME NEW c \in Calls, Get(c) \/ BridgeStep(c) PROVE JobsOK'
  BY <1>7, JobsSame DEF Get, BridgeStep
<1>8. ASSUME NEW c \in Calls, Commit(c) \/ IngestFails(c) PROVE JobsOK'
  <2>1. work[c].pc \in BusyPcs
    BY <1>8 DEF Commit, IngestFails, BusyPcs
  <2>2. work'[c].pc \in {"ok", "failed"} /\ \A d \in Calls \ {c} : work'[d] = work[d]
    BY <1>8 DEF Commit, IngestFails, DataTypes, Works
  <2>3. prod' = prod /\ pending' = pending /\ running' = running \ {IngestJob(c)}
    BY <1>8 DEF Commit, IngestFails
  <2> QED BY <2>1, <2>2, <2>3, JobsEnd
<1>9. ASSUME NEW c \in Calls,
             ReadReturns(c) \/ LockBlob(c) \/ BlobPut(c) \/ LockRefcount(c) \/ RefcountSave(c)
      PROVE  JobsOK'
  <2>1. {work[c].pc, work'[c].pc} \subseteq BusyPcs
    <3>1. CASE ReadReturns(c)
      <4>1. \A b : Finished(b).pc \in BusyPcs /\ Fed(b).pc \in BusyPcs
        BY DEF Finished, Fed, BusyPcs
      <4>2. PICK w \in {Finished(work[c].rest), Fed(work[c].rest \o Taken(reader[c].buf))} :
              work' = [work EXCEPT ![c] = w]
        BY <3>1 DEF ReadReturns
      <4>3. w.pc \in BusyPcs
        BY <4>1
      <4> QED BY <3>1, <4>2, <4>3 DEF ReadReturns, DataTypes, BusyPcs
    <3>2. CASE LockBlob(c) \/ BlobPut(c) \/ LockRefcount(c)
      BY <3>2 DEF LockBlob, BlobPut, LockRefcount, DataTypes, Works, BusyPcs
    <3>3. CASE RefcountSave(c)
      <4> DEFINE next == CASE Len(work[c].todo) > 1 -> "store"
                           [] Len(work[c].todo) = 1 /\ work[c].last -> "commit"
                           [] OTHER -> "read"
      <4>1. next \in BusyPcs
        BY DEF BusyPcs
      <4>2. work' = [work EXCEPT ![c].todo = Tail(@), ![c].pc = next] /\ work[c].pc = "save"
        BY <3>3 DEF RefcountSave
      <4> HIDE DEF next
      <4> QED BY <4>1, <4>2 DEF DataTypes, Works, BusyPcs
    <3> QED BY <1>9, <3>1, <3>2, <3>3
  <2>2. \A d \in Calls \ {c} : work'[d] = work[d]
    BY <1>9 DEF ReadReturns, LockBlob, BlobPut, LockRefcount, RefcountSave, DataTypes
  <2>3. prod' = prod /\ jobs' = jobs
    BY <1>9 DEF ReadReturns, LockBlob, BlobPut, LockRefcount, RefcountSave
  <2> QED BY <2>1, <2>2, <2>3, JobsSame
<1> QED BY <1>1, <1>2, <1>3, <1>4, <1>5, <1>6, <1>7, <1>8, <1>9 DEF AsyncNext, ProducerStep, WorkerStep
-------------------------------------------------------------------------------
(* The interpreter lock, the mutexes and the futures                             *)

LEMMA StoresOf == \A c \in Calls : StoreOf[c] \in Stores /\ c # None
BY AsyncAssumption

\* No step of the producer or the reader at the queue moves a lock.
LEMMA LocksSame ==
  ASSUME LocksOK, DataTypes, UNCHANGED <<mutex, loops, future, result>>, faults' \in Nat,
         \A d \in Calls : work'[d].pc = work[d].pc
                         \/ {work[d].pc, work'[d].pc} \subseteq {"idle", "read"}
  PROVE  LocksOK'
<1>1. LockTypes'
  BY DEF LocksOK, LockTypes, mutex, loops
<1>2. ASSUME NEW d \in Calls PROVE HeldBy(d)'
  BY DEF LocksOK, HeldBy, mutex, loops, HoldsGil, RustPcs, IoPcs
<1> QED BY <1>1, <1>2 DEF LocksOK

\* Only a worker moves the locks, and those it has.
LEMMA LocksMove ==
  ASSUME LocksOK, NEW c \in Calls, UNCHANGED <<loops, result>>, faults' \in Nat,
         LockTypes', HeldBy(c)',
         \A d \in Calls \ {c} : work'[d] = work[d] /\ future'[d] = future[d],
         gil = None \/ gil = c, gil' = None \/ gil' = c,
         \A s \in Stores : blobLock'[s] = blobLock[s] \/ {blobLock[s], blobLock'[s]} \subseteq {c, None},
         \A s \in Stores : refLock'[s] = refLock[s] \/ {refLock[s], refLock'[s]} \subseteq {c, None}
  PROVE  LocksOK'
<1>1. ASSUME NEW d \in Calls, d # c PROVE HeldBy(d)'
  <2>1. gil # d /\ gil' # d /\ work'[d] = work[d] /\ future'[d] = future[d] /\ StoreOf[d] \in Stores
    BY <1>1, StoresOf
  <2>2. HeldBy(d)
    BY DEF LocksOK
  <2>3. /\ blobLock'[StoreOf[d]] = d <=> blobLock[StoreOf[d]] = d
        /\ refLock'[StoreOf[d]] = d <=> refLock[StoreOf[d]] = d
    BY <1>1, <2>1, StoresOf
  <2> QED BY <2>1, <2>2, <2>3 DEF HeldBy, loops
<1>2. \A d \in Calls : HeldBy(d)'
  BY <1>1
<1> QED BY <1>2 DEF LocksOK
LEMMA Asking ==
  ASSUME LockTypes, NEW c \in Calls, Ask(c)
  PROVE  /\ DOMAIN future' = Calls /\ \A d \in Calls \ {c} : future'[d] = future[d]
         /\ future'[c] = IF bridge[StoreOf[c]] = "none" THEN "none" ELSE "asked"
BY DEF LockTypes, Ask

LEMMA Forgetting ==
  ASSUME LockTypes, NEW c \in Calls, Forget(c)
  PROVE  /\ DOMAIN future' = Calls /\ \A d \in Calls \ {c} : future'[d] = future[d]
         /\ future'[c] = "none"
BY DEF LockTypes, Forget

\* What is known of the locks at the step of a worker.
LEMMA LocksAt ==
  ASSUME LocksOK, DataTypes, NEW c \in Calls
  PROVE  /\ work[c].pc \in RustPcs => gil = c
         /\ work[c].pc \in IoPcs => (gil = c <=> Native(StoreOf[c]))
         /\ work[c].pc \notin RustPcs \cup IoPcs => gil # c
         /\ work[c].pc \notin IoPcs => future[c] = "none"
         /\ DuringIO(c) \in {c, None} /\ (DuringIO(c) = c <=> Native(StoreOf[c]))
         /\ StoreOf[c] \in Stores /\ c # None /\ LockTypes
<1>1. HeldBy(c) /\ LockTypes
  BY DEF LocksOK
<1> QED BY <1>1, StoresOf DEF HeldBy, HoldsGil, DuringIO, RustPcs, IoPcs

LEMMA LocksRead ==
  ASSUME LocksOK, DataTypes, NEW c \in Calls, ReadReturns(c)
  PROVE  LocksOK'
<1> DEFINE buf  == reader[c].buf
           got  == Taken(buf)
           next == IF got = <<>> THEN Finished(work[c].rest) ELSE Fed(work[c].rest \o got)
<1>1. next.pc \in {"read", "store", "commit"}
  BY DEF Finished, Fed
<1>2. /\ work' = [work EXCEPT ![c] = next] /\ work[c].pc = "read" /\ gil = None
      /\ gil' = CASE next.pc = "read" -> None
                   [] next.pc = "store" -> c
                   [] next.pc = "commit" -> DuringIO(c)
      /\ IF next.pc = "commit" THEN Ask(c) ELSE future' = future
      /\ blobLock' = blobLock /\ refLock' = refLock /\ result' = result /\ faults' = faults
      /\ loops' = loops
  BY DEF ReadReturns
<1> HIDE DEF next
<1>3. work'[c].pc = next.pc /\ \A d \in Calls \ {c} : work'[d] = work[d]
  BY <1>2 DEF DataTypes
<1>4. LockTypes /\ HeldBy(c) /\ future[c] = "none" /\ c # None /\ DuringIO(c) \in {c, None}
      /\ (DuringIO(c) = c <=> Native(StoreOf[c]))
  BY <1>2, LocksAt DEF IoPcs, LocksOK
<1>5. /\ gil' = c <=> HoldsGil(next.pc, c)
      /\ gil' \in {c, None}
  BY <1>1, <1>2, <1>4 DEF HoldsGil, RustPcs, IoPcs
<1>6. /\ DOMAIN future' = Calls /\ \A d \in Calls \ {c} : future'[d] = future[d]
      /\ future'[c] \in {"none"} \cup
           (IF bridge[StoreOf[c]] # "none" /\ next.pc \in IoPcs THEN {"asked", "done"} ELSE {})
  <2>1. CASE next.pc = "commit"
    BY <1>2, <1>4, <2>1, Asking DEF IoPcs
  <2>2. CASE next.pc # "commit"
    BY <1>2, <1>4, <2>2 DEF LockTypes
  <2> QED BY <2>1, <2>2
<1>7. LockTypes'
  BY <1>2, <1>4, <1>5, <1>6 DEF LockTypes, loops
<1>8. HeldBy(c)'
  BY <1>1, <1>2, <1>3, <1>4, <1>5, <1>6 DEF HeldBy, loops
<1>9. faults' \in Nat
  BY <1>7 DEF LockTypes
<1> QED BY <1>2, <1>3, <1>5, <1>6, <1>7, <1>8, <1>9, LocksMove
\* A worker takes a mutex and calls the backend, or has its answer and gives it up.
LEMMA LocksBlob ==
  ASSUME LocksOK, DataTypes, NEW c \in Calls, LockBlob(c) \/ LockRefcount(c)
  PROVE  LocksOK'
<1> DEFINE s == StoreOf[c]
           to == IF work[c].pc = "store" THEN "put" ELSE "save"
<1>1. /\ work[c].pc \in RustPcs /\ gil = c /\ gil' = DuringIO(c) /\ Ask(c)
      /\ result' = result /\ faults' = faults /\ loops' = loops
      /\ work[c].pc = "store" => /\ blobLock[s] = None /\ blobLock' = [blobLock EXCEPT ![s] = c]
                                 /\ refLock' = refLock /\ work' = [work EXCEPT ![c].pc = "put"]
      /\ work[c].pc = "count" => /\ refLock[s] = None /\ refLock' = [refLock EXCEPT ![s] = c]
                                 /\ blobLock' = blobLock /\ work' = [work EXCEPT ![c].pc = "save"]
  BY DEF LockBlob, LockRefcount, RustPcs
<1>2. work'[c].pc = to /\ \A d \in Calls \ {c} : work'[d] = work[d]
  BY <1>1 DEF DataTypes, Works, RustPcs
<1>3. LockTypes /\ HeldBy(c) /\ c # None /\ DuringIO(c) \in {c, None} /\ s \in Stores
      /\ (DuringIO(c) = c <=> Native(s))
  BY LocksAt DEF LocksOK
<1>4. /\ DOMAIN future' = Calls /\ \A d \in Calls \ {c} : future'[d] = future[d]
      /\ future'[c] \in {"none"} \cup (IF bridge[s] # "none" THEN {"asked", "done"} ELSE {})
  BY <1>1, <1>3, Asking
<1> HIDE DEF s
<1>5. LockTypes'
  BY <1>1, <1>3, <1>4 DEF LockTypes, loops, RustPcs
<1>6. /\ \A t \in Stores : blobLock'[t] = blobLock[t] \/ {blobLock[t], blobLock'[t]} \subseteq {c, None}
      /\ \A t \in Stores : refLock'[t] = refLock[t] \/ {refLock[t], refLock'[t]} \subseteq {c, None}
      /\ blobLock'[s] = c <=> to = "put"
      /\ refLock'[s] = c <=> to = "save"
  BY <1>1, <1>3 DEF LockTypes, RustPcs, HeldBy, s
<1>7. HeldBy(c)'
  BY <1>1, <1>2, <1>3, <1>4, <1>6 DEF HeldBy, HoldsGil, RustPcs, IoPcs, loops, s
<1>8. faults' \in Nat
  BY <1>5 DEF LockTypes
<1> QED BY <1>1, <1>2, <1>3, <1>4, <1>5, <1>6, <1>7, <1>8, LocksMove

Released(lock, new, c) ==
  /\ new \in [Stores -> Calls \cup {None}] /\ new[StoreOf[c]] # c
  /\ \A t \in Stores : new[t] = lock[t] \/ (lock[t] = c /\ new[t] = None)

LEMMA LocksAnswer ==
  ASSUME LocksOK, DataTypes, NEW c \in Calls, work[c].pc \in IoPcs, gil = DuringIO(c),
         UNCHANGED <<loops, result>>, faults' \in Nat,
         NEW to \in {"count", "store", "commit", "read", "ok", "failed"},
         work'[c].pc = to, \A d \in Calls \ {c} : work'[d] = work[d],
         gil' = CASE to \in RustPcs -> c [] to = "commit" -> DuringIO(c) [] OTHER -> None,
         IF to = "commit" THEN Ask(c) ELSE Forget(c),
         Released(blobLock, blobLock', c), Released(refLock, refLock', c)
  PROVE  LocksOK'
<1>1. LockTypes /\ HeldBy(c) /\ c # None /\ DuringIO(c) \in {c, None} /\ StoreOf[c] \in Stores
      /\ (DuringIO(c) = c <=> Native(StoreOf[c]))
  BY LocksAt DEF LocksOK
<1>2. /\ gil' = c <=> HoldsGil(to, c)
      /\ gil' \in {c, None}
  BY <1>1 DEF HoldsGil, RustPcs, IoPcs
<1>3. /\ DOMAIN future' = Calls /\ \A d \in Calls \ {c} : future'[d] = future[d]
      /\ future'[c] \in {"none"} \cup
           (IF bridge[StoreOf[c]] # "none" /\ to \in IoPcs THEN {"asked", "done"} ELSE {})
  <2>1. CASE to = "commit"
    BY <1>1, <2>1, Asking DEF IoPcs
  <2>2. CASE to # "commit"
    BY <1>1, <2>2, Forgetting
  <2> QED BY <2>1, <2>2
<1>4. LockTypes'
  BY <1>1, <1>2, <1>3 DEF LockTypes, loops, Released
<1>5. /\ \A t \in Stores : blobLock'[t] = blobLock[t] \/ {blobLock[t], blobLock'[t]} \subseteq {c, None}
      /\ \A t \in Stores : refLock'[t] = refLock[t] \/ {refLock[t], refLock'[t]} \subseteq {c, None}
      /\ blobLock'[StoreOf[c]] # c /\ refLock'[StoreOf[c]] # c
  BY <1>1 DEF Released
<1>6. HeldBy(c)'
  BY <1>1, <1>2, <1>3, <1>5 DEF HeldBy, loops, RustPcs, IoPcs
<1> QED BY <1>1, <1>2, <1>3, <1>4, <1>5, <1>6, LocksMove

LEMMA LocksStep ==
  ASSUME JobsOK, LocksOK, DataTypes, AsyncNext
  PROVE  LocksOK'
<1>0. LockTypes /\ faults \in Nat /\ faults + 1 \in Nat /\ \A d \in Calls : HeldBy(d)
  BY DEF LocksOK, LockTypes
<1>1. CASE RunJob
  <2>1. \A d \in Calls : work'[d] = work[d] \/ (IngestJob(d) = Head(pending) /\ work'[d].pc = "read")
    BY <1>1 DEF RunJob, DataTypes, Works
  <2>2. \A d \in Calls : IngestJob(d) = Head(pending) => work[d].pc = "idle"
    BY <1>1, OldestJob DEF JobsOK
  <2>3. UNCHANGED <<mutex, loops, future, result, faults>>
    BY <1>1 DEF RunJob
  <2> QED BY <1>0, <2>1, <2>2, <2>3, LocksSame
<1>2. ASSUME NEW s \in Stores, Aclose(s) \/ LoopStops(s) PROVE LocksOK'
  <2>1. /\ UNCHANGED <<work, mutex, future, result, faults>>
        /\ closing' \in {s, closing}
        /\ \E to \in {"stopping", "stopped"} : bridge' = [bridge EXCEPT ![s] = to]
        /\ bridge[s] # "none"
    BY <1>2 DEF Aclose, LoopStops
  <2>2. LockTypes'
    BY <1>0, <2>1 DEF LockTypes, mutex
  <2>3. \A t \in Stores : bridge[t] = "none" <=> bridge'[t] = "none"
    BY <1>0, <2>1 DEF LockTypes
  <2>4. ASSUME NEW d \in Calls PROVE HeldBy(d)'
    BY <1>0, <2>1, <2>3, StoresOf DEF HeldBy, mutex
  <2> QED BY <2>2, <2>4 DEF LocksOK
<1>3. CASE CloseReturns
  <2>1. LockTypes'
    BY <1>0, <1>3 DEF LockTypes, CloseReturns, mutex
  <2>2. ASSUME NEW d \in Calls PROVE HeldBy(d)'
    BY <1>0, <1>3 DEF HeldBy, CloseReturns, mutex
  <2> QED BY <2>1, <2>2 DEF LocksOK
<1>4. ASSUME NEW c \in Calls, Start(c) \/ Pull(c) \/ SourceRaises(c) \/ Put(c) \/ Get(c) PROVE LocksOK'
  <2>1. UNCHANGED <<work, mutex, loops, future, result>> /\ faults' \in Nat
    BY <1>0, <1>4 DEF Start, Pull, SourceRaises, Put, Get
  <2> QED BY <2>1, LocksSame
<1>5. ASSUME NEW c \in Calls, Return(c) PROVE LocksOK'
  <2>1. /\ UNCHANGED <<work, mutex, loops, future, faults>> /\ work[c].pc \in {"ok", "failed"}
        /\ result' = [result EXCEPT ![c] = IF prod[c].pc = "done" /\ work[c].pc = "ok" THEN "ok" ELSE "err"]
    BY <1>5 DEF Return
  <2>2. LockTypes'
    BY <1>0, <2>1 DEF LockTypes, mutex, loops
  <2>3. ASSUME NEW d \in Calls PROVE HeldBy(d)'
    BY <1>0, <2>1 DEF HeldBy, mutex, loops, LockTypes
  <2> QED BY <2>2, <2>3 DEF LocksOK
<1>6. ASSUME NEW c \in Calls, BridgeStep(c) PROVE LocksOK'
  <2>1. /\ UNCHANGED <<work, mutex, loops, result, faults>> /\ future[c] = "asked"
        /\ future' = [future EXCEPT ![c] = "done"]
    BY <1>6 DEF BridgeStep
  <2>2. LockTypes'
    BY <1>0, <2>1 DEF LockTypes, mutex, loops
  <2>3. ASSUME NEW d \in Calls PROVE HeldBy(d)'
    BY <1>0, <2>1 DEF HeldBy, mutex, loops, LockTypes
  <2> QED BY <2>2, <2>3 DEF LocksOK
<1>7. ASSUME NEW c \in Calls, ReadReturns(c) \/ LockBlob(c) \/ LockRefcount(c) PROVE LocksOK'
  BY <1>7, LocksRead, LocksBlob
<1>8. ASSUME NEW c \in Calls, BlobPut(c) PROVE LocksOK'
  <2> DEFINE to == "count"
  <2>1. /\ work[c].pc \in IoPcs /\ gil = DuringIO(c) /\ UNCHANGED <<loops, result>> /\ faults' \in Nat
        /\ gil' = c /\ Forget(c) /\ work[c].pc = "put"
        /\ blobLock' = [blobLock EXCEPT ![StoreOf[c]] = None] /\ refLock' = refLock
        /\ work' = [work EXCEPT ![c].pc = to]
    BY <1>0, <1>8 DEF BlobPut, IoPcs
  <2>2. work'[c].pc = to /\ \A d \in Calls \ {c} : work'[d] = work[d]
    BY <2>1 DEF DataTypes, Works
  <2>3. Released(blobLock, blobLock', c) /\ Released(refLock, refLock', c)
    BY <1>0, <2>1, StoresOf DEF LockTypes, HeldBy, Released
  <2>4. gil' = CASE to \in RustPcs -> c [] to = "commit" -> DuringIO(c) [] OTHER -> None
    BY <2>1 DEF RustPcs
  <2>5. IF to = "commit" THEN Ask(c) ELSE Forget(c)
    BY <2>1
  <2>6. to \in {"count", "store", "commit", "read", "ok", "failed"}
    OBVIOUS
  <2> HIDE DEF to
  <2> QED BY <2>1, <2>2, <2>3, <2>4, <2>5, <2>6, LocksAnswer
<1>9. ASSUME NEW c \in Calls, RefcountSave(c) PROVE LocksOK'
  <2> DEFINE to == CASE Len(work[c].todo) > 1 -> "store"
                     [] Len(work[c].todo) = 1 /\ work[c].last -> "commit"
                     [] OTHER -> "read"
  <2>1. to \in {"store", "commit", "read"} /\ to \in {"count", "store", "commit", "read", "ok", "failed"}
    OBVIOUS
  <2>2. /\ work[c].pc \in IoPcs /\ gil = DuringIO(c) /\ UNCHANGED <<loops, result>> /\ faults' \in Nat
        /\ gil' = CASE to = "store" -> c [] to = "commit" -> DuringIO(c) [] to = "read" -> None
        /\ IF to = "commit" THEN Ask(c) ELSE Forget(c)
        /\ work[c].pc = "save"
        /\ refLock' = [refLock EXCEPT ![StoreOf[c]] = None] /\ blobLock' = blobLock
        /\ work' = [work EXCEPT ![c].todo = Tail(@), ![c].pc = to]
    BY <1>0, <1>9 DEF RefcountSave, IoPcs
  <2> HIDE DEF to
  <2>3. work'[c].pc = to /\ \A d \in Calls \ {c} : work'[d] = work[d]
    BY <2>2 DEF DataTypes, Works
  <2>4. Released(blobLock, blobLock', c) /\ Released(refLock, refLock', c)
    BY <1>0, <2>2, StoresOf DEF LockTypes, HeldBy, Released
  <2>5. gil' = CASE to \in RustPcs -> c [] to = "commit" -> DuringIO(c) [] OTHER -> None
    BY <2>1, <2>2 DEF RustPcs
  <2> QED BY <2>1, <2>2, <2>3, <2>4, <2>5, LocksAnswer
<1>10. ASSUME NEW c \in Calls, Commit(c) \/ IngestFails(c) PROVE LocksOK'
  <2> DEFINE to == IF Commit(c) THEN "ok" ELSE "failed"
  <2>1. to \in {"count", "store", "commit", "read", "ok", "failed"} /\ to # "commit" /\ to \notin RustPcs
    BY DEF RustPcs
  <2>2. /\ work[c].pc \in IoPcs /\ gil = DuringIO(c) /\ UNCHANGED <<loops, result>> /\ faults' \in Nat
        /\ gil' = None /\ Forget(c)
        /\ work' = [work EXCEPT ![c].pc = to]
    BY <1>0, <1>10 DEF Commit, IngestFails, IoPcs
  <2>3. Released(blobLock, blobLock', c) /\ Released(refLock, refLock', c)
    <3>1. CASE Commit(c)
      BY <1>0, <3>1, StoresOf DEF Commit, LockTypes, HeldBy, Released
    <3>2. CASE IngestFails(c)
      BY <1>0, <3>2, StoresOf DEF IngestFails, LockTypes, Released, Unlocked
    <3> QED BY <1>10, <3>1, <3>2
  <2> HIDE DEF to
  <2>4. work'[c].pc = to /\ \A d \in Calls \ {c} : work'[d] = work[d]
    BY <2>2 DEF DataTypes, Works
  <2>5. gil' = CASE to \in RustPcs -> c [] to = "commit" -> DuringIO(c) [] OTHER -> None
    BY <2>1, <2>2
  <2> QED BY <2>1, <2>2, <2>3, <2>4, <2>5, LocksAnswer
<1> QED BY <1>1, <1>2, <1>3, <1>4, <1>5, <1>6, <1>7, <1>8, <1>9, <1>10
        DEF AsyncNext, ProducerStep, WorkerStep
-------------------------------------------------------------------------------
(* The bytes: what the steps of a producer and of the reader do                  *)

SameWork(c) == /\ work'[c].rest = work[c].rest /\ work'[c].todo = work[c].todo
               /\ work'[c].last = work[c].last

LEMMA CutSame ==
  ASSUME NEW c \in Calls, source' = source, Gets(c)' = Gets(c), reader'[c] = reader[c],
         stored'[c] = stored[c], SameWork(c), CutOK(c), LoadOK(c)
  PROVE  CutOK(c)' /\ LoadOK(c)'
<1>1. /\ Stream(c)' = Stream(c) /\ Size(c)' = Size(c) /\ \A i : Piece(c, i)' = Piece(c, i)
      /\ Upto(c, Gets(c))' = Upto(c, Gets(c))
      /\ \A n : NoBlockLonger(c, n)' <=> NoBlockLonger(c, n)
  BY DEF Stream, Size, End, Piece, Upto, Count, NoBlockLonger
<1>2. Pieces(Stream(c))' = Pieces(Stream(c)) /\ Cut(c)' = Cut(c)
  BY <1>1 DEF Pieces, Cut, SameWork
<1>3. CutOK(c)'
  <2>1. ChunksOK(c)'
    BY <1>1 DEF CutOK, ChunksOK, SameWork
  <2>2. CASE work[c].last
    BY <1>1, <1>2, <2>1, <2>2 DEF CutOK, EndOK, SameWork
  <2>3. CASE ~work[c].last
    BY <1>1, <1>2, <2>1, <2>3 DEF CutOK, RestOK, SameWork
  <2> QED BY <2>2, <2>3
<1>4. LoadOK(c)'
  BY <1>1 DEF LoadOK
<1> QED BY <1>3, <1>4

LEMMA StreamSame ==
  ASSUME NEW c \in Calls, source' = source, prod'[c] = prod[c], queue'[c] = queue[c],
         reader'[c] = reader[c], stored'[c] = stored[c], SameWork(c), StageOK(work'[c]), StreamOK(c)
  PROVE  StreamOK(c)'
<1>1. Puts(c)' = Puts(c) /\ Gets(c)' = Gets(c)
  BY DEF Puts, Gets
<1>2. /\ Count(c)' = Count(c) /\ (\A i : Upto(c, i)' = Upto(c, i)) /\ (\A i : Item(c, i)' = Item(c, i))
      /\ \A n : NoBlockLonger(c, n)' <=> NoBlockLonger(c, n)
  BY DEF Count, Upto, Item, End, Block, NoBlockLonger
<1>3. QueueOK(c)'
  BY <1>1, <1>2 DEF StreamOK, QueueOK
<1>4. SpreadOK(c)'
  BY <1>1, <1>2 DEF StreamOK, SpreadOK
<1> QED BY <1>1, <1>3, <1>4, CutSame DEF StreamOK

\* The producer pulls a block, or its iterator raises.
LEMMA StreamPulled ==
  ASSUME DataTypes, NEW c \in Calls, StreamOK(c), source' = source, queue' = queue, reader' = reader,
         stored' = stored, work' = work, Puts(c)' = Puts(c),
         /\ prod'[c].pulled <= Count(c) + 1
         /\ prod'[c].pc \in {"idle", "pull", "raised"} => prod'[c].pulled <= Count(c)
         /\ prod'[c].pc = "put" => prod'[c].pulled >= 1 /\ prod'[c].item = Item(c, prod'[c].pulled)
  PROVE  StreamOK(c)'
<1>1. Gets(c)' = Gets(c)
  BY DEF Gets
<1>2. /\ Count(c)' = Count(c) /\ (\A i : Upto(c, i)' = Upto(c, i)) /\ (\A i : Item(c, i)' = Item(c, i))
      /\ \A n : NoBlockLonger(c, n)' <=> NoBlockLonger(c, n)
  BY DEF Count, Upto, Item, End, Block, NoBlockLonger
<1>3. Item(c, prod'[c].pulled) = Item(c, prod[c].pulled)'
  BY DEF Item, Count, Block, End
<1>4. QueueOK(c)'
  BY <1>1, <1>2, <1>3 DEF StreamOK, QueueOK
<1>5. SpreadOK(c)'
  BY <1>1, <1>2 DEF StreamOK, SpreadOK
<1> QED BY <1>1, <1>4, <1>5, CutSame DEF StreamOK, SameWork

LEMMA OneBlock ==
  ASSUME SourceOK, NEW c \in Calls, NEW longest \in Nat, NoBlockLonger(c, longest), NEW i \in Nat
  PROVE  Upto(c, i + 1) <= Upto(c, i) + longest
<1>1. CASE i + 1 <= Count(c)
  <2>1. i + 1 \in DOMAIN source[c] /\ i \in 0 .. Count(c) /\ i + 1 \in 0 .. Count(c) /\ (i + 1) - 1 = i
    <3>1. DOMAIN source[c] = 1 .. Count(c) /\ Count(c) \in Nat
      <4>1. source[c] \in Seq(Nat)
        BY AsyncAssumption DEF SourceOK
      <4> QED BY <4>1 DEF Count
    <3> QED BY <1>1, <3>1
  <2>2. End(c, i + 1) - End(c, i) <= longest
    BY <2>1 DEF NoBlockLonger
  <2>3. End(c, i + 1) = Upto(c, i + 1) /\ End(c, i) = Upto(c, i)
    BY <2>1, Offsets
  <2>4. Upto(c, i + 1) \in Nat /\ Upto(c, i) \in Nat
    BY Offsets
  <2> QED BY <2>2, <2>3, <2>4
<1>2. CASE ~(i + 1 <= Count(c))
  <2>1. Count(c) <= i /\ Count(c) <= i + 1 /\ Count(c) \in Nat /\ i + 1 \in Nat
    BY <1>2, Offsets
  <2>2. Upto(c, i + 1) = Upto(c, i)
    <3>1. Upto(c, i) \in 0 .. Size(c) /\ Upto(c, i + 1) \in 0 .. Size(c) /\ Size(c) \in Nat
          /\ Size(c) <= Upto(c, i) /\ Size(c) <= Upto(c, i + 1)
      BY <2>1, Offsets
    <3> QED BY <3>1
  <2>3. Upto(c, i) \in Nat
    BY Offsets
  <2> QED BY <2>2, <2>3
<1> QED BY <1>1, <1>2

\* Counts of a call, in the naturals.
LEMMA CountsOf ==
  ASSUME DataTypes, NEW c \in Calls, QueueOK(c)
  PROVE  /\ Count(c) \in Nat /\ Len(queue[c]) \in Nat /\ Gets(c) \in Nat /\ Puts(c) \in Nat
         /\ Gets(c) + Len(queue[c]) = Puts(c) /\ Puts(c) <= Count(c) + 1
         /\ prod[c].pulled \in Nat /\ Puts(c) <= prod[c].pulled /\ prod[c].pulled <= Puts(c) + 1
         /\ queue[c] \in Seq(Seq(Byte) \cup {None})
<1>1. Count(c) \in Nat /\ Len(queue[c]) \in Nat /\ prod[c].pulled \in Nat
      /\ queue[c] \in Seq(Seq(Byte) \cup {None})
  <2>1. Count(c) \in Nat
    BY Offsets DEF DataTypes
  <2>2. queue[c] \in Seq(Seq(Byte) \cup {None})
    BY DEF DataTypes
  <2>3. Len(queue[c]) \in Nat
    BY <2>2
  <2>4. prod[c].pulled \in Nat
    BY DEF DataTypes, Prods
  <2> QED BY <2>1, <2>2, <2>3, <2>4
<1>2. Puts(c) = prod[c].pulled \/ (Puts(c) = prod[c].pulled - 1 /\ prod[c].pulled >= 1)
  BY DEF Puts, QueueOK
<1> DEFINE p == Puts(c)
           q == Len(queue[c])
           n == Count(c)
           d == prod[c].pulled
<1>3. d <= n + 1 /\ Gets(c) >= 0 /\ Gets(c) = p - q
  BY DEF Gets, QueueOK
<1>4. n \in Nat /\ q \in Nat /\ d \in Nat /\ (p = d \/ (p = d - 1 /\ d >= 1))
  BY <1>1, <1>2
<1> HIDE DEF p, q, n, d
<1>5. /\ p \in Nat /\ p - q \in Nat /\ (p - q) + q = p /\ p <= n + 1
      /\ p <= d /\ d <= p + 1
  BY <1>3, <1>4
<1> QED BY <1>1, <1>3, <1>5 DEF p, q, n, d

LEMMA StreamPut ==
  ASSUME DataTypes, NEW c \in Calls, StreamOK(c), Put(c), prod[c].pc = "put"
  PROVE  StreamOK(c)'
<1> DEFINE p == Puts(c)
           g == Gets(c)
           q == Len(queue[c])
           n == Count(c)
<1>1. /\ n \in Nat /\ q \in Nat /\ g \in Nat /\ p \in Nat /\ g + q = p
      /\ queue[c] \in Seq(Seq(Byte) \cup {None}) /\ prod[c].pulled = p + 1
      /\ p + 1 <= n + 1 /\ prod[c].item = Item(c, p + 1) /\ prod[c].item \in Seq(Byte) \cup {None}
  <2>1. QueueOK(c)
    BY DEF StreamOK
  <2>2. prod[c].item \in Seq(Byte) \cup {None} /\ prod[c].pulled \in Nat
    BY DEF DataTypes, Prods
  <2>3. Puts(c) = prod[c].pulled - 1
    BY DEF Puts
  <2>4. /\ n \in Nat /\ q \in Nat /\ g \in Nat /\ p \in Nat /\ g + q = p
        /\ queue[c] \in Seq(Seq(Byte) \cup {None})
    BY <2>1, CountsOf
  <2>5. prod[c].pulled <= n + 1 /\ prod[c].item = Item(c, prod[c].pulled)
    BY <2>1 DEF QueueOK
  <2> HIDE DEF p, g, q, n
  <2>6. prod[c].pulled = p + 1
    BY <2>2, <2>3 DEF p
  <2> QED BY <2>2, <2>4, <2>5, <2>6
<1>2. /\ queue'[c] = Append(queue[c], prod[c].item) /\ q < QueueSize /\ source' = source
      /\ prod'[c].pulled = p + 1 /\ prod'[c].pc = IF prod[c].item = None THEN "done" ELSE "pull"
      /\ reader' = reader /\ stored' = stored /\ work' = work
  BY <1>1 DEF Put, Room, DataTypes, Prods
<1>3. /\ queue'[c] \in Seq(Seq(Byte) \cup {None}) /\ Len(queue'[c]) = q + 1
      /\ \A j \in 1 .. q : queue'[c][j] = queue[c][j]
      /\ queue'[c][q + 1] = Item(c, p + 1)
  BY <1>1, <1>2
<1>4. Puts(c)' = p + 1 /\ Gets(c)' = g
  <2>1. Puts(c)' = p + 1
    BY <1>2 DEF Puts
  <2>2. Gets(c)' = Puts(c)' - Len(queue'[c])
    BY DEF Gets
  <2> QED BY <1>1, <1>3, <2>1, <2>2
<1>5. /\ Count(c)' = n /\ (\A i : Upto(c, i)' = Upto(c, i)) /\ (\A i : Item(c, i)' = Item(c, i))
      /\ \A k : NoBlockLonger(c, k)' <=> NoBlockLonger(c, k)
  BY <1>2 DEF Count, Upto, Item, End, Block, NoBlockLonger
<1>6. QueueOK(c) /\ SpreadOK(c) /\ SourceOK
  BY DEF StreamOK, DataTypes
<1>7. prod'[c].pc = "pull" => p + 1 <= n
  BY <1>1, <1>2 DEF Item
<1> HIDE DEF p, g, q, n
<1>8. QueueOK(c)'
  <2>1. ASSUME NEW j \in 1 .. q + 1 PROVE queue'[c][j] = Item(c, g + j)
    <3>1. CASE j \in 1 .. q
      BY <1>3, <1>6, <3>1 DEF QueueOK, g, q
    <3>2. CASE j = q + 1
      <4>1. g + j = p + 1
        BY <1>1, <3>2
      <4> QED BY <1>3, <3>2, <4>1
    <3> QED BY <1>1, <3>1, <3>2
  <2>2. QueueSize \in Nat /\ q + 1 <= QueueSize
    BY <1>1, <1>2, AsyncAssumption
  <2>3. reader'[c].eof <=> g = n + 1
    BY <1>2, <1>6 DEF QueueOK, g, n
  <2>4. prod'[c].pc # "put" /\ prod'[c].pc \notin {"idle", "raised"}
    BY <1>2
  <2> QED BY <1>1, <1>2, <1>3, <1>4, <1>5, <1>7, <2>1, <2>2, <2>3, <2>4 DEF QueueOK
<1>9. SpreadOK(c)'
  <2> SUFFICES ASSUME NEW longest \in Nat, NoBlockLonger(c, longest), NEW j \in 0 .. q + 1
               PROVE  Upto(c, p + 1) - Upto(c, g + j) <= ((q + 1) - j) * longest
    BY <1>3, <1>4, <1>5 DEF SpreadOK
  <2>1. Upto(c, p + 1) <= Upto(c, p) + longest /\ Upto(c, p) \in Nat /\ Upto(c, p + 1) \in Nat
    <3>1. p + 1 \in Nat
      BY <1>1
    <3>2. Upto(c, p + 1) \in Nat /\ Upto(c, p) \in Nat
      BY <1>1, <1>6, <3>1, Offsets
    <3> QED BY <1>1, <1>6, <3>2, OneBlock
  <2>2. CASE j \in 0 .. q
    <3>1. Upto(c, p) - Upto(c, g + j) <= (q - j) * longest
      BY <1>6, <2>2 DEF SpreadOK, p, g, q
    <3>2. q - j \in Nat /\ (q - j) + 1 = (q + 1) - j /\ g + j \in Nat
      BY <1>1, <2>2
    <3>3. ((q - j) + 1) * longest = (q - j) * longest + longest /\ (q - j) * longest \in Nat
      BY <3>2, Products
    <3>4. Upto(c, g + j) \in Nat
      BY <1>6, <3>2, Offsets
    <3> HIDE DEF p
    <3> QED BY <2>1, <3>1, <3>2, <3>3, <3>4
  <2>3. CASE j = q + 1
    <3>1. g + j = p + 1 /\ (q + 1) - j = 0
      BY <1>1, <2>3
    <3> QED BY <2>1, <3>1
  <2> QED BY <1>1, <2>2, <2>3
<1>10. CutOK(c)' /\ LoadOK(c)'
  BY <1>2, <1>4, CutSame DEF StreamOK, SameWork, g
<1> QED BY <1>2, <1>8, <1>9, <1>10 DEF StreamOK

LEMMA StreamGet ==
  ASSUME DataTypes, NEW c \in Calls, StreamOK(c), Get(c)
  PROVE  StreamOK(c)' /\ reader'[c].buf \in Seq(Byte)
<1> DEFINE p  == Puts(c)
           g  == Gets(c)
           q  == Len(queue[c])
           n  == Count(c)
           b  == Len(reader[c].buf)
           r  == Len(work[c].rest)
           at == Cut(c) * ChunkSize
           sz == Upto(c, g + 1) - Upto(c, g)
<1>0. QueueOK(c) /\ SpreadOK(c) /\ SourceOK /\ CutOK(c) /\ LoadOK(c)
  BY DEF StreamOK, DataTypes
<1>1. /\ n \in Nat /\ q \in Nat /\ g \in Nat /\ p \in Nat /\ g + q = p /\ p <= n + 1
      /\ queue[c] \in Seq(Seq(Byte) \cup {None})
  BY <1>0, CountsOf
<1>2. /\ work[c].pc = "read" /\ queue[c] # <<>> /\ ~reader[c].eof /\ b < ReadSize
      /\ reader'[c] = IF Head(queue[c]) = None THEN [reader[c] EXCEPT !.eof = TRUE]
                                              ELSE [reader[c] EXCEPT !.buf = @ \o Head(queue[c])]
      /\ queue'[c] = Tail(queue[c])
      /\ source' = source /\ prod' = prod /\ work' = work /\ stored' = stored
  <2>1. /\ work[c].pc = "read" /\ queue[c] # <<>> /\ ~reader[c].eof /\ b < ReadSize
        /\ source' = source /\ prod' = prod /\ work' = work /\ stored' = stored
    BY DEF Get, Wanting
  <2>2. reader'[c] = IF Head(queue[c]) = None THEN [reader[c] EXCEPT !.eof = TRUE]
                                              ELSE [reader[c] EXCEPT !.buf = @ \o Head(queue[c])]
    BY DEF Get, DataTypes
  <2>3. queue'[c] = Tail(queue[c])
    BY DEF Get, DataTypes
  <2> QED BY <2>1, <2>2, <2>3
<1>3. /\ q \in Nat \ {0} /\ Head(queue[c]) = queue[c][1] /\ 1 \in 1 .. q
      /\ queue'[c] \in Seq(Seq(Byte) \cup {None}) /\ Len(queue'[c]) = q - 1
      /\ \A j \in 1 .. q - 1 : queue'[c][j] = queue[c][j + 1]
  BY <1>1, <1>2
<1>4. Head(queue[c]) = Item(c, g + 1)
  BY <1>0, <1>3 DEF QueueOK
<1>5. Puts(c)' = p /\ Gets(c)' = g + 1
  <2>1. Puts(c)' = p
    BY <1>2 DEF Puts
  <2> HIDE DEF p, g, q
  <2>2. Gets(c)' = p - (q - 1)
    BY <1>3, <2>1 DEF Gets
  <2> QED BY <1>1, <2>1, <2>2
<1>6. /\ Count(c)' = n /\ (\A i : Upto(c, i)' = Upto(c, i)) /\ (\A i : Item(c, i)' = Item(c, i))
      /\ \A k : NoBlockLonger(c, k)' <=> NoBlockLonger(c, k)
  BY <1>2 DEF Count, Upto, Item, End, Block, NoBlockLonger
<1>7. /\ reader[c] \in QReaders /\ reader[c].buf \in Seq(Byte) /\ b \in Nat /\ r \in Nat
      /\ ReadSize \in Nat \ {0} /\ ChunkSize \in Nat \ {0}
      /\ work[c].todo = <<>> /\ ~work[c].last /\ stored[c] \in Seq(Seq(Byte)) /\ Len(stored[c]) \in Nat
  <2>1. reader[c] \in QReaders /\ work[c] \in Works /\ stored[c] \in Seq(Seq(Byte))
    BY DEF DataTypes
  <2>2. reader[c].buf \in Seq(Byte) /\ work[c].rest \in Seq(Byte)
    BY <2>1 DEF QReaders, Works
  <2>3. work[c].todo = <<>> /\ ~work[c].last
    BY <1>2 DEF StreamOK, StageOK
  <2>4. b \in Nat /\ r \in Nat /\ Len(stored[c]) \in Nat
    BY <2>1, <2>2
  <2> QED BY <2>1, <2>2, <2>3, <2>4, AsyncAssumption
<1>8. /\ Cut(c) = Len(stored[c]) /\ at = Len(stored[c]) * ChunkSize /\ at \in Nat
      /\ r < ChunkSize /\ at + r + b = Upto(c, g)
      /\ work[c].rest = Bytes(at, r) /\ reader[c].buf = Bytes(at + r, b)
  <2>1. Cut(c) = Len(stored[c])
    BY <1>7 DEF Cut
  <2>2. at \in Nat
    BY <1>7, <2>1, Products
  <2>3. RestOK(c)
    BY <1>0, <1>7 DEF CutOK
  <2> QED BY <2>1, <2>2, <2>3 DEF RestOK
<1>9. g + 1 <= n + 1 /\ g + 1 \in Nat /\ g \in Nat
  BY <1>1, <1>3
<1>10. Upto(c, g) \in Nat /\ Upto(c, g + 1) \in Nat /\ sz \in Nat
  <2>1. Upto(c, g) \in Nat /\ Upto(c, g + 1) \in Nat /\ Upto(c, g) <= Upto(c, g + 1)
    BY <1>0, <1>9, Offsets
  <2> QED BY <2>1
<1> HIDE DEF p, g, q, n, b, r, at
<1>11. ASSUME reader'[c].eof <=> g + 1 = n + 1 PROVE QueueOK(c)'
  <2>1. ASSUME NEW j \in 1 .. q - 1 PROVE queue'[c][j] = Item(c, (g + 1) + j)
    <3>1. j + 1 \in 1 .. q /\ g + (j + 1) = (g + 1) + j
      BY <1>1
    <3>2. queue[c][j + 1] = Item(c, g + (j + 1))
      BY <1>0, <3>1 DEF QueueOK, g, q
    <3> QED BY <1>3, <3>1, <3>2
  <2>2. q - 1 <= QueueSize
    <3>1. q <= QueueSize /\ QueueSize \in Nat
      BY <1>0, AsyncAssumption DEF QueueOK, q
    <3> QED BY <1>1, <3>1
  <2>3. /\ prod'[c] = prod[c] /\ prod[c].pulled <= n + 1
        /\ prod[c].pc \in {"idle", "pull", "raised"} => prod[c].pulled <= n
        /\ prod[c].pc = "put" => prod[c].pulled >= 1 /\ prod[c].item = Item(c, prod[c].pulled)
    BY <1>0, <1>2 DEF QueueOK, n
  <2>4. Item(c, prod[c].pulled) = Item(c, prod[c].pulled)'
    BY <1>2 DEF Item, Count, Block, End
  <2> QED BY <1>3, <1>5, <1>6, <1>9, <1>11, <2>1, <2>2, <2>3, <2>4 DEF QueueOK
<1>12. SpreadOK(c)'
  <2> SUFFICES ASSUME NEW longest \in Nat, NoBlockLonger(c, longest), NEW j \in 0 .. q - 1
               PROVE  Upto(c, p) - Upto(c, (g + 1) + j) <= ((q - 1) - j) * longest
    BY <1>3, <1>5, <1>6 DEF SpreadOK
  <2>1. j + 1 \in 0 .. q /\ g + (j + 1) = (g + 1) + j /\ q - (j + 1) = (q - 1) - j
    BY <1>1
  <2>2. Upto(c, p) - Upto(c, g + (j + 1)) <= (q - (j + 1)) * longest
    BY <1>0, <2>1 DEF SpreadOK, p, g, q
  <2> QED BY <2>1, <2>2
<1>13. /\ \A i : Piece(c, i)' = Piece(c, i)
       /\ Cut(c)' = Cut(c) /\ work'[c] = work[c] /\ stored'[c] = stored[c]
  BY <1>2 DEF Piece, Size, End, Cut
<1>14. ASSUME NEW k \in Nat, reader'[c].buf = Bytes(at + r, b + k), Len(reader'[c].buf) = b + k,
              Upto(c, g + 1) = Upto(c, g) + k,
              \A longest \in Nat : NoBlockLonger(c, longest) => k <= longest
       PROVE  CutOK(c)' /\ LoadOK(c)'
  <2>1. ChunksOK(c)'
    BY <1>0, <1>13 DEF CutOK, ChunksOK
  <2>2. RestOK(c)'
    <3>1. at + r + (b + k) = Upto(c, g + 1)
      <4>1. at + r + b = Upto(c, g) /\ Upto(c, g + 1) = Upto(c, g) + k
        BY <1>8, <1>14
      <4>2. at \in Nat /\ r \in Nat /\ b \in Nat
        BY <1>7, <1>8
      <4> QED BY <4>1, <4>2
    <3>2. Cut(c)' * ChunkSize = at /\ Len(work'[c].rest) = r /\ Upto(c, Gets(c))' = Upto(c, g + 1)
      BY <1>5, <1>6, <1>13 DEF at, r
    <3> QED BY <1>8, <1>13, <1>14, <3>1, <3>2 DEF RestOK
  <2>3. CutOK(c)'
    BY <1>7, <1>13, <2>1, <2>2 DEF CutOK
  <2>4. LoadOK(c)'
    <3> SUFFICES ASSUME NEW longest \in Nat, NoBlockLonger(c, longest)
                 PROVE  /\ b + k <= ReadSize - 1 + longest
                        /\ Upto(c, g + 1) - Len(stored[c]) * ChunkSize
                             <= (ReadSize - 1) + longest + (ChunkSize - 1)
      BY <1>5, <1>6, <1>13, <1>14 DEF LoadOK
    <3>1. k <= longest
      BY <1>14
    <3>2. b < ReadSize /\ r < ChunkSize /\ at = Len(stored[c]) * ChunkSize
      BY <1>2, <1>8
    <3>3. Upto(c, g + 1) = at + r + (b + k)
      <4>1. at + r + b = Upto(c, g) /\ Upto(c, g + 1) = Upto(c, g) + k
        BY <1>8, <1>14
      <4>2. at \in Nat /\ r \in Nat /\ b \in Nat
        BY <1>7, <1>8
      <4> QED BY <4>1, <4>2
    <3>4. at \in Nat /\ r \in Nat /\ b \in Nat /\ ReadSize \in Nat /\ ChunkSize \in Nat
      BY <1>7, <1>8
    <3>5. b + k <= ReadSize - 1 + longest
      BY <3>1, <3>2, <3>4
    <3>6. (at + r + (b + k)) - at <= (ReadSize - 1) + longest + (ChunkSize - 1)
      <4>1. (at + r + (b + k)) - at = r + (b + k)
        BY <3>4
      <4>2. r + (b + k) <= (ChunkSize - 1) + (ReadSize - 1 + longest)
        BY <3>2, <3>4, <3>5
      <4> QED BY <3>4, <4>1, <4>2
    <3> QED BY <3>2, <3>3, <3>5, <3>6
  <2> QED BY <2>3, <2>4
<1>15. StageOK(work'[c])
  BY <1>13 DEF StreamOK
<1>16. CASE g + 1 <= n
  <2>1. g + 1 \in 1 .. n /\ (g + 1) - 1 = g
    BY <1>1, <1>9, <1>16
  <2>2. /\ Block(c, g + 1) = Bytes(Upto(c, g), sz)
        /\ Block(c, g + 1) \in Seq(Byte) /\ Block(c, g + 1) # None
    BY <1>0, <2>1, BlockBytes DEF n
  <2>3. Head(queue[c]) = Block(c, g + 1)
    BY <1>4, <1>16 DEF Item, n
  <2>4. reader'[c] = [reader[c] EXCEPT !.buf = reader[c].buf \o Block(c, g + 1)]
    BY <1>2, <2>2, <2>3
  <2>5. reader[c].buf \o Block(c, g + 1) = Bytes(at + r, b + sz) /\ at + r \in Nat
    <3>1. at + r \in Nat /\ (at + r) + b = Upto(c, g)
      BY <1>7, <1>8
    <3>2. Bytes(at + r, b) \o Bytes((at + r) + b, sz) = Bytes(at + r, b + sz)
      BY <1>7, <1>10, <3>1, BytesJoined
    <3> QED BY <1>8, <2>2, <3>1, <3>2
  <2>6. Len(Bytes(at + r, b + sz)) = b + sz /\ Bytes(at + r, b + sz) \in Seq(Byte)
    <3>1. b + sz \in Nat
      BY <1>7, <1>10
    <3> QED BY <2>5, <3>1, BytesType
  <2>7. reader'[c].buf = Bytes(at + r, b + sz) /\ reader'[c].eof = FALSE
    BY <1>2, <1>7, <2>4, <2>5 DEF QReaders
  <2>8. QueueOK(c)'
    BY <1>1, <1>11, <1>16, <2>7
  <2>9. \A longest \in Nat : NoBlockLonger(c, longest) => sz <= longest
    <3> SUFFICES ASSUME NEW longest \in Nat, NoBlockLonger(c, longest) PROVE sz <= longest
      OBVIOUS
    <3>1. Upto(c, g + 1) <= Upto(c, g) + longest
      BY <1>0, <1>9, OneBlock
    <3> QED BY <1>10, <3>1
  <2>10. Upto(c, g + 1) = Upto(c, g) + sz
    BY <1>10
  <2>11. CutOK(c)' /\ LoadOK(c)'
    <3> HIDE DEF sz
    <3> QED BY <1>10, <1>14, <2>6, <2>7, <2>9, <2>10
  <2> QED BY <1>12, <1>15, <2>6, <2>7, <2>8, <2>11 DEF StreamOK
<1>17. CASE ~(g + 1 <= n)
  <2>1. g = n /\ Head(queue[c]) = None
    BY <1>1, <1>4, <1>9, <1>17 DEF Item, n
  <2>2. reader'[c].buf = reader[c].buf /\ reader'[c].eof = TRUE
    BY <1>2, <1>7, <2>1 DEF QReaders
  <2>3. QueueOK(c)'
    BY <1>11, <2>1, <2>2
  <2>4. Upto(c, g + 1) = Upto(c, g) + 0 /\ b + 0 = b
    <3>1. Upto(c, n) = Size(c) /\ Upto(c, n + 1) = Size(c)
      BY <1>0, Offsets DEF n
    <3> QED BY <1>7, <1>10, <2>1, <3>1
  <2>5. CutOK(c)' /\ LoadOK(c)'
    <3>1. reader'[c].buf = Bytes(at + r, b + 0) /\ Len(reader'[c].buf) = b + 0
      BY <1>8, <2>2, <2>4 DEF b
    <3>2. 0 \in Nat /\ \A longest \in Nat : NoBlockLonger(c, longest) => 0 <= longest
      OBVIOUS
    <3> QED BY <1>14, <2>4, <3>1, <3>2
  <2> QED BY <1>7, <1>12, <1>15, <2>2, <2>3, <2>5 DEF StreamOK
<1> QED BY <1>16, <1>17

\* What one read takes of the buffer, and what it leaves.
TakesOff(s, a, b) ==
  \E t \in 0 .. b : /\ Taken(s) = Bytes(a, t) /\ Kept(s) = Bytes(a + t, b - t)
                    /\ Taken(s) = <<>> <=> b = 0

LEMMA ReadOff ==
  ASSUME NEW a \in Nat, NEW b \in Nat, NEW s, s = Bytes(a, b)
  PROVE  TakesOff(s, a, b)
<1> DEFINE t == IF b < ReadSize THEN b ELSE ReadSize
<1>1. s \in Seq(Byte) /\ Len(s) = b
  BY BytesType
<1>2. ReadSize \in Nat \ {0}
  BY AsyncAssumption
<1>3. t \in 0 .. b /\ (t = 0 <=> b = 0) /\ t \in Nat
  BY <1>2
<1>4. Taken(s) = SubSeq(s, 1, t)
  BY <1>1 DEF Taken
<1>5. SubSeq(s, 1, t) = Bytes(a, t)
  <2> DEFINE x == 1
  <2> HIDE DEF t
  <2>1. x \in 1 .. b + 1 /\ t \in x - 1 .. b /\ a + (x - 1) = a /\ t - (x - 1) = t
    BY <1>3
  <2> HIDE DEF x
  <2>2. SubSeq(Bytes(a, b), x, t) = Bytes(a + (x - 1), t - (x - 1))
    BY <2>1, BytesCut
  <2> QED BY <2>1, <2>2 DEF x
<1>6. Kept(s) = Bytes(a + t, b - t)
  <2>1. CASE b < ReadSize
    <3>1. Kept(s) = SubSeq(s, ReadSize + 1, b)
      BY <1>1 DEF Kept
    <3>2. SubSeq(s, ReadSize + 1, b) = <<>>
      BY <1>1, <1>2, <2>1
    <3>3. a + t \in Nat /\ b - t = 0
      BY <1>3, <2>1
    <3> HIDE DEF t
    <3> QED BY <3>1, <3>2, <3>3, NoBytes
  <2>2. CASE ~(b < ReadSize)
    <3> DEFINE x == t + 1
    <3>1. x = ReadSize + 1 /\ x \in 1 .. b + 1 /\ b \in x - 1 .. b /\ x - 1 = t
      BY <1>2, <2>2
    <3>2. Kept(s) = SubSeq(s, x, b)
      BY <1>1, <3>1 DEF Kept
    <3> HIDE DEF x, t
    <3>3. SubSeq(Bytes(a, b), x, b) = Bytes(a + (x - 1), b - (x - 1))
      BY <3>1, BytesCut
    <3> QED BY <3>1, <3>2, <3>3
  <2> QED BY <2>1, <2>2
<1> HIDE DEF t
<1>7. Taken(s) = <<>> <=> b = 0
  <2>1. Taken(s) = Bytes(a, t)
    BY <1>4, <1>5
  <2>2. CASE b = 0
    <3>1. t = 0
      BY <1>3, <2>2
    <3> QED BY <2>1, <2>2, <3>1, NoBytes
  <2>3. CASE b # 0
    <3>1. t # 0
      BY <1>3, <2>3
    <3>2. Len(Taken(s)) # 0
      BY <1>3, <2>1, <3>1, BytesType
    <3>3. Len(<<>>) = 0
      OBVIOUS
    <3> QED BY <2>3, <3>2, <3>3
  <2> QED BY <2>2, <2>3
<1> QED BY <1>3, <1>4, <1>5, <1>6, <1>7 DEF TakesOff

\* What feed makes of m bytes: k chunks, and a rest shorter than one.
FedInto(w, a, m, k) ==
  /\ k * ChunkSize \in 0 .. m /\ m - k * ChunkSize < ChunkSize
  /\ w.rest = Bytes(a + k * ChunkSize, m - k * ChunkSize)
  /\ Len(w.todo) = k
  /\ \A i \in 1 .. k : w.todo[i] = Bytes(a + (i - 1) * ChunkSize, ChunkSize)
  /\ w \in Works /\ ~w.last /\ w.pc = IF k = 0 THEN "read" ELSE "store"

LEMMA FedBytes ==
  ASSUME NEW a \in Nat, NEW m \in Nat, NEW x, x = Bytes(a, m), NEW w, w = Fed(x)
  PROVE  \E k \in Nat : FedInto(w, a, m, k)
<1> DEFINE k == Full(x)
           u == k * ChunkSize
<1>1. x \in Seq(Byte) /\ Len(x) = m /\ ChunkSize \in Nat \ {0}
  BY BytesType, AsyncAssumption
<1>2. k \in Nat /\ u <= m /\ m < u + ChunkSize /\ u \in Nat
  <2>1. k = m \div ChunkSize
    BY <1>1 DEF Full
  <2>2. k \in Nat /\ u <= m /\ m < u + ChunkSize
    BY <1>1, <2>1, Multiples
  <2> QED BY <1>1, <2>2, Products
<1>3. /\ w.pc = IF k = 0 THEN "read" ELSE "store"
      /\ w.rest = SubSeq(x, u + 1, m) /\ w.last = FALSE
      /\ w.todo = [i \in 1 .. k |-> SubSeq(x, (i - 1) * ChunkSize + 1, i * ChunkSize)]
  BY <1>1 DEF Fed
<1>a. w = [pc |-> w.pc, rest |-> w.rest, last |-> w.last, todo |-> w.todo]
  BY DEF Fed
<1> HIDE DEF k, u
<1>4. SubSeq(x, u + 1, m) = Bytes(a + u, m - u)
  <2> DEFINE y == u + 1
  <2>1. y \in 1 .. m + 1 /\ m \in y - 1 .. m /\ y - 1 = u
    BY <1>2
  <2> HIDE DEF y
  <2>2. SubSeq(Bytes(a, m), y, m) = Bytes(a + (y - 1), m - (y - 1))
    BY <2>1, BytesCut
  <2> QED BY <2>1, <2>2 DEF y
<1>5. ASSUME NEW i \in 1 .. k
      PROVE  /\ SubSeq(x, (i - 1) * ChunkSize + 1, i * ChunkSize) = Bytes(a + (i - 1) * ChunkSize, ChunkSize)
             /\ Bytes(a + (i - 1) * ChunkSize, ChunkSize) \in Seq(Byte)
  <2> DEFINE v == (i - 1) * ChunkSize
             y == v + 1
             z == i * ChunkSize
  <2>1. i - 1 \in Nat /\ i \in Nat /\ i <= k /\ (i - 1) + 1 = i
    BY <1>2
  <2>2. v \in Nat /\ z = v + ChunkSize /\ z <= u
    BY <1>1, <1>2, <2>1, Products DEF u
  <2> HIDE DEF v, z
  <2>3. y \in 1 .. m + 1 /\ z \in y - 1 .. m /\ y - 1 = v /\ z - (y - 1) = ChunkSize
    BY <1>1, <1>2, <2>2
  <2> HIDE DEF y
  <2>4. SubSeq(Bytes(a, m), y, z) = Bytes(a + (y - 1), z - (y - 1))
    BY <2>3, BytesCut
  <2>5. a + v \in Nat
    BY <2>2
  <2> QED BY <1>1, <2>3, <2>4, <2>5, BytesType DEF v, y, z
<1>6. w.todo \in [1 .. k -> Seq(Byte)]
  BY <1>3, <1>5
<1>7. w.todo \in Seq(Seq(Byte)) /\ Len(w.todo) = k
  BY <1>2, <1>6
<1>8. w.rest \in Seq(Byte)
  <2>1. a + u \in Nat /\ m - u \in Nat
    BY <1>2
  <2>2. Bytes(a + u, m - u) \in Seq(Byte)
    BY <2>1, BytesType
  <2> QED BY <1>3, <1>4, <2>2
<1>9. w \in Works
  <2>1. w.pc \in WorkPcs /\ w.last \in BOOLEAN
    BY <1>3 DEF WorkPcs
  <2> QED BY <1>a, <1>7, <1>8, <2>1 DEF Works
<1>10. u \in 0 .. m /\ m - u < ChunkSize
  BY <1>1, <1>2
<1>11. FedInto(w, a, m, k)
  BY <1>2, <1>3, <1>4, <1>5, <1>7, <1>9, <1>10 DEF u, FedInto
<1> QED BY <1>2, <1>11

\* What a read finds, and what it leaves alone.
LEMMA BeforeRead ==
  ASSUME DataTypes, NEW c \in Calls, StreamOK(c), ReadReturns(c)
  PROVE  LET at == Len(stored[c]) * ChunkSize
             r  == Len(work[c].rest)
             b  == Len(reader[c].buf)
         IN  /\ Len(stored[c]) \in Nat /\ at \in Nat /\ r \in Nat /\ b \in Nat /\ Gets(c) \in Nat
             /\ r < ChunkSize /\ at + r + b = Upto(c, Gets(c)) /\ Upto(c, Gets(c)) \in 0 .. Size(c)
             /\ Size(c) \in Nat
             /\ work[c].rest = Bytes(at, r) /\ reader[c].buf = Bytes(at + r, b)
             /\ \A i \in 1 .. Len(stored[c]) : stored[c][i] = Piece(c, i)
             /\ work'[c] = IF Taken(reader[c].buf) = <<>> THEN Finished(work[c].rest)
                           ELSE Fed(work[c].rest \o Taken(reader[c].buf))
             /\ reader'[c].buf = Kept(reader[c].buf) /\ reader'[c].eof = reader[c].eof
             /\ reader[c].eof \/ b >= ReadSize
             /\ source' = source /\ prod' = prod /\ queue' = queue /\ stored' = stored
<1> DEFINE at == Len(stored[c]) * ChunkSize
           r  == Len(work[c].rest)
           b  == Len(reader[c].buf)
<1>1. SourceOK /\ QueueOK(c) /\ CutOK(c) /\ work[c].pc = "read"
  BY DEF DataTypes, StreamOK, ReadReturns
<1>2. work[c].todo = <<>> /\ ~work[c].last
  BY <1>1 DEF StreamOK, StageOK
<1>3. reader[c] \in QReaders /\ work[c] \in Works /\ stored[c] \in Seq(Seq(Byte))
  BY DEF DataTypes
<1>4. reader[c].buf \in Seq(Byte) /\ work[c].rest \in Seq(Byte)
  BY <1>3 DEF QReaders, Works
<1>5. Len(stored[c]) \in Nat /\ b \in Nat /\ r \in Nat /\ ReadSize \in Nat
  BY <1>3, <1>4, AsyncAssumption
<1>6. Cut(c) = Len(stored[c])
  BY <1>2, <1>5 DEF Cut
<1>7. at \in Nat
  <2>1. ChunkSize \in Nat
    BY AsyncAssumption
  <2> QED BY <1>5, <2>1, Products
<1>8. RestOK(c) /\ ChunksOK(c)
  BY <1>1, <1>2 DEF CutOK
<1>9. Gets(c) \in Nat
  BY <1>1, CountsOf
<1>10. Upto(c, Gets(c)) \in 0 .. Size(c) /\ Size(c) \in Nat
  BY <1>1, <1>9, Offsets
<1>11. /\ work'[c] = IF Taken(reader[c].buf) = <<>> THEN Finished(work[c].rest)
                     ELSE Fed(work[c].rest \o Taken(reader[c].buf))
       /\ reader' = [reader EXCEPT ![c].buf = Kept(reader[c].buf)]
       /\ ~Wanting(c)
       /\ source' = source /\ prod' = prod /\ queue' = queue /\ stored' = stored
  BY DEF ReadReturns, DataTypes
<1>12. reader'[c].buf = Kept(reader[c].buf) /\ reader'[c].eof = reader[c].eof
  BY <1>3, <1>11 DEF DataTypes, QReaders
<1>13. reader[c].eof \/ b >= ReadSize
  BY <1>3, <1>5, <1>11 DEF Wanting, QReaders
<1>14. \A i \in 1 .. Len(stored[c]) : stored[c][i] = Piece(c, i)
  BY <1>8 DEF ChunksOK
<1>15. /\ r < ChunkSize /\ at + r + b = Upto(c, Gets(c))
       /\ work[c].rest = Bytes(at, r) /\ reader[c].buf = Bytes(at + r, b)
  BY <1>6, <1>8 DEF RestOK
<1> QED BY <1>5, <1>7, <1>9, <1>10, <1>11, <1>12, <1>13, <1>14, <1>15

\* A read does not touch the queue, and moves no byte out of memory.
LEMMA AfterRead ==
  ASSUME DataTypes, NEW c \in Calls, StreamOK(c),
         source' = source, prod' = prod, queue' = queue, stored' = stored,
         reader'[c].eof = reader[c].eof, Len(reader'[c].buf) \in 0 .. Len(reader[c].buf)
  PROVE  QueueOK(c)' /\ SpreadOK(c)' /\ LoadOK(c)' /\ Gets(c)' = Gets(c)
<1>1. Puts(c)' = Puts(c) /\ Gets(c)' = Gets(c)
  BY DEF Puts, Gets
<1>2. /\ Count(c)' = Count(c) /\ (\A i : Upto(c, i)' = Upto(c, i)) /\ (\A i : Item(c, i)' = Item(c, i))
      /\ \A n : NoBlockLonger(c, n)' <=> NoBlockLonger(c, n)
  BY DEF Count, Upto, Item, End, Block, NoBlockLonger
<1>3. QueueOK(c)'
  BY <1>1, <1>2 DEF StreamOK, QueueOK
<1>4. SpreadOK(c)'
  BY <1>1, <1>2 DEF StreamOK, SpreadOK
<1>5. LoadOK(c)'
  <2>1. Len(reader[c].buf) \in Nat /\ ReadSize \in Nat
    <3>1. reader[c].buf \in Seq(Byte)
      BY DEF DataTypes, QReaders
    <3> QED BY <3>1, AsyncAssumption
  <2> SUFFICES ASSUME NEW longest \in Nat, NoBlockLonger(c, longest)
               PROVE  /\ Len(reader'[c].buf) <= ReadSize - 1 + longest
                      /\ Upto(c, Gets(c)) - Len(stored[c]) * ChunkSize
                           <= (ReadSize - 1) + longest + (ChunkSize - 1)
    BY <1>1, <1>2 DEF LoadOK
  <2>2. /\ Len(reader[c].buf) <= ReadSize - 1 + longest
        /\ Upto(c, Gets(c)) - Len(stored[c]) * ChunkSize
             <= (ReadSize - 1) + longest + (ChunkSize - 1)
    BY DEF StreamOK, LoadOK
  <2> QED BY <2>1, <2>2
<1> QED BY <1>1, <1>3, <1>4, <1>5

\* read returns bytes, and as many chunks as there are among them.
LEMMA StreamFed ==
  ASSUME DataTypes, NEW c \in Calls, StreamOK(c), ReadReturns(c), Taken(reader[c].buf) # <<>>
  PROVE  StreamOK(c)' /\ work'[c] \in Works /\ reader'[c].buf \in Seq(Byte)
<1> DEFINE n  == Len(stored[c])
           at == n * ChunkSize
           r  == Len(work[c].rest)
           b  == Len(reader[c].buf)
           g  == Gets(c)
<1>1. /\ n \in Nat /\ at \in Nat /\ r \in Nat /\ b \in Nat /\ g \in Nat
      /\ r < ChunkSize /\ at + r + b = Upto(c, g) /\ Upto(c, g) \in 0 .. Size(c) /\ Size(c) \in Nat
      /\ work[c].rest = Bytes(at, r) /\ reader[c].buf = Bytes(at + r, b)
      /\ \A i \in 1 .. n : stored[c][i] = Piece(c, i)
  BY BeforeRead
<1>2. /\ work'[c] = Fed(work[c].rest \o Taken(reader[c].buf))
      /\ reader'[c].buf = Kept(reader[c].buf) /\ reader'[c].eof = reader[c].eof
      /\ source' = source /\ prod' = prod /\ queue' = queue /\ stored' = stored
  BY BeforeRead
<1>3. SourceOK /\ ChunkSize \in Nat \ {0}
  BY AsyncAssumption DEF DataTypes
<1> HIDE DEF n, at, r, b, g
<1>4. at + r \in Nat
  BY <1>1
<1>5. PICK t \in 0 .. b : /\ Taken(reader[c].buf) = Bytes(at + r, t)
                          /\ Kept(reader[c].buf) = Bytes((at + r) + t, b - t)
                          /\ Taken(reader[c].buf) = <<>> <=> b = 0
  <2> DEFINE a == at + r
             s == reader[c].buf
  <2>1. a \in Nat /\ b \in Nat /\ s = Bytes(a, b)
    BY <1>1, <1>4
  <2> HIDE DEF a, s
  <2>2. TakesOff(s, a, b)
    BY <2>1, ReadOff
  <2> QED BY <2>2 DEF TakesOff, a, s
<1>6. t \in Nat /\ r + t \in Nat /\ b - t \in Nat /\ (at + r) + t \in Nat
  BY <1>1, <1>5
<1>7. work[c].rest \o Taken(reader[c].buf) = Bytes(at, r + t)
  <2>1. Bytes(at, r) \o Bytes(at + r, t) = Bytes(at, r + t)
    <3>1. at \in Nat /\ r \in Nat /\ t \in Nat
      BY <1>1, <1>6
    <3> QED BY <3>1, BytesJoined
  <2> QED BY <1>1, <1>5, <2>1
<1> DEFINE w == work'[c]
<1>8. PICK k \in Nat : FedInto(w, at, r + t, k)
  <2> DEFINE m == r + t
             x == Bytes(at, m)
  <2>1. at \in Nat /\ m \in Nat /\ w = Fed(x)
    BY <1>1, <1>2, <1>6, <1>7
  <2> HIDE DEF m, w
  <2>2. \E k \in Nat : FedInto(w, at, m, k)
    BY <2>1, FedBytes
  <2> QED BY <2>2 DEF m
<1>0. /\ k * ChunkSize \in 0 .. r + t /\ (r + t) - k * ChunkSize < ChunkSize
      /\ w.rest = Bytes(at + k * ChunkSize, (r + t) - k * ChunkSize)
      /\ Len(w.todo) = k
      /\ \A i \in 1 .. k : w.todo[i] = Bytes(at + (i - 1) * ChunkSize, ChunkSize)
      /\ w \in Works /\ ~w.last /\ w.pc = IF k = 0 THEN "read" ELSE "store"
  BY <1>8 DEF FedInto
<1> HIDE DEF w
<1> DEFINE u == k * ChunkSize
<1>9. u \in Nat /\ u <= r + t /\ (r + t) - u \in Nat /\ (r + t) - u < ChunkSize
  BY <1>6, <1>0
<1>10. reader'[c].buf \in Seq(Byte) /\ Len(reader'[c].buf) = b - t
  BY <1>2, <1>5, <1>6, BytesType
<1>11. QueueOK(c)' /\ SpreadOK(c)' /\ LoadOK(c)' /\ Gets(c)' = g
  <2>1. Len(reader'[c].buf) \in 0 .. b
    BY <1>1, <1>5, <1>10
  <2> QED BY <1>2, <2>1, AfterRead DEF b, g
<1>12. /\ \A i : Piece(c, i)' = Piece(c, i) /\ Upto(c, g)' = Upto(c, g)
       /\ Cut(c)' = n + k /\ Len(stored'[c]) = n
  <2>1. \A i : Piece(c, i)' = Piece(c, i)
    BY <1>2 DEF Piece, Size, End
  <2>2. Upto(c, g)' = Upto(c, g)
    BY <1>2, <1>11 DEF Upto, Count, End, g
  <2>3. Cut(c)' = n + k /\ Len(stored'[c]) = n
    BY <1>2, <1>0 DEF Cut, n, w
  <2> QED BY <2>1, <2>2, <2>3
<1>13. (n + k) * ChunkSize = at + u
  BY <1>1, <1>3, Products DEF at
<1>14. ASSUME NEW j \in 1 .. k PROVE w.todo[j] = Piece(c, n + j)
  <2> DEFINE v == (j - 1) * ChunkSize
             i == n + j
  <2>1. j - 1 \in Nat /\ j \in Nat /\ j <= k /\ (j - 1) + 1 = j
    OBVIOUS
  <2>2. v \in Nat /\ j * ChunkSize = v + ChunkSize /\ j * ChunkSize <= u
    BY <1>3, <2>1, Products
  <2>3. i \in Nat \ {0} /\ i - 1 = n + (j - 1)
    BY <1>1, <2>1
  <2>4. i * ChunkSize = at + j * ChunkSize /\ (i - 1) * ChunkSize = at + v
    BY <1>1, <1>3, <2>1, <2>3, Products DEF at
  <2> HIDE DEF v, i, u
  <2>5. i * ChunkSize <= Size(c)
    <3>1. u <= r + b
      BY <1>1, <1>5, <1>9
    <3>2. j * ChunkSize \in Nat
      BY <1>3, <2>2
    <3> DEFINE y == i * ChunkSize
               z == j * ChunkSize
    <3>3. y = at + z /\ z <= u /\ z \in Nat
      BY <2>2, <2>4, <3>2
    <3>4. at \in Nat /\ r \in Nat /\ b \in Nat /\ u \in Nat /\ Size(c) \in Nat
          /\ at + r + b <= Size(c)
      BY <1>1, <1>9
    <3> HIDE DEF y, z
    <3>5. y <= Size(c)
      BY <3>1, <3>3, <3>4
    <3> QED BY <3>5 DEF y
  <2>6. Piece(c, i) = Bytes((i - 1) * ChunkSize, ChunkSize)
    BY <1>3, <2>3, <2>5, WholePiece
  <2> QED BY <1>0, <2>4, <2>6 DEF v, i
<1>15. ChunksOK(c)'
  BY <1>1, <1>2, <1>0, <1>12, <1>14 DEF ChunksOK, w
<1>16. RestOK(c)'
  <2> HIDE DEF u
  <2>1. Len(w.rest) = (r + t) - u
    <3>1. at + u \in Nat
      BY <1>1, <1>9
    <3> QED BY <1>0, <1>9, <3>1, BytesType DEF u
  <2>2. (at + u) + ((r + t) - u) + (b - t) = Upto(c, g) /\ (at + u) + ((r + t) - u) = (at + r) + t
    <3>1. (at + u) + ((r + t) - u) = (at + r) + t
      BY <1>1, <1>6, <1>9
    <3>2. ((at + r) + t) + (b - t) = at + r + b
      BY <1>1, <1>6
    <3> QED BY <1>1, <3>1, <3>2
  <2>3. w.rest = Bytes(at + u, (r + t) - u) /\ reader'[c].buf = Bytes((at + r) + t, b - t)
    BY <1>2, <1>5, <1>0 DEF u
  <2>4. Cut(c)' * ChunkSize = at + u /\ Upto(c, Gets(c))' = Upto(c, g)
    <3>1. Cut(c)' = n + k
      BY <1>12
    <3>2. Cut(c)' * ChunkSize = at + u
      BY <1>13, <3>1
    <3>3. Upto(c, Gets(c))' = Upto(c, g)
      BY <1>2, <1>11 DEF Upto, Count, End
    <3> QED BY <3>2, <3>3
  <2> QED BY <1>9, <1>10, <2>1, <2>2, <2>3, <2>4 DEF RestOK, w
<1>17. CutOK(c)'
  BY <1>0, <1>15, <1>16 DEF CutOK, w
<1>18. StageOK(work'[c])
  <2>1. k = 0 => w.todo = <<>>
    <3>1. w.todo \in Seq(Seq(Byte))
      BY <1>0 DEF Works
    <3> QED BY <1>0, <3>1
  <2>2. k # 0 => w.todo # <<>>
    <3>1. Len(<<>>) = 0
      OBVIOUS
    <3> QED BY <1>0, <3>1
  <2> QED BY <1>0, <2>1, <2>2 DEF StageOK, w
<1> QED BY <1>0, <1>10, <1>11, <1>17, <1>18 DEF StreamOK, w

\* read returns nothing: the stream is at its end, and the rest is its last chunk.
LEMMA StreamFinished ==
  ASSUME DataTypes, NEW c \in Calls, StreamOK(c), ReadReturns(c), Taken(reader[c].buf) = <<>>
  PROVE  StreamOK(c)' /\ work'[c] \in Works /\ reader'[c].buf \in Seq(Byte)
<1> DEFINE n  == Len(stored[c])
           at == n * ChunkSize
           r  == Len(work[c].rest)
           b  == Len(reader[c].buf)
           g  == Gets(c)
           w  == work'[c]
<1>1. /\ n \in Nat /\ at \in Nat /\ r \in Nat /\ b \in Nat /\ g \in Nat
      /\ r < ChunkSize /\ at + r + b = Upto(c, g) /\ Upto(c, g) \in 0 .. Size(c) /\ Size(c) \in Nat
      /\ work[c].rest = Bytes(at, r) /\ reader[c].buf = Bytes(at + r, b)
      /\ \A i \in 1 .. n : stored[c][i] = Piece(c, i)
      /\ reader[c].eof \/ b >= ReadSize
  BY BeforeRead
<1>2. /\ w = Finished(work[c].rest)
      /\ reader'[c].buf = Kept(reader[c].buf) /\ reader'[c].eof = reader[c].eof
      /\ source' = source /\ prod' = prod /\ queue' = queue /\ stored' = stored
  BY BeforeRead
<1>3. SourceOK /\ QueueOK(c) /\ ChunkSize \in Nat \ {0} /\ ReadSize \in Nat \ {0}
  BY AsyncAssumption DEF DataTypes, StreamOK
<1> HIDE DEF n, at, r, b, g, w
<1>4. at + r \in Nat
  BY <1>1
<1>5. PICK t \in 0 .. b : /\ Taken(reader[c].buf) = Bytes(at + r, t)
                          /\ Kept(reader[c].buf) = Bytes((at + r) + t, b - t)
                          /\ Taken(reader[c].buf) = <<>> <=> b = 0
  <2> DEFINE a == at + r
             s == reader[c].buf
  <2>1. a \in Nat /\ b \in Nat /\ s = Bytes(a, b)
    BY <1>1, <1>4
  <2> HIDE DEF a, s
  <2>2. TakesOff(s, a, b)
    BY <2>1, ReadOff
  <2> QED BY <2>2 DEF TakesOff, a, s
<1>6. b = 0 /\ t = 0
  BY <1>1, <1>5
<1>7. reader'[c].buf = <<>> /\ Len(reader'[c].buf) = 0
  <2>1. (at + r) + t \in Nat /\ b - t = 0
    BY <1>4, <1>6
  <2>2. reader'[c].buf = <<>>
    BY <1>2, <1>5, <2>1, NoBytes
  <2> QED BY <2>2
<1>8. reader[c].eof
  BY <1>1, <1>3, <1>6
<1>9. n * ChunkSize + r = Size(c)
  <2>1. g = Count(c) + 1
    BY <1>3, <1>8 DEF QueueOK, g
  <2>2. Upto(c, g) = Size(c)
    BY <1>3, <2>1, Offsets
  <2> QED BY <1>1, <1>6, <2>2 DEF at
<1>10. QueueOK(c)' /\ SpreadOK(c)' /\ LoadOK(c)' /\ Gets(c)' = g
  <2>1. Len(reader'[c].buf) \in 0 .. b
    BY <1>6, <1>7
  <2> QED BY <1>2, <2>1, AfterRead DEF b, g
<1>11. work[c].rest \in Seq(Byte)
  BY <1>1, BytesType
<1>12. w.rest = <<>> /\ w.last = TRUE /\ w = [pc |-> w.pc, rest |-> w.rest, last |-> w.last, todo |-> w.todo]
  BY <1>2 DEF Finished
<1>14. \/ r = 0 /\ w.pc = "commit" /\ w.todo = <<>>
       \/ r # 0 /\ w.pc = "store" /\ w.todo = <<work[c].rest>>
  <2>1. CASE r = 0
    BY <1>1, <1>2, <2>1, NoBytes DEF Finished
  <2>2. CASE r # 0
    <3>1. work[c].rest # <<>>
      BY <1>11, <2>2 DEF r
    <3> QED BY <1>2, <2>2, <3>1 DEF Finished
  <2> QED BY <2>1, <2>2
<1>15. w.todo \in Seq(Seq(Byte)) /\ Len(w.todo) = IF r = 0 THEN 0 ELSE 1
  <2>1. CASE r = 0
    <3>1. w.todo = <<>>
      BY <1>14, <2>1
    <3> QED BY <2>1, <3>1
  <2>2. CASE r # 0
    <3>1. w.todo = <<work[c].rest>>
      BY <1>14, <2>2
    <3> DEFINE s == work[c].rest
    <3>2. s \in Seq(Byte) /\ w.todo = <<s>>
      BY <1>11, <3>1
    <3> HIDE DEF s
    <3> QED BY <2>2, <3>2
  <2> QED BY <2>1, <2>2
<1>16. w \in Works
  <2>1. w.pc \in WorkPcs
    BY <1>14 DEF WorkPcs
  <2>2. w.rest \in Seq(Byte) /\ w.last \in BOOLEAN
    <3>1. <<>> \in Seq(Byte)
      OBVIOUS
    <3> QED BY <1>12, <3>1
  <2> DEFINE pc == w.pc
             rest == w.rest
             todo == w.todo
             last == w.last
  <2>3. w = [pc |-> pc, rest |-> rest, last |-> last, todo |-> todo]
    BY <1>12
  <2>4. pc \in WorkPcs /\ rest \in Seq(Byte) /\ last \in BOOLEAN /\ todo \in Seq(Seq(Byte))
    BY <1>15, <2>1, <2>2
  <2> HIDE DEF pc, rest, todo, last
  <2> QED BY <2>3, <2>4 DEF Works
<1>17. \A i : Piece(c, i)' = Piece(c, i)
  BY <1>2 DEF Piece, Size, End
<1>18. /\ Pieces(Stream(c))' = Pieces(Stream(c))
       /\ Cut(c)' = n + Len(w.todo) /\ Len(stored'[c]) = n
  <2>1. Pieces(Stream(c))' = Pieces(Stream(c))
    BY <1>2 DEF Pieces, Stream, Size, End
  <2>2. Cut(c)' = n + Len(w.todo) /\ Len(stored'[c]) = n
    BY <1>2 DEF Cut, n, w
  <2> QED BY <2>1, <2>2
<1>19. ChunksOK(c)'
  <2>1. ASSUME NEW j \in 1 .. Len(w.todo) PROVE w.todo[j] = Piece(c, n + j)
    <3>1. j = 1 /\ r # 0 /\ w.todo = <<work[c].rest>>
      BY <1>14, <1>15
    <3>2. Piece(c, n + 1) = Bytes(n * ChunkSize, r)
      BY <1>1, <1>3, <1>9, LastPiece
    <3> QED BY <1>1, <3>1, <3>2 DEF at
  <2> QED BY <1>1, <1>2, <1>17, <1>18, <2>1 DEF ChunksOK, w
<1>20. EndOK(c)'
  <2>1. Len(Pieces(Stream(c))) = IF r = 0 THEN n ELSE n + 1
    BY <1>1, <1>3, <1>9, PiecesOf
  <2>2. n + Len(w.todo) = Len(Pieces(Stream(c))) /\ Len(w.todo) <= 1
    BY <1>1, <1>15, <2>1
  <2> QED BY <1>2, <1>7, <1>8, <1>12, <1>18, <2>2 DEF EndOK, w
<1>21. CutOK(c)'
  BY <1>12, <1>19, <1>20 DEF CutOK, w
<1>22. StageOK(work'[c])
  BY <1>12, <1>14 DEF StageOK, w
<1>23. reader'[c].buf \in Seq(Byte)
  BY <1>7
<1> QED BY <1>10, <1>16, <1>21, <1>22, <1>23 DEF StreamOK, w

LEMMA StreamRead ==
  ASSUME DataTypes, NEW c \in Calls, StreamOK(c), ReadReturns(c)
  PROVE  StreamOK(c)' /\ work'[c] \in Works /\ reader'[c].buf \in Seq(Byte)
BY StreamFed, StreamFinished

\* A chunk is stored: it goes from what is cut to what is stored.
LEMMA StreamSave ==
  ASSUME DataTypes, NEW c \in Calls, StreamOK(c), RefcountSave(c)
  PROVE  StreamOK(c)' /\ work'[c] \in Works /\ stored'[c] \in Seq(Seq(Byte))
<1> DEFINE n  == Len(stored[c])
           m  == Len(work[c].todo)
           w  == work[c]
           v  == work'[c]
<1>1. /\ w \in Works /\ w.todo \in Seq(Seq(Byte)) /\ m \in Nat
      /\ stored[c] \in Seq(Seq(Byte)) /\ n \in Nat /\ ChunkSize \in Nat /\ ReadSize \in Nat
  <2>1. w \in Works /\ stored[c] \in Seq(Seq(Byte))
    BY DEF DataTypes
  <2>2. w.todo \in Seq(Seq(Byte))
    BY <2>1 DEF Works
  <2> HIDE DEF w
  <2> QED BY <2>1, <2>2, AsyncAssumption DEF w
<1>2. QueueOK(c) /\ SpreadOK(c) /\ CutOK(c) /\ LoadOK(c) /\ ChunksOK(c) /\ SourceOK
  BY DEF StreamOK, DataTypes, CutOK
<1>3. w.todo # <<>> /\ w.pc = "save"
  BY DEF StreamOK, StageOK, RefcountSave
<1>4. /\ source' = source /\ prod' = prod /\ queue' = queue /\ reader' = reader
      /\ stored'[c] = Append(stored[c], Head(w.todo))
  BY DEF RefcountSave, DataTypes
<1>5. /\ v = [w EXCEPT !.todo = Tail(w.todo), !.pc = v.pc]
      /\ v.pc = CASE m > 1 -> "store"
                  [] m = 1 /\ w.last -> "commit"
                  [] OTHER -> "read"
  BY <1>1 DEF RefcountSave, DataTypes, Works
<1>6. v.todo = Tail(w.todo) /\ v.rest = w.rest /\ v.last = w.last
  BY <1>1, <1>5 DEF Works
<1>7. /\ m \in Nat \ {0} /\ Head(w.todo) = w.todo[1] /\ Head(w.todo) \in Seq(Byte)
      /\ v.todo \in Seq(Seq(Byte)) /\ Len(v.todo) = m - 1
      /\ \A j \in 1 .. m - 1 : v.todo[j] = w.todo[j + 1]
  BY <1>1, <1>3, <1>6
<1>8. /\ stored'[c] \in Seq(Seq(Byte)) /\ Len(stored'[c]) = n + 1
      /\ \A i \in 1 .. n : stored'[c][i] = stored[c][i]
      /\ stored'[c][n + 1] = w.todo[1]
  BY <1>1, <1>4, <1>7
<1>9. v \in Works
  BY <1>1, <1>5, <1>6, <1>7 DEF Works, WorkPcs
<1>10. Puts(c)' = Puts(c) /\ Gets(c)' = Gets(c)
  BY <1>4 DEF Puts, Gets
<1>11. /\ Count(c)' = Count(c) /\ (\A i : Upto(c, i)' = Upto(c, i)) /\ (\A i : Item(c, i)' = Item(c, i))
       /\ \A k : NoBlockLonger(c, k)' <=> NoBlockLonger(c, k)
       /\ \A i : Piece(c, i)' = Piece(c, i) /\ Pieces(Stream(c))' = Pieces(Stream(c))
  BY <1>4 DEF Count, Upto, Item, End, Block, NoBlockLonger, Piece, Size, Pieces, Stream
<1>12. QueueOK(c)'
  BY <1>2, <1>4, <1>10, <1>11 DEF QueueOK
<1>13. SpreadOK(c)'
  BY <1>2, <1>4, <1>10, <1>11 DEF SpreadOK
<1>14. Cut(c)' = Cut(c)
  <2>1. Cut(c) = n + m /\ Cut(c)' = (n + 1) + (m - 1)
    BY <1>7, <1>8 DEF Cut
  <2> HIDE DEF n, m
  <2> QED BY <1>1, <1>7, <2>1
<1> HIDE DEF n, m, w, v
<1>15. ChunksOK(c)'
  <2>1. \A j \in 1 .. m : w.todo[j] = Piece(c, n + j)
    BY <1>2 DEF ChunksOK, w, m, n
  <2>2. ASSUME NEW i \in 1 .. n + 1 PROVE stored'[c][i] = Piece(c, i)
    <3>1. CASE i \in 1 .. n
      <4>1. stored[c][i] = Piece(c, i)
        BY <1>2, <3>1 DEF ChunksOK, n
      <4> QED BY <1>8, <3>1, <4>1
    <3>2. CASE i = n + 1
      <4>1. 1 \in 1 .. m
        BY <1>7
      <4> QED BY <1>8, <2>1, <3>2, <4>1
    <3> QED BY <1>1, <3>1, <3>2
  <2>3. ASSUME NEW j \in 1 .. m - 1 PROVE v.todo[j] = Piece(c, (n + 1) + j)
    <3>1. j + 1 \in 1 .. m /\ n + (j + 1) = (n + 1) + j
      BY <1>1
    <3> QED BY <1>7, <2>1, <3>1
  <2> QED BY <1>7, <1>8, <1>11, <2>2, <2>3 DEF ChunksOK, v
<1>16. CutOK(c)'
  <2>1. CASE w.last
    <3>1. EndOK(c)
      BY <1>2, <2>1 DEF CutOK, w
    <3>2. m <= 1
      BY <3>1 DEF EndOK, m, w
    <3>3. Len(v.todo) <= 1
      BY <1>7, <3>2
    <3>4. EndOK(c)'
      BY <1>4, <1>6, <1>11, <1>14, <3>1, <3>3 DEF EndOK, w, v
    <3> QED BY <1>6, <1>15, <2>1, <3>4 DEF CutOK, v
  <2>2. CASE ~w.last
    <3>1. RestOK(c)
      BY <1>2, <2>2 DEF CutOK, w
    <3>2. RestOK(c)'
      BY <1>4, <1>6, <1>10, <1>11, <1>14, <3>1 DEF RestOK, w, v
    <3> QED BY <1>6, <1>15, <2>2, <3>2 DEF CutOK, v
  <2> QED BY <2>1, <2>2
<1>17. LoadOK(c)'
  <2> DEFINE all == Upto(c, Gets(c))
  <2>1. all \in Nat
    <3>1. Gets(c) \in Nat
      BY <1>2, CountsOf
    <3>2. Upto(c, Gets(c)) \in 0 .. Size(c)
      BY <1>2, <3>1, Offsets
    <3> QED BY <1>2, <3>2, Offsets
  <2> HIDE DEF all
  <2> SUFFICES ASSUME NEW longest \in Nat, NoBlockLonger(c, longest)
               PROVE  /\ Len(reader[c].buf) <= ReadSize - 1 + longest
                      /\ all - (n + 1) * ChunkSize <= (ReadSize - 1) + longest + (ChunkSize - 1)
    BY <1>4, <1>8, <1>10, <1>11 DEF LoadOK, all
  <2>2. /\ Len(reader[c].buf) <= ReadSize - 1 + longest
        /\ all - n * ChunkSize <= (ReadSize - 1) + longest + (ChunkSize - 1)
    BY <1>2 DEF LoadOK, all, n
  <2>3. (n + 1) * ChunkSize = n * ChunkSize + ChunkSize /\ n * ChunkSize \in Nat
    BY <1>1, Products
  <2>4. all - (n + 1) * ChunkSize <= all - n * ChunkSize
    BY <1>1, <2>1, <2>3
  <2>5. all - (n + 1) * ChunkSize \in Int /\ all - n * ChunkSize \in Int
    BY <1>1, <2>1, <2>3
  <2> QED BY <1>1, <2>2, <2>4, <2>5
<1>18. StageOK(v)
  <2>1. m > 1 => v.todo # <<>> /\ v.pc = "store"
    <3>1. Len(<<>>) = 0
      OBVIOUS
    <3> QED BY <1>1, <1>5, <1>7, <3>1
  <2>2. m = 1 => v.todo = <<>>
    BY <1>7
  <2>3. m = 1 => v.pc = IF w.last THEN "commit" ELSE "read"
    BY <1>5
  <2>4. m > 1 \/ m = 1
    BY <1>7
  <2> QED BY <1>6, <2>1, <2>2, <2>3, <2>4 DEF StageOK
<1> QED BY <1>8, <1>9, <1>12, <1>13, <1>16, <1>17, <1>18 DEF StreamOK, v

-------------------------------------------------------------------------------
(* The bytes: every step                                                         *)

\* A worker goes from one step to another, or nobody does anything to a stream.
LEMMA DataMove ==
  ASSUME DataTypes, Streams, UNCHANGED <<source, prod, queue, reader, stored>>,
         work' \in [Calls -> Works], \A c \in Calls : SameWork(c) /\ StageOK(work'[c])
  PROVE  DataTypes' /\ Streams'
<1>1. DataTypes'
  BY DEF DataTypes, SourceOK
<1>2. ASSUME NEW c \in Calls PROVE StreamOK(c)'
  BY <1>2, StreamSame DEF Streams
<1> QED BY <1>1, <1>2 DEF Streams

\* One call is at work, on nothing but its own.
LEMMA DataOfOne ==
  ASSUME DataTypes, Streams, NEW c \in Calls, source' = source,
         /\ prod' \in [Calls -> Prods] /\ queue' \in [Calls -> Seq(Seq(Byte) \cup {None})]
         /\ reader' \in [Calls -> QReaders] /\ work' \in [Calls -> Works]
         /\ stored' \in [Calls -> Seq(Seq(Byte))],
         \A d \in Calls \ {c} :
           /\ prod'[d] = prod[d] /\ queue'[d] = queue[d] /\ reader'[d] = reader[d]
           /\ work'[d] = work[d] /\ stored'[d] = stored[d],
         StreamOK(c)'
  PROVE  DataTypes' /\ Streams'
<1>1. DataTypes'
  BY DEF DataTypes, SourceOK
<1>2. ASSUME NEW d \in Calls \ {c} PROVE StreamOK(d)'
  <2>1. StreamOK(d) /\ StageOK(work'[d]) /\ SameWork(d)
    BY DEF Streams, StreamOK, SameWork
  <2> QED BY <2>1, StreamSame
<1> QED BY <1>1, <1>2 DEF Streams

LEMMA DataStart ==
  ASSUME DataTypes, Streams, NEW c \in Calls, Start(c) \/ SourceRaises(c) \/ Pull(c)
  PROVE  DataTypes' /\ Streams'
<1>1. /\ source' = source /\ queue' = queue /\ reader' = reader /\ stored' = stored
      /\ work' = work
  BY DEF Start, SourceRaises, Pull
<1>2. StreamOK(c) /\ QueueOK(c) /\ prod[c] \in Prods /\ SourceOK
  BY DEF Streams, StreamOK, DataTypes
<1>3. Count(c) \in Nat
  BY <1>2, Offsets
<1>4. CASE Start(c) \/ SourceRaises(c)
  <2> DEFINE to == IF prod[c].pc = "idle" THEN "pull" ELSE "raised"
  <2>1. prod' = [prod EXCEPT ![c].pc = to] /\ prod[c].pc \in {"idle", "pull"}
    BY <1>4 DEF Start, SourceRaises
  <2>2. to \in {"pull", "raised"}
    OBVIOUS
  <2> HIDE DEF to
  <2>3. prod' \in [Calls -> Prods] /\ \A d \in Calls \ {c} : prod'[d] = prod[d]
    BY <1>2, <2>1, <2>2 DEF DataTypes, Prods
  <2>4. prod'[c].pc = to /\ prod'[c].pulled = prod[c].pulled
    BY <1>2, <2>1 DEF DataTypes, Prods
  <2>5. Puts(c)' = Puts(c)
    BY <2>1, <2>2, <2>4 DEF Puts
  <2>6. prod[c].pulled <= Count(c) + 1 /\ prod[c].pulled <= Count(c)
    BY <1>2, <2>1 DEF QueueOK
  <2>7. StreamOK(c)'
    BY <1>1, <1>2, <2>2, <2>4, <2>5, <2>6, StreamPulled
  <2> QED BY <1>1, <2>3, <2>7, DataOfOne DEF DataTypes
<1>5. CASE Pull(c)
  <2> DEFINE n == prod[c].pulled
  <2>1. /\ prod[c].pc = "pull" /\ n \in Nat
        /\ prod' = [prod EXCEPT ![c] = [pc |-> "put", pulled |-> n + 1, item |-> NextItem(c)]]
    BY <1>2, <1>5 DEF Pull, Prods, DataTypes
  <2> HIDE DEF n
  <2>2. NextItem(c) = Item(c, n + 1)
    <3>1. n < Count(c) <=> n + 1 <= Count(c)
      BY <1>3, <2>1
    <3> QED BY <3>1 DEF NextItem, Item, Count, n
  <2>3. NextItem(c) \in Seq(Byte) \cup {None}
    <3>1. CASE n < Count(c)
      <4>1. n + 1 \in 1 .. Count(c)
        BY <1>3, <2>1, <3>1
      <4> QED BY <1>2, <2>2, <4>1, BlockBytes DEF Item
    <3>2. CASE ~(n < Count(c))
      BY <3>2 DEF NextItem, Count, n
    <3> QED BY <3>1, <3>2
  <2>4. /\ prod' \in [Calls -> Prods] /\ \A d \in Calls \ {c} : prod'[d] = prod[d]
    BY <2>1, <2>3 DEF DataTypes, Prods
  <2>5. prod'[c].pc = "put" /\ prod'[c].pulled = n + 1 /\ prod'[c].item = Item(c, n + 1)
    BY <2>1, <2>2 DEF DataTypes
  <2>6. Puts(c)' = Puts(c)
    <3>1. Puts(c)' = (n + 1) - 1
      BY <2>5 DEF Puts
    <3>2. Puts(c) = n
      BY <2>1 DEF Puts, n
    <3> QED BY <2>1, <3>1, <3>2
  <2>7. n <= Count(c) /\ n + 1 <= Count(c) + 1 /\ n + 1 >= 1
    <3>1. n <= Count(c)
      BY <1>2, <2>1 DEF QueueOK, n
    <3> QED BY <1>3, <2>1, <3>1
  <2>8. StreamOK(c)'
    BY <1>1, <1>2, <2>5, <2>6, <2>7, StreamPulled
  <2> QED BY <1>1, <2>4, <2>8, DataOfOne DEF DataTypes
<1> QED BY <1>4, <1>5

LEMMA DataQueue ==
  ASSUME JobsOK, DataTypes, Streams, NEW c \in Calls, Put(c) \/ Get(c)
  PROVE  DataTypes' /\ Streams'
<1>1. StreamOK(c) /\ prod[c] \in Prods /\ reader[c] \in QReaders
      /\ queue[c] \in Seq(Seq(Byte) \cup {None})
  BY DEF Streams, DataTypes
<1>2. CASE Put(c)
  <2>1. prod[c].pc = "put"
    BY <1>2 DEF Put, JobsOK
  <2>2. StreamOK(c)'
    BY <1>1, <1>2, <2>1, StreamPut
  <2>3. /\ source' = source /\ reader' = reader /\ work' = work /\ stored' = stored
        /\ queue' = [queue EXCEPT ![c] = Append(queue[c], prod[c].item)]
        /\ prod' = [prod EXCEPT ![c].pc = IF prod[c].item = None THEN "done" ELSE "pull"]
    BY <1>2 DEF Put
  <2>4. Append(queue[c], prod[c].item) \in Seq(Seq(Byte) \cup {None})
    BY <1>1 DEF Prods
  <2>5. queue' \in [Calls -> Seq(Seq(Byte) \cup {None})] /\ \A d \in Calls \ {c} : queue'[d] = queue[d]
    BY <2>3, <2>4 DEF DataTypes
  <2>6. prod' \in [Calls -> Prods] /\ \A d \in Calls \ {c} : prod'[d] = prod[d]
    BY <1>1, <2>3 DEF DataTypes, Prods
  <2> QED BY <2>2, <2>3, <2>5, <2>6, DataOfOne DEF DataTypes
<1>3. CASE Get(c)
  <2>1. StreamOK(c)' /\ reader'[c].buf \in Seq(Byte)
    BY <1>1, <1>3, StreamGet
  <2>2. /\ source' = source /\ prod' = prod /\ work' = work /\ stored' = stored
        /\ queue' = [queue EXCEPT ![c] = Tail(queue[c])] /\ queue[c] # <<>>
        /\ reader' = IF Head(queue[c]) = None THEN [reader EXCEPT ![c].eof = TRUE]
                     ELSE [reader EXCEPT ![c].buf = reader[c].buf \o Head(queue[c])]
    BY <1>3 DEF Get
  <2>3. Tail(queue[c]) \in Seq(Seq(Byte) \cup {None})
    BY <1>1, <2>2
  <2>4. queue' \in [Calls -> Seq(Seq(Byte) \cup {None})] /\ \A d \in Calls \ {c} : queue'[d] = queue[d]
    BY <2>2, <2>3 DEF DataTypes
  <2>5. reader' \in [Calls -> QReaders] /\ \A d \in Calls \ {c} : reader'[d] = reader[d]
    <3>1. CASE Head(queue[c]) = None
      BY <1>1, <2>2, <3>1 DEF DataTypes, QReaders
    <3>2. CASE Head(queue[c]) # None
      <4> DEFINE s == reader[c].buf \o Head(queue[c])
      <4>1. reader' = [reader EXCEPT ![c].buf = s]
        BY <2>2, <3>2
      <4>2. s \in Seq(Byte)
        <5>1. reader'[c].buf = s
          BY <1>1, <4>1 DEF DataTypes, QReaders
        <5> QED BY <2>1, <5>1
      <4> HIDE DEF s
      <4> QED BY <1>1, <4>1, <4>2 DEF DataTypes, QReaders
    <3> QED BY <3>1, <3>2
  <2> QED BY <2>1, <2>2, <2>4, <2>5, DataOfOne DEF DataTypes
<1> QED BY <1>2, <1>3

LEMMA DataStore ==
  ASSUME DataTypes, Streams, NEW c \in Calls, ReadReturns(c) \/ RefcountSave(c)
  PROVE  DataTypes' /\ Streams'
<1>1. StreamOK(c) /\ reader[c] \in QReaders
  BY DEF Streams, DataTypes
<1>2. CASE ReadReturns(c)
  <2>1. StreamOK(c)' /\ work'[c] \in Works /\ reader'[c].buf \in Seq(Byte)
    BY <1>1, <1>2, StreamRead
  <2>2. /\ source' = source /\ prod' = prod /\ queue' = queue /\ stored' = stored
        /\ reader' = [reader EXCEPT ![c].buf = Kept(reader[c].buf)]
        /\ work' = [work EXCEPT ![c] = work'[c]]
    BY <1>2 DEF ReadReturns, DataTypes
  <2>3. Kept(reader[c].buf) \in Seq(Byte)
    BY <1>1, <2>1, <2>2 DEF DataTypes, QReaders
  <2>4. reader' \in [Calls -> QReaders] /\ \A d \in Calls \ {c} : reader'[d] = reader[d]
    BY <1>1, <2>2, <2>3 DEF DataTypes, QReaders
  <2>5. work' \in [Calls -> Works] /\ \A d \in Calls \ {c} : work'[d] = work[d]
    BY <2>1, <2>2 DEF DataTypes
  <2> QED BY <2>1, <2>2, <2>4, <2>5, DataOfOne DEF DataTypes
<1>3. CASE RefcountSave(c)
  <2>1. StreamOK(c)' /\ work'[c] \in Works /\ stored'[c] \in Seq(Seq(Byte))
    BY <1>1, <1>3, StreamSave
  <2>2. /\ source' = source /\ prod' = prod /\ queue' = queue /\ reader' = reader
        /\ stored' = [stored EXCEPT ![c] = stored'[c]]
        /\ work' = [work EXCEPT ![c] = work'[c]]
    <3> DEFINE to == CASE Len(work[c].todo) > 1 -> "store"
                       [] Len(work[c].todo) = 1 /\ work[c].last -> "commit"
                       [] OTHER -> "read"
               chunk == Head(work[c].todo)
    <3>1. /\ source' = source /\ prod' = prod /\ queue' = queue /\ reader' = reader
          /\ stored' = [stored EXCEPT ![c] = Append(@, chunk)]
          /\ work' = [work EXCEPT ![c].todo = Tail(@), ![c].pc = to]
      BY <1>3 DEF RefcountSave
    <3> HIDE DEF to, chunk
    <3> QED BY <3>1 DEF DataTypes
  <2>3. stored' \in [Calls -> Seq(Seq(Byte))] /\ \A d \in Calls \ {c} : stored'[d] = stored[d]
    BY <2>1, <2>2 DEF DataTypes
  <2>4. work' \in [Calls -> Works] /\ \A d \in Calls \ {c} : work'[d] = work[d]
    BY <2>1, <2>2 DEF DataTypes
  <2> QED BY <2>1, <2>2, <2>3, <2>4, DataOfOne DEF DataTypes
<1> QED BY <1>2, <1>3

\* The steps that change only what a worker is at.
LEMMA DataWorker ==
  ASSUME DataTypes, Streams, NEW c \in Calls,
         LockBlob(c) \/ BlobPut(c) \/ LockRefcount(c) \/ Commit(c) \/ IngestFails(c)
  PROVE  DataTypes' /\ Streams'
<1>1. UNCHANGED <<source, prod, queue, reader, stored>>
  BY DEF LockBlob, BlobPut, LockRefcount, Commit, IngestFails
<1>2. PICK to \in {"put", "count", "save", "ok", "failed"} :
         /\ work' = [work EXCEPT ![c].pc = to]
         /\ to \in {"put", "count", "save"} => work[c].pc \in {"store", "put", "count"}
         /\ to = "ok" => work[c].pc = "commit"
  BY DEF LockBlob, BlobPut, LockRefcount, Commit, IngestFails
<1>3. work' \in [Calls -> Works]
  BY <1>2 DEF DataTypes, Works, WorkPcs
<1>4. ASSUME NEW d \in Calls PROVE SameWork(d) /\ StageOK(work'[d])
  <2>1. StageOK(work[d])
    BY DEF Streams, StreamOK
  <2>2. CASE d = c
    <3>1. work'[d].pc = to /\ SameWork(d)
      BY <1>2, <2>2 DEF DataTypes, Works, SameWork
    <3> QED BY <1>2, <2>1, <2>2, <3>1 DEF StageOK, SameWork
  <2>3. CASE d # c
    <3>1. work'[d] = work[d]
      BY <1>2, <2>3 DEF DataTypes
    <3> QED BY <2>1, <3>1 DEF SameWork
  <2> QED BY <2>2, <2>3
<1> QED BY <1>1, <1>3, <1>4, DataMove

LEMMA DataRun ==
  ASSUME JobsOK, DataTypes, Streams, RunJob
  PROVE  DataTypes' /\ Streams'
<1>1. /\ UNCHANGED <<source, prod, queue, reader, stored>>
      /\ work' = [c \in Calls |-> IF Head(pending) = IngestJob(c)
                                    THEN [work[c] EXCEPT !.pc = "read"] ELSE work[c]]
      /\ pending # <<>>
  BY DEF RunJob
<1>2. Head(pending) \in WaitingJobs
  BY <1>1 DEF JobsOK, WaitingJobs
<1>3. ASSUME NEW c \in Calls PROVE work'[c] \in Works /\ SameWork(c) /\ StageOK(work'[c])
  <2>1. StageOK(work[c]) /\ work[c] \in Works
    BY DEF Streams, StreamOK, DataTypes
  <2>2. CASE Head(pending) = IngestJob(c)
    <3>1. work[c].pc = "idle"
      BY <1>2, <2>2 DEF JobsOK
    <3>2. work'[c] = [work[c] EXCEPT !.pc = "read"]
      BY <1>1, <2>2
    <3> QED BY <2>1, <3>1, <3>2 DEF Works, WorkPcs, SameWork, StageOK
  <2>3. CASE Head(pending) # IngestJob(c)
    BY <1>1, <2>1, <2>3 DEF SameWork
  <2> QED BY <2>2, <2>3
<1>4. work' \in [Calls -> Works]
  BY <1>1, <1>3
<1> QED BY <1>1, <1>3, <1>4, DataMove

LEMMA DataRest ==
  ASSUME DataTypes, Streams, UNCHANGED <<source, prod, queue, reader, work, stored>>
  PROVE  DataTypes' /\ Streams'
<1>1. work' \in [Calls -> Works]
  BY DEF DataTypes
<1>2. \A c \in Calls : SameWork(c) /\ StageOK(work'[c])
  BY DEF Streams, StreamOK, SameWork
<1> QED BY <1>1, <1>2, DataMove

LEMMA DataStep ==
  ASSUME JobsOK, DataTypes, Streams, AsyncNext
  PROVE  DataTypes' /\ Streams'
<1>1. CASE RunJob
  BY <1>1, DataRun
<1>2. ASSUME NEW s \in Stores, Aclose(s) \/ LoopStops(s) PROVE DataTypes' /\ Streams'
  BY <1>2, DataRest DEF Aclose, LoopStops
<1>3. CASE CloseReturns
  BY <1>3, DataRest DEF CloseReturns
<1>4. ASSUME NEW c \in Calls, Start(c) \/ SourceRaises(c) \/ Pull(c) PROVE DataTypes' /\ Streams'
  BY <1>4, DataStart
<1>5. ASSUME NEW c \in Calls, Put(c) \/ Get(c) PROVE DataTypes' /\ Streams'
  BY <1>5, DataQueue
<1>6. ASSUME NEW c \in Calls, ReadReturns(c) \/ RefcountSave(c) PROVE DataTypes' /\ Streams'
  BY <1>6, DataStore
<1>7. ASSUME NEW c \in Calls,
             LockBlob(c) \/ BlobPut(c) \/ LockRefcount(c) \/ Commit(c) \/ IngestFails(c)
      PROVE  DataTypes' /\ Streams'
  BY <1>7, DataWorker
<1>8. ASSUME NEW c \in Calls, Return(c) \/ BridgeStep(c) PROVE DataTypes' /\ Streams'
  BY <1>8, DataRest DEF Return, BridgeStep
<1> QED BY <1>1, <1>2, <1>3, <1>4, <1>5, <1>6, <1>7, <1>8
        DEF AsyncNext, ProducerStep, WorkerStep

-------------------------------------------------------------------------------
(* The inductive invariant                                                       *)

LEMMA InitStreams ==
  ASSUME AsyncInit
  PROVE  DataTypes /\ Streams
<1>1. DataTypes
  <2>1. SourceOK
    BY DEF AsyncInit, SourceOK
  <2>2. prod \in [Calls -> Prods]
    BY DEF AsyncInit, Prods
  <2>3. queue \in [Calls -> Seq(Seq(Byte) \cup {None})] /\ stored \in [Calls -> Seq(Seq(Byte))]
    BY DEF AsyncInit
  <2>4. <<>> \in Seq(Byte) /\ <<>> \in Seq(Seq(Byte))
    OBVIOUS
  <2>5. reader \in [Calls -> QReaders]
    BY <2>4 DEF AsyncInit, QReaders
  <2>6. work \in [Calls -> Works]
    BY <2>4 DEF AsyncInit, Works, WorkPcs
  <2> QED BY <2>1, <2>2, <2>3, <2>5, <2>6 DEF DataTypes
<1>2. ASSUME NEW c \in Calls PROVE StreamOK(c)
  <2>1. /\ prod[c].pc = "idle" /\ prod[c].pulled = 0 /\ queue[c] = <<>>
        /\ reader[c].buf = <<>> /\ ~reader[c].eof /\ stored[c] = <<>>
        /\ work[c] = [pc |-> "idle", rest |-> <<>>, todo |-> <<>>, last |-> FALSE]
    BY DEF AsyncInit
  <2>2. Puts(c) = 0 /\ Gets(c) = 0 /\ Len(queue[c]) = 0
    <3>1. Len(queue[c]) = 0
      BY <2>1
    <3>2. Puts(c) = 0
      BY <2>1 DEF Puts
    <3> QED BY <3>1, <3>2 DEF Gets
  <2>3. Count(c) \in Nat /\ Upto(c, 0) = 0 /\ QueueSize \in Nat
    BY <1>1, Offsets, AsyncAssumption DEF DataTypes
  <2>4. QueueOK(c)
    BY <2>1, <2>2, <2>3 DEF QueueOK
  <2>5. SpreadOK(c)
    <3> SUFFICES ASSUME NEW longest \in Nat, NEW j \in 0 .. 0
                 PROVE  Upto(c, 0) - Upto(c, 0 + j) <= (0 - j) * longest
      BY <2>2 DEF SpreadOK
    <3>1. j = 0
      OBVIOUS
    <3>2. 0 + j = 0 /\ (0 - j) * longest = 0
      BY <3>1
    <3> QED BY <2>3, <3>2
  <2>6. ReadSize \in Nat \ {0} /\ ChunkSize \in Nat \ {0} /\ 0 * ChunkSize = 0
    BY AsyncAssumption
  <2>7. Cut(c) = 0 /\ Len(stored[c]) = 0 /\ Len(work[c].todo) = 0 /\ Len(work[c].rest) = 0
        /\ Len(reader[c].buf) = 0
    BY <2>1 DEF Cut
  <2>8. CutOK(c)
    <3>1. RestOK(c)
      BY <2>1, <2>2, <2>3, <2>6, <2>7, NoBytes DEF RestOK
    <3> QED BY <2>1, <2>7, <3>1 DEF CutOK, ChunksOK
  <2>9. LoadOK(c)
    BY <2>2, <2>3, <2>6, <2>7 DEF LoadOK
  <2> QED BY <2>1, <2>4, <2>5, <2>8, <2>9 DEF StreamOK, StageOK
<1> QED BY <1>1, <1>2 DEF Streams

LEMMA InitInv == AsyncInit => AsyncInv
<1> SUFFICES ASSUME AsyncInit PROVE AsyncInv
  OBVIOUS
<1>1. JobsOK
  BY DEF AsyncInit, JobsOK, WaitingJobs
<1>2. LockTypes
  BY DEF AsyncInit, LockTypes
<1>3. ASSUME NEW c \in Calls PROVE HeldBy(c)
  BY StoresOf DEF AsyncInit, HeldBy, HoldsGil, RustPcs, IoPcs
<1> QED BY <1>1, <1>2, <1>3, InitStreams DEF AsyncInv, LocksOK

LEMMA Stutter == AsyncInv /\ UNCHANGED vars => AsyncInv'
<1> SUFFICES ASSUME AsyncInv, UNCHANGED vars PROVE AsyncInv'
  OBVIOUS
<1>1. /\ UNCHANGED <<source, prod, queue, reader, work, stored>> /\ UNCHANGED jobs
      /\ UNCHANGED <<mutex, loops, future, result>> /\ faults' = faults
  BY DEF vars
<1>2. faults' \in Nat
  BY <1>1 DEF AsyncInv, LocksOK, LockTypes
<1>3. JobsOK'
  BY <1>1, JobsSame DEF AsyncInv
<1>4. LocksOK'
  BY <1>1, <1>2, LocksSame DEF AsyncInv
<1> QED BY <1>1, <1>3, <1>4, DataRest DEF AsyncInv

LEMMA Invariance == AsyncSpec => []AsyncInv
<1>1. AsyncInv /\ [AsyncNext]_vars => AsyncInv'
  <2> SUFFICES ASSUME AsyncInv, [AsyncNext]_vars PROVE AsyncInv'
    OBVIOUS
  <2>1. CASE AsyncNext
    BY <2>1, JobsStep, LocksStep, DataStep DEF AsyncInv
  <2>2. CASE UNCHANGED vars
    BY <2>2, Stutter
  <2> QED BY <2>1, <2>2
<1> QED BY <1>1, InitInv, PTL DEF AsyncSpec

-------------------------------------------------------------------------------
(* Theorems                                                                      *)

\* The state of every call keeps its types, and the interpreter lock and the
\* mutexes of the Rust stores are held by exactly the workers that are where
\* ingest_reader and its backend calls hold them.
THEOREM AsyncTypeCorrect == AsyncSpec => []AsyncTypeOK
<1>1. AsyncInv => AsyncTypeOK
  <2> SUFFICES ASSUME AsyncInv PROVE AsyncTypeOK
    OBVIOUS
  <2>1. /\ pending \in Seq({"put", "ingest"} \X Calls) /\ running \subseteq {"put", "ingest"} \X Calls
        /\ \A c \in Calls : IngestJob(c) \in running <=> work[c].pc \notin {"idle", "ok", "failed"}
    BY DEF AsyncInv, JobsOK, JobNames
  <2>2. LockTypes /\ \A c \in Calls : HeldBy(c)
    BY DEF AsyncInv, LocksOK
  <2>3. \A c \in Calls :
          /\ blobLock[StoreOf[c]] = c <=> work[c].pc = "put"
          /\ refLock[StoreOf[c]] = c <=> work[c].pc = "save"
          /\ gil = c <=> work[c].pc \in RustPcs \/ (work[c].pc \in IoPcs /\ Native(StoreOf[c]))
          /\ future[c] \in {"none"} \cup
               (IF bridge[StoreOf[c]] # "none" /\ work[c].pc \in IoPcs
                  THEN {"asked", "done"} ELSE {})
    BY <2>2 DEF HeldBy, HoldsGil
  <2>4. DataTypes
    BY DEF AsyncInv
  <2> QED BY <2>1, <2>2, <2>3, <2>4 DEF AsyncTypeOK, LockTypes, DataTypes, Prods, QReaders, Works
<1> QED BY <1>1, Invariance, PTL

\* However the async iterator cuts the stream into blocks, and whatever the
\* scheduling of the producer, the queue and the worker of ingest_aiter, store_chunk
\* has had the chunks of the stream, in order, and all of them when the call returns.
THEOREM StoresInOrder == AsyncSpec => []StoredInOrder
<1>1. AsyncInv => StoredInOrder
  <2> SUFFICES ASSUME AsyncInv, NEW c \in Calls
               PROVE  /\ IsPrefix(stored[c], Pieces(Stream(c)))
                      /\ result[c] = "ok" => stored[c] = Pieces(Stream(c))
    BY DEF StoredInOrder
  <2> DEFINE s   == stored[c]
             all == Pieces(Stream(c))
             n   == Len(s)
             m   == Len(work[c].todo)
  <2>1. SourceOK /\ QueueOK(c) /\ CutOK(c) /\ StageOK(work[c]) /\ DataTypes
    BY DEF AsyncInv, DataTypes, Streams, StreamOK
  <2>2. s \in Seq(Seq(Byte)) /\ n \in Nat /\ m \in Nat
    <3>1. s \in Seq(Seq(Byte)) /\ work[c].todo \in Seq(Seq(Byte))
      BY <2>1 DEF DataTypes, Works
    <3> HIDE DEF s
    <3> QED BY <3>1
  <2>3. /\ all \in Seq(Seq(Byte)) /\ Len(all) \in Nat
        /\ \A i \in 1 .. Len(all) : all[i] = Piece(c, i)
        /\ \A k \in Nat : k * ChunkSize <= Size(c) => k <= Len(all)
    BY <2>1, PiecesOf
  <2>4. \A i \in 1 .. n : s[i] = Piece(c, i)
    BY <2>1 DEF CutOK, ChunksOK
  <2>5. Cut(c) = n + m
    BY DEF Cut
  <2>6. work[c].last => n + m = Len(all)
    BY <2>1, <2>5 DEF CutOK, EndOK
  <2>7. ~work[c].last => n <= Len(all)
    <3> SUFFICES ASSUME ~work[c].last PROVE n <= Len(all)
      OBVIOUS
    <3>1. RestOK(c)
      BY <2>1 DEF CutOK
    <3>2. Len(work[c].rest) \in Nat /\ Len(reader[c].buf) \in Nat /\ ChunkSize \in Nat
      <4>1. work[c].rest \in Seq(Byte) /\ reader[c].buf \in Seq(Byte)
        BY <2>1 DEF DataTypes, Works, QReaders
      <4> QED BY <4>1, AsyncAssumption
    <3>3. Gets(c) \in Nat
      BY <2>1, CountsOf
    <3>4. Upto(c, Gets(c)) <= Size(c) /\ Upto(c, Gets(c)) \in Nat /\ Size(c) \in Nat
      BY <2>1, <3>3, Offsets
    <3> HIDE DEF n, m, all
    <3>5. n + m \in Nat /\ n <= n + m
      BY <2>2
    <3>6. (n + m) * ChunkSize + Len(work[c].rest) + Len(reader[c].buf) = Upto(c, Gets(c))
      BY <2>5, <3>1 DEF RestOK
    <3>7. (n + m) * ChunkSize \in Nat
      BY <3>2, <3>5, Products
    <3>8. (n + m) * ChunkSize <= Size(c)
      <4> DEFINE z == (n + m) * ChunkSize
                 r == Len(work[c].rest)
                 b == Len(reader[c].buf)
                 u == Upto(c, Gets(c))
      <4>1. z \in Nat /\ r \in Nat /\ b \in Nat /\ z + r + b = u
        BY <3>2, <3>6, <3>7
      <4>2. u <= Size(c) /\ Size(c) \in Nat
        BY <3>4
      <4> HIDE DEF z, r, b, u
      <4>3. z <= Size(c)
        BY <4>1, <4>2
      <4> QED BY <4>3 DEF z
    <3>9. n + m <= Len(all)
      BY <2>3, <3>5, <3>8
    <3> QED BY <2>2, <2>3, <3>9
  <2> HIDE DEF s, all, n, m
  <2>8. n <= Len(all)
    BY <2>2, <2>3, <2>6, <2>7
  <2>9. IsPrefix(s, all)
    <3>1. /\ SubSeq(s, 1, n) \in Seq(Seq(Byte)) /\ Len(SubSeq(s, 1, n)) = n
          /\ \A i \in 1 .. n : SubSeq(s, 1, n)[i] = s[i]
      BY <2>2 DEF n
    <3>2. /\ SubSeq(all, 1, n) \in Seq(Seq(Byte)) /\ Len(SubSeq(all, 1, n)) = n
          /\ \A i \in 1 .. n : SubSeq(all, 1, n)[i] = all[i]
      BY <2>2, <2>3, <2>8
    <3>3. \A i \in 1 .. n : s[i] = all[i]
      BY <2>2, <2>3, <2>4, <2>8
    <3> DEFINE p == SubSeq(s, 1, n)
               q == SubSeq(all, 1, n)
    <3> HIDE DEF p, q
    <3>4. p = q
      BY <3>1, <3>2, <3>3, SeqEqual DEF p, q
    <3> QED BY <2>8, <3>4 DEF IsPrefix, p, q, n
  <2>10. result[c] = "ok" => s = all
    <3> SUFFICES ASSUME result[c] = "ok" PROVE s = all
      OBVIOUS
    <3>1. work[c].pc = "ok"
      BY DEF AsyncInv, LocksOK, HeldBy
    <3>2. work[c].todo = <<>> /\ work[c].last
      BY <2>1, <3>1 DEF StageOK
    <3>3. n = Len(all)
      BY <2>2, <2>6, <3>2 DEF m
    <3> QED BY <2>2, <2>3, <2>4, <3>3, SeqEqual DEF n
  <2> QED BY <2>9, <2>10 DEF s, all
<1> QED BY <1>1, Invariance, PTL

\* Where the bytes of a chunk are in the stream.
LEMMA PieceRange ==
  ASSUME SourceOK, NEW c \in Calls, NEW i \in Nat \ {0}, NEW x \in Range(Piece(c, i))
  PROVE  x \in Nat /\ (i - 1) * ChunkSize < x /\ x <= i * ChunkSize /\ x <= Size(c)
<1> DEFINE a == (i - 1) * ChunkSize
           z == i * ChunkSize
           e == IF z < Size(c) THEN z ELSE Size(c)
<1>1. ChunkSize \in Nat /\ Size(c) \in Nat /\ i - 1 \in Nat /\ i \in Nat
  BY AsyncAssumption, Offsets
<1>2. a \in Nat /\ z \in Nat
  BY <1>1, Products
<1>3. e \in Nat /\ e <= z /\ e <= Size(c)
  BY <1>1, <1>2
<1>4. Piece(c, i) = [j \in 1 .. e - a |-> a + j]
  BY DEF Piece, Bytes
<1> HIDE DEF a, z, e
<1>5. PICK j \in 1 .. e - a : x = a + j
  BY <1>4 DEF Range
<1>6. x \in Nat /\ a < x /\ x <= e
  BY <1>2, <1>3, <1>5
<1>7. x \in Nat /\ a < x /\ x <= z /\ x <= Size(c)
  BY <1>1, <1>2, <1>3, <1>6
<1> QED BY <1>7 DEF a, z

\* Where the bytes are that the producer and the queue hold.
LEMMA BlockRange ==
  ASSUME SourceOK, NEW c \in Calls, NEW k \in Nat, NEW p \in Nat, NEW g \in Nat, g < k, k <= p,
         NEW s, s = Item(c, k), s # None, NEW x \in Range(s)
  PROVE  k <= Count(c) /\ Upto(c, g) < x /\ x <= Upto(c, p) /\ x \in Nat
<1>1. k <= Count(c) /\ s = Block(c, k)
  BY DEF Item
<1>2. k \in 1 .. Count(c) /\ k - 1 \in Nat /\ g <= k - 1 /\ Count(c) \in Nat
  <2>1. Count(c) \in Nat
    BY Offsets
  <2> QED BY <1>1, <2>1
<1> DEFINE lo == Upto(c, k - 1)
           hi == Upto(c, k)
<1>3. lo \in Nat /\ hi \in Nat /\ Upto(c, g) \in Nat /\ Upto(c, p) \in Nat
  BY <1>2, Offsets
<1>4. Upto(c, g) <= lo /\ hi <= Upto(c, p)
  BY <1>2, Offsets
<1>5. hi - lo \in Nat /\ s = Bytes(lo, hi - lo)
  BY <1>1, <1>2, BlockBytes
<1> HIDE DEF lo, hi
<1>6. x \in lo + 1 .. lo + (hi - lo)
  BY <1>3, <1>5, BytesRange
<1>7. lo < x /\ x <= hi /\ x \in Nat
  BY <1>3, <1>5, <1>6
<1> QED BY <1>1, <1>3, <1>4, <1>7

\* Everything in memory lies between what is stored and what was pulled.
LEMMA MemoryRange ==
  ASSUME AsyncInv, NEW c \in Calls
  PROVE  InMemory(c) \subseteq Len(stored[c]) * ChunkSize + 1 .. Upto(c, prod[c].pulled)
<1> DEFINE n  == Len(stored[c])
           m  == Len(work[c].todo)
           lo == n * ChunkSize
           g  == Gets(c)
           p  == prod[c].pulled
           hi == Upto(c, p)
<1>1. SourceOK /\ QueueOK(c) /\ CutOK(c) /\ DataTypes /\ ChunksOK(c)
  BY DEF AsyncInv, DataTypes, Streams, StreamOK, CutOK
<1>2. /\ work[c].todo \in Seq(Seq(Byte)) /\ work[c].rest \in Seq(Byte) /\ reader[c].buf \in Seq(Byte)
      /\ n \in Nat /\ m \in Nat /\ ChunkSize \in Nat /\ lo \in Nat
      /\ Len(work[c].rest) \in Nat /\ Len(reader[c].buf) \in Nat
  <2>1. /\ work[c].todo \in Seq(Seq(Byte)) /\ work[c].rest \in Seq(Byte)
        /\ reader[c].buf \in Seq(Byte) /\ stored[c] \in Seq(Seq(Byte))
    BY <1>1 DEF DataTypes, Works, QReaders
  <2>2. n \in Nat /\ m \in Nat /\ Len(work[c].rest) \in Nat /\ Len(reader[c].buf) \in Nat
    BY <2>1
  <2>3. ChunkSize \in Nat
    BY AsyncAssumption
  <2> QED BY <2>1, <2>2, <2>3, Products
<1>3. /\ Count(c) \in Nat /\ Len(queue[c]) \in Nat /\ g \in Nat /\ Puts(c) \in Nat
      /\ g + Len(queue[c]) = Puts(c) /\ Puts(c) <= Count(c) + 1
      /\ p \in Nat /\ Puts(c) <= p /\ queue[c] \in Seq(Seq(Byte) \cup {None})
  BY <1>1, CountsOf
<1>4. /\ Upto(c, g) \in Nat /\ Upto(c, g) <= Size(c) /\ Size(c) \in Nat /\ hi \in Nat
      /\ Upto(c, g) <= hi /\ hi <= Size(c)
  <2> HIDE DEF g, p
  <2>1. g \in Nat /\ p \in Nat /\ g <= p
    BY <1>3
  <2>2. Upto(c, g) \in 0 .. Size(c) /\ Upto(c, p) \in 0 .. Size(c) /\ Size(c) \in Nat
    BY <1>1, <2>1, Offsets
  <2>3. Upto(c, g) <= Upto(c, p)
    BY <1>1, <2>1, Offsets
  <2> QED BY <2>2, <2>3
<1> HIDE DEF n, m, lo, g, p, hi
<1>5. work[c].last => /\ g = Count(c) + 1 /\ work[c].rest = <<>> /\ reader[c].buf = <<>> /\ m <= 1
                      /\ Upto(c, g) = Size(c)
  <2> SUFFICES ASSUME work[c].last
               PROVE  /\ g = Count(c) + 1 /\ work[c].rest = <<>> /\ reader[c].buf = <<>> /\ m <= 1
                      /\ Upto(c, g) = Size(c)
    OBVIOUS
  <2>1. EndOK(c)
    BY <1>1 DEF CutOK
  <2>2. g = Count(c) + 1
    BY <1>1, <2>1 DEF EndOK, QueueOK, g
  <2>3. Upto(c, g) = Size(c)
    BY <1>1, <2>2, Offsets
  <2> QED BY <2>1, <2>2, <2>3 DEF EndOK, m
<1>6. ~work[c].last => /\ (n + m) * ChunkSize \in Nat /\ lo <= (n + m) * ChunkSize
                       /\ (n + m) * ChunkSize + Len(work[c].rest) + Len(reader[c].buf) = Upto(c, g)
                       /\ work[c].rest = Bytes((n + m) * ChunkSize, Len(work[c].rest))
                       /\ reader[c].buf = Bytes((n + m) * ChunkSize + Len(work[c].rest), Len(reader[c].buf))
  <2> SUFFICES ASSUME ~work[c].last
               PROVE  /\ (n + m) * ChunkSize \in Nat /\ lo <= (n + m) * ChunkSize
                      /\ (n + m) * ChunkSize + Len(work[c].rest) + Len(reader[c].buf) = Upto(c, g)
                      /\ work[c].rest = Bytes((n + m) * ChunkSize, Len(work[c].rest))
                      /\ reader[c].buf = Bytes((n + m) * ChunkSize + Len(work[c].rest), Len(reader[c].buf))
    OBVIOUS
  <2>1. RestOK(c) /\ Cut(c) = n + m
    BY <1>1 DEF CutOK, Cut, n, m
  <2>2. (n + m) * ChunkSize \in Nat /\ lo <= (n + m) * ChunkSize
    <3>1. n + m \in Nat /\ n <= n + m
      BY <1>2
    <3> QED BY <1>2, <3>1, Products DEF lo
  <2> QED BY <2>1, <2>2 DEF RestOK, g
<1>7. ~work[c].last => lo <= Upto(c, g)
  <2> DEFINE z == (n + m) * ChunkSize
             r == Len(work[c].rest)
             b == Len(reader[c].buf)
  <2>1. r \in Nat /\ b \in Nat /\ (~work[c].last => z \in Nat /\ lo <= z /\ z + r + b = Upto(c, g))
    BY <1>2, <1>6
  <2> HIDE DEF z, r, b
  <2> QED BY <1>2, <1>4, <2>1
<1>8. ASSUME NEW k \in Nat, g < k, k <= p, p <= Count(c) + 1,
             NEW s, s = Item(c, k), s # None, NEW x \in Range(s)
      PROVE  x \in lo + 1 .. hi
  <2>1. k <= Count(c) /\ Upto(c, g) < x /\ x <= hi /\ x \in Nat
    <3>1. p \in Nat /\ g \in Nat
      BY <1>3
    <3> QED BY <1>1, <1>8, <3>1, BlockRange DEF hi
  <2>2. ~work[c].last
    BY <1>3, <1>5, <1>8, <2>1
  <2> QED BY <1>2, <1>4, <1>7, <2>1, <2>2
<1>9. p <= Count(c) + 1
  BY <1>1 DEF QueueOK, p
<1> SUFFICES ASSUME NEW x \in InMemory(c) PROVE x \in lo + 1 .. hi
  BY DEF lo, n, hi, p
<1> DEFINE item == IF prod[c].pc = "put" THEN {prod[c].item} ELSE {}
           held == (item \cup Range(queue[c])) \ {None}
<1>10. PICK s \in held \cup Range(work[c].todo) \cup {reader[c].buf, work[c].rest} : x \in Range(s)
  BY DEF InMemory
<1>11. CASE prod[c].pc = "put" /\ s = prod[c].item /\ s # None
  <2>1. s = Item(c, p) /\ Puts(c) = p - 1
    BY <1>1, <1>11 DEF QueueOK, Puts, p
  <2>2. g < p
    BY <1>3, <2>1
  <2>3. p <= p
    BY <1>3
  <2> QED BY <1>3, <1>8, <1>9, <1>10, <1>11, <2>1, <2>2, <2>3
<1>12. CASE s \in Range(queue[c]) /\ s # None
  <2>1. PICK j \in 1 .. Len(queue[c]) : s = queue[c][j]
    BY <1>3, <1>12 DEF Range
  <2>2. s = Item(c, g + j)
    BY <1>1, <2>1 DEF QueueOK, g
  <2>3. g + j \in Nat /\ g < g + j /\ g + j <= p
    BY <1>3
  <2> QED BY <1>8, <1>9, <1>10, <1>12, <2>2, <2>3
<1>13. CASE s \in Range(work[c].todo)
  <2>1. PICK j \in 1 .. m : s = work[c].todo[j]
    <3> DEFINE todo == work[c].todo
    <3>1. DOMAIN todo = 1 .. m
      BY <1>2 DEF m
    <3>2. s \in Range(todo)
      BY <1>13
    <3> HIDE DEF todo
    <3>3. \E j \in 1 .. m : s = todo[j]
      BY <3>1, <3>2 DEF Range
    <3> QED BY <3>3 DEF todo
  <2>2. s = Piece(c, n + j)
    BY <1>1, <2>1 DEF ChunksOK, n, m
  <2> DEFINE i == n + j
  <2>3. i \in Nat \ {0} /\ n <= i - 1 /\ i - 1 \in Nat /\ i <= n + m /\ n + m \in Nat
    BY <1>2
  <2>4. s = Piece(c, i)
    BY <2>2
  <2> HIDE DEF i
  <2>5. x \in Nat /\ (i - 1) * ChunkSize < x /\ x <= i * ChunkSize /\ x <= Size(c)
    BY <1>1, <1>10, <2>3, <2>4, PieceRange
  <2>6. lo <= (i - 1) * ChunkSize /\ (i - 1) * ChunkSize \in Nat
    <3> DEFINE k == i - 1
    <3>1. n \in Nat /\ k \in Nat /\ n <= k /\ ChunkSize \in Nat
      BY <1>2, <2>3
    <3> HIDE DEF k
    <3>2. n * ChunkSize <= k * ChunkSize /\ k * ChunkSize \in Nat
      BY <3>1, Products
    <3> QED BY <3>2 DEF lo, k
  <2>7. i * ChunkSize <= (n + m) * ChunkSize /\ i * ChunkSize \in Nat
    BY <1>2, <2>3, Products
  <2>8. lo < x
    <3> DEFINE y == (i - 1) * ChunkSize
    <3>1. lo <= y /\ y \in Nat /\ y < x
      BY <2>5, <2>6
    <3> HIDE DEF y
    <3> QED BY <1>2, <2>5, <3>1
  <2>9. x <= hi
    <3>1. CASE work[c].last
      BY <1>4, <1>5, <2>5, <3>1
    <3>2. CASE ~work[c].last
      <4> DEFINE y == i * ChunkSize
                 z == (n + m) * ChunkSize
                 r == Len(work[c].rest)
                 b == Len(reader[c].buf)
      <4>1. y \in Nat /\ y <= z /\ z \in Nat /\ x <= y /\ r \in Nat /\ b \in Nat /\ z + r + b = Upto(c, g)
        BY <1>2, <1>6, <2>5, <2>7, <3>2
      <4> HIDE DEF y, z, r, b
      <4> QED BY <1>4, <2>5, <4>1
    <3> QED BY <3>1, <3>2
  <2> QED BY <1>2, <1>4, <2>5, <2>8, <2>9
<1>14. CASE s = reader[c].buf \/ s = work[c].rest
  <2>1. ~work[c].last
    <3>1. Range(<<>>) = {}
      BY DEF Range
    <3> QED BY <1>5, <1>10, <1>14, <3>1
  <2> DEFINE z == (n + m) * ChunkSize
             r == Len(work[c].rest)
             b == Len(reader[c].buf)
  <2>2. /\ z \in Nat /\ lo <= z /\ r \in Nat /\ b \in Nat /\ z + r + b = Upto(c, g)
        /\ work[c].rest = Bytes(z, r) /\ reader[c].buf = Bytes(z + r, b)
    BY <1>2, <1>6, <2>1
  <2> HIDE DEF z, r, b
  <2>3. z + r \in Nat
    BY <2>2
  <2>4. x \in z + 1 .. z + r \/ x \in (z + r) + 1 .. (z + r) + b
    <3>1. Range(Bytes(z, r)) = z + 1 .. z + r
      BY <2>2, BytesRange
    <3>2. Range(Bytes(z + r, b)) = (z + r) + 1 .. (z + r) + b
      BY <2>2, <2>3, BytesRange
    <3> QED BY <1>10, <1>14, <2>2, <3>1, <3>2
  <2>5. lo < x /\ x <= Upto(c, g) /\ x \in Nat
    <3>1. lo \in Nat /\ z \in Nat /\ lo <= z /\ r \in Nat /\ b \in Nat /\ z + r + b = Upto(c, g)
      BY <1>2, <2>2
    <3>2. CASE x \in z + 1 .. z + r
      BY <3>1, <3>2
    <3>3. CASE x \in (z + r) + 1 .. (z + r) + b
      BY <3>1, <3>3
    <3> QED BY <2>4, <3>2, <3>3
  <2> QED BY <1>2, <1>4, <2>5
<1> QED BY <1>10, <1>11, <1>12, <1>13, <1>14

\* "Without buffering the whole file": whatever the stream, what ingest_aiter has in
\* memory at once, from the block the producer holds to the chunks that store_chunk
\* has not had, is bounded by the queue, two blocks, one read and one chunk.
THEOREM BoundedMemory == AsyncSpec => []BufferBounded
<1>1. AsyncInv => BufferBounded
  <2> SUFFICES ASSUME AsyncInv, NEW c \in Calls, NEW longest \in 0 .. Size(c), NoBlockLonger(c, longest)
               PROVE  Cardinality(InMemory(c)) <=
                        (QueueSize + 2) * longest + (ReadSize - 1) + (ChunkSize - 1)
    BY DEF BufferBounded
  <2> DEFINE lo == Len(stored[c]) * ChunkSize
             g  == Upto(c, Gets(c))
             p  == Upto(c, Puts(c))
             hi == Upto(c, prod[c].pulled)
             q  == Len(queue[c])
  <2>1. SourceOK /\ QueueOK(c) /\ SpreadOK(c) /\ LoadOK(c) /\ DataTypes
    BY DEF AsyncInv, DataTypes, Streams, StreamOK
  <2>2. longest \in Nat
    BY <2>1, Offsets
  <2>3. /\ q \in Nat /\ Gets(c) \in Nat /\ Puts(c) \in Nat /\ prod[c].pulled \in Nat
        /\ Puts(c) <= prod[c].pulled /\ prod[c].pulled <= Puts(c) + 1 /\ q <= QueueSize
        /\ QueueSize \in Nat /\ ReadSize \in Nat \ {0} /\ ChunkSize \in Nat \ {0}
    <3>1. q <= QueueSize
      BY <2>1 DEF QueueOK
    <3> QED BY <2>1, <3>1, CountsOf, AsyncAssumption
  <2>4. g \in Nat /\ p \in Nat /\ hi \in Nat
    <3>1. \A i \in Nat : Upto(c, i) \in Nat
      <4>1. Size(c) \in Nat /\ \A i \in Nat : Upto(c, i) \in 0 .. Size(c)
        BY <2>1, Offsets
      <4> QED BY <4>1
    <3> QED BY <2>3, <3>1
  <2>5. lo \in Nat
    <3>1. Len(stored[c]) \in Nat
      <4>1. stored[c] \in Seq(Seq(Byte))
        BY <2>1 DEF DataTypes
      <4> QED BY <4>1
    <3> QED BY <2>3, <3>1, Products
  <2>6. g - lo <= (ReadSize - 1) + longest + (ChunkSize - 1)
    BY <2>1, <2>2 DEF LoadOK
  <2>7. p - g <= q * longest
    <3>1. 0 \in 0 .. q /\ Gets(c) + 0 = Gets(c) /\ q - 0 = q
      BY <2>3
    <3>2. Upto(c, Puts(c)) - Upto(c, Gets(c) + 0) <= (q - 0) * longest
      BY <2>1, <2>2, <3>1 DEF SpreadOK
    <3> QED BY <3>1, <3>2
  <2>8. hi <= p + longest
    <3>1. CASE prod[c].pulled = Puts(c)
      BY <2>2, <2>4, <3>1
    <3>2. CASE prod[c].pulled = Puts(c) + 1
      <4>1. Upto(c, Puts(c) + 1) <= Upto(c, Puts(c)) + longest
        BY <2>1, <2>2, <2>3, OneBlock
      <4> QED BY <3>2, <4>1
    <3> QED BY <2>3, <3>1, <3>2
  <2>9. q * longest \in Nat /\ q * longest <= QueueSize * longest /\ QueueSize * longest \in Nat
        /\ (QueueSize + 2) * longest = QueueSize * longest + 2 * longest
    BY <2>2, <2>3, Products
  <2>10. InMemory(c) \subseteq lo + 1 .. hi
    BY MemoryRange
  <2> DEFINE bound == (QueueSize + 2) * longest + (ReadSize - 1) + (ChunkSize - 1)
             ql == q * longest
             Ql == QueueSize * longest
  <2>11. /\ bound = Ql + 2 * longest + (ReadSize - 1) + (ChunkSize - 1) /\ ql <= Ql
         /\ ql \in Nat /\ Ql \in Nat /\ p - g <= ql
    BY <2>7, <2>9
  <2> HIDE DEF lo, g, p, hi, q, bound, ql, Ql
  <2>12. hi - lo <= bound /\ 0 <= bound
    BY <2>2, <2>3, <2>4, <2>5, <2>6, <2>8, <2>11
  <2>13. IsFiniteSet(lo + 1 .. hi) /\ Cardinality(lo + 1 .. hi) = IF lo + 1 > hi THEN 0 ELSE hi - (lo + 1) + 1
    <3> DEFINE a == lo + 1
    <3>1. a \in Int /\ hi \in Int
      BY <2>4, <2>5
    <3> HIDE DEF a
    <3>2. IsFiniteSet(a .. hi) /\ Cardinality(a .. hi) = IF a > hi THEN 0 ELSE hi - a + 1
      BY <3>1, FS_Interval
    <3> QED BY <3>2 DEF a
  <2>14. /\ IsFiniteSet(InMemory(c))
         /\ Cardinality(InMemory(c)) <= Cardinality(lo + 1 .. hi)
    BY <2>10, <2>13, FS_Subset
  <2>15. Cardinality(InMemory(c)) \in Nat
    BY <2>14, FS_CardinalityType
  <2>16. Cardinality(InMemory(c)) <= bound
    BY <2>4, <2>5, <2>11, <2>12, <2>13, <2>14, <2>15, <2>2, <2>3
  <2> QED BY <2>16 DEF bound
<1> QED BY <1>1, Invariance, PTL

-------------------------------------------------------------------------------
(* The interpreter lock and the mutexes                                          *)

\* A mutex is held by a call of its store.
OwnLocks == \A s \in Stores : /\ blobLock[s] # None => StoreOf[blobLock[s]] = s
                              /\ refLock[s] # None => StoreOf[refLock[s]] = s

LEMMA OwnLocksStep ==
  ASSUME LockTypes, OwnLocks, [AsyncNext]_vars
  PROVE  OwnLocks'
<1> DEFINE moved(c) ==
             \E lock \in {c, None} :
               \/ blobLock' = [blobLock EXCEPT ![StoreOf[c]] = lock] /\ refLock' = refLock
               \/ refLock' = [refLock EXCEPT ![StoreOf[c]] = lock] /\ blobLock' = blobLock
<1>1. ASSUME UNCHANGED <<blobLock, refLock>> PROVE OwnLocks'
  BY <1>1 DEF OwnLocks
<1>2. ASSUME NEW c \in Calls, moved(c) PROVE OwnLocks'
  BY <1>2, StoresOf DEF OwnLocks, LockTypes
<1>3. ASSUME NEW c \in Calls, IngestFails(c) PROVE OwnLocks'
  <2>1. blobLock' = Unlocked(blobLock, c) /\ refLock' = Unlocked(refLock, c)
    BY <1>3 DEF IngestFails
  <2> QED BY <2>1 DEF OwnLocks, Unlocked
<1>4. ASSUME NEW c \in Calls, LockBlob(c) \/ BlobPut(c) PROVE moved(c)
  BY <1>4 DEF LockBlob, BlobPut
<1>5. ASSUME NEW c \in Calls, LockRefcount(c) \/ RefcountSave(c) PROVE moved(c)
  BY <1>5 DEF LockRefcount, RefcountSave
<1>6. ASSUME NEW c \in Calls, ReadReturns(c) \/ Commit(c) PROVE OwnLocks'
  BY <1>1, <1>6 DEF ReadReturns, Commit
<1>7. ASSUME NEW c \in Calls, Start(c) \/ SourceRaises(c) \/ BridgeStep(c) \/ ProducerStep(c) \/ Get(c)
      PROVE  OwnLocks'
  BY <1>1, <1>7 DEF Start, SourceRaises, BridgeStep, ProducerStep, Pull, Put, Return, Get, mutex
<1>8. ASSUME RunJob \/ CloseReturns \/ \E s \in Stores : Aclose(s) \/ LoopStops(s) PROVE OwnLocks'
  BY <1>1, <1>8 DEF RunJob, CloseReturns, Aclose, LoopStops, mutex
<1>9. CASE UNCHANGED vars
  BY <1>1, <1>9 DEF vars, mutex
<1> HIDE DEF moved
<1>10. CASE AsyncNext
  <2>1. ASSUME NEW c \in Calls, WorkerStep(c) PROVE OwnLocks'
    BY <1>2, <1>4, <1>5, <1>6, <1>7, <2>1 DEF WorkerStep
  <2> QED BY <1>3, <1>7, <1>8, <1>10, <2>1 DEF AsyncNext
<1> QED BY <1>9, <1>10

\* With at most one ingest_aiter at a time on a store whose backend is a Python
\* object, no worker waits for a mutex with the interpreter lock held: the mutex
\* that it waits for is never taken. (With two calls on such a store it is, and the
\* interpreter stops.)
THEOREM InterpreterRunsAlone ==
  ASSUME \A c, d \in Calls : c # d /\ StoreOf[c] = StoreOf[d] => StoreOf[c] \notin PyStores
  PROVE  AsyncSpec => []InterpreterRuns
<1>1. AsyncInit => OwnLocks
  BY DEF AsyncInit, OwnLocks
<1>2. AsyncInv /\ OwnLocks /\ [AsyncNext]_vars => OwnLocks'
  BY OwnLocksStep DEF AsyncInv, LocksOK
<1>3. AsyncInv /\ OwnLocks => InterpreterRuns
  <2> SUFFICES ASSUME AsyncInv, OwnLocks, NEW c \in Calls, gil = c PROVE ~WaitsForMutex(c)
    BY DEF InterpreterRuns
  <2> DEFINE s == StoreOf[c]
  <2>1. s \in Stores /\ c # None /\ LockTypes /\ \A d \in Calls : HeldBy(d)
    BY StoresOf DEF AsyncInv, LocksOK
  <2>2. ASSUME NEW d \in Calls, StoreOf[d] = s, work[d].pc \in {"put", "save"},
               work[c].pc \in {"store", "count"}
        PROVE  FALSE
    <3>1. d # c
      BY <2>2
    <3>2. Native(StoreOf[d])
      BY <2>2, <3>1 DEF Native
    <3>3. gil = d
      BY <2>1, <2>2, <3>2 DEF HeldBy, HoldsGil, IoPcs
    <3> QED BY <3>1, <3>3
  <2>3. ASSUME work[c].pc = "store", blobLock[s] # None PROVE FALSE
    <3>1. blobLock[s] \in Calls /\ StoreOf[blobLock[s]] = s
      BY <2>1, <2>3 DEF LockTypes, OwnLocks
    <3>2. work[blobLock[s]].pc = "put"
      BY <2>1, <3>1 DEF HeldBy
    <3> QED BY <2>2, <2>3, <3>1, <3>2
  <2>4. ASSUME work[c].pc = "count", refLock[s] # None PROVE FALSE
    <3>1. refLock[s] \in Calls /\ StoreOf[refLock[s]] = s
      BY <2>1, <2>4 DEF LockTypes, OwnLocks
    <3>2. work[refLock[s]].pc = "save"
      BY <2>1, <3>1 DEF HeldBy
    <3> QED BY <2>2, <2>4, <3>1, <3>2
  <2> QED BY <2>3, <2>4 DEF WaitsForMutex
<1> QED BY <1>1, <1>2, <1>3, Invariance, PTL DEF AsyncSpec
===============================================================================
