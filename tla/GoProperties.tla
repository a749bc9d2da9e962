------------------------------ MODULE GoProperties ------------------------------
(* What must hold of the Go binding, for a program that closes a Store only when *)
(* no call on it is in progress.                                                *)
EXTENDS GoStore

GoRecords == [pc : Pcs, op : Ops \cup {"none"}, file : Files \cup {None}, chunker : Chunkers,
              input : Readers \cup {NoReader} \cup [blocks : Contents, end : {"eof"}],
              pos : Nat, handle : 0 .. MaxOpens, id : Nat,
              held : Seq(Blocks), got : Seq(Blocks), want : Seq(Blocks), told : BOOLEAN,
              result : {"none", "ok", "err"}]

\* The state keeps its types; a buffer is there exactly while somebody is to free
\* it, so nothing is freed twice.
GoTypeOK ==
  /\ store \in [handle : 0 .. MaxOpens, bridge : 0 .. MaxOpens]
  /\ alive \subseteq DOMAIN userdata
  /\ userdata \in Seq(0 .. MaxOpens)
  /\ bridges \subseteq 1 .. bridgeSeq
  /\ \A k \in Streams : /\ DOMAIN streams[k] \subseteq 1 .. seq[k]
                        /\ \A i \in DOMAIN streams[k] : streams[k][i] \in Goroutines
  /\ call \in [Goroutines -> GoRecords]
  /\ files \in [Files -> Seq(Blocks) \cup {None}]
  /\ \A g \in Goroutines :
       /\ <<g, "value">> \in heap <=> call[g].pc = "value"
       /\ call[g].pc = "err" => (<<g, "error">> \in heap <=> call[g].told)
       /\ call[g].pc = "ok" /\ call[g].op \in {"ingest", "ingest_file", "ingest_reader"}
            => <<g, "digests">> \in heap

\* A C function never runs on a store that has been dropped, nor does Rust call
\* back for a Go backend that is no longer registered: after Close, methods fail.
UsesLiveStore ==
  \A g \in Goroutines : call[g].pc \in CorePcs =>
    /\ call[g].handle \in alive
    /\ userdata[call[g].handle] \in bridges \cup {0}

\* From registration to return, a call's id leads its callbacks to the call's own
\* reader or writer, whatever other goroutines register and unregister.
StreamsApart ==
  \A g \in Goroutines :
    LET k == Stream(call[g].op) IN
    k # "none" /\ call[g].pc \in CorePcs \cup {"enter", "ok", "err", "unregister"}
      => call[g].id \in DOMAIN streams[k] /\ streams[k][call[g].id] = g

\* A call that has returned, with a result or an error, leaves no buffer and no
\* registration behind.
NothingLeaks ==
  \A g \in Goroutines : ~Busy(g) =>
    /\ \A kind \in {"error", "digests", "bytes", "value"} : <<g, kind>> \notin heap
    /\ \A k \in Streams : \A i \in DOMAIN streams[k] : streams[k][i] # g

\* An ingest that succeeds has stored what the reader had to give up to its end,
\* the bytes that come with io.EOF included; and a reader's error makes it fail.
\* Readers that return 0 bytes and no error are excepted: that ends the stream.
IngestedWhole ==
  \A g \in Goroutines :
    LET r == call[g].input IN
      /\ call[g].op \in {"ingest", "ingest_file", "ingest_reader"} /\ call[g].result = "ok"
      /\ Pause \notin {r.blocks[i] : i \in DOMAIN r.blocks}
    => call[g].got = r.blocks /\ r.end # "error"

\* IngestReader "does not buffer the whole file": whatever the reader hands out, less
\* than a chunk of it stays in memory from one Read to the next, and all that has
\* been read is in the store or in the chunker. IngestReaderCDC is excepted: its
\* chunker keeps the stream until it has ended.
ReaderHeldBounded ==
  \A g \in Goroutines :
      /\ call[g].op = "ingest_reader" /\ call[g].pc = "core"
      /\ Pause \notin {call[g].input.blocks[i] : i \in DOMAIN call[g].input.blocks}
    => /\ call[g].chunker = "fixed" => Len(call[g].held) < ChunkSize
       /\ call[g].got \o call[g].held = SubSeq(call[g].input.blocks, 1, call[g].pos)

\* A read that succeeds has given Go the whole file as Rust found it. Read is
\* excepted for files of 4 GiB and more, whose length C.int cuts.
ReadsWhole ==
  \A g \in Goroutines :
      /\ call[g].op \in {"read", "read_to"} /\ call[g].result = "ok"
      /\ call[g].op = "read_to" \/ Len(call[g].want) < 2 * HalfInt
    => call[g].got = call[g].want
===============================================================================
