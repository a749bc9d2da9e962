-------------------------------- MODULE GoStore --------------------------------
(* Go's Store (go/chunkstore) from a method to the C function it calls and back, *)
(* with the callbacks through which that function reads, writes and asks the    *)
(* backend. Each action is what a goroutine does between two points at which     *)
(* another goroutine's doing can be noticed. What the Rust store does between    *)
(* its callbacks is one step; ChunkStore has what is inside it.                  *)
EXTENDS GoState

-------------------------------------------------------------------------------
(* Plausible bugs: wrong forms of the definitions below that their comments     *)
(* name; PROJECT.json says which property of which run notices each. No         *)
(* definition uses them.                                                        *)

\* NextId: the number is read, and never moves on.
NextIdStuck(k) == seq[k]

\* Unregister: the id of the latest registration goes.
UnregisterLatest(g) ==
  LET k == Stream(call[g].op) IN
  /\ call[g].pc = "unregister"
  /\ streams' = [streams EXCEPT ![k] = [i \in DOMAIN @ \ {seq[k]} |-> @[i]]]
  /\ Become(g, [call[g] EXCEPT !.pc = "idle", !.id = 0])
  /\ UNCHANGED <<handles, bridges, bridgeSeq, seq, heap, files, panicked, calls>>

\* FixedFeed: chunks are cut only once the stream has ended.
FixedFeedHoarding(r) == r

\* OutLen: io.EOF is taken to mean that there are no bytes with it.
OutLenBeforeEof(x) == IF x.err = "EOF" THEN 0 ELSE x.n

\* AllWritten: the last chunk is not written.
AllWrittenShort(g) == call[g].pos + 1 >= Len(call[g].want)

\* TakeError: the message is copied and not freed.
TakeErrorLeaking(g) ==
  /\ call[g].pc = "err"
  /\ Finish(g, [call[g] EXCEPT !.result = "err"])
  /\ UNCHANGED <<handles, registries, heap, files, panicked, calls>>

\* Close: the handle stays in the Store.
CloseKeepingHandle ==
  /\ store.handle # 0 /\ \A g \in Goroutines : ~Busy(g)
  /\ alive' = alive \ {store.handle}
  /\ bridges' = bridges \ {store.bridge}
  /\ store' = [store EXCEPT !.bridge = 0]
  /\ UNCHANGED <<userdata, bridgeSeq, streams, seq, heap, files, call, panicked, calls>>

-------------------------------------------------------------------------------
(* Open, OpenFilesystem and Close                                               *)

\* A program replaces its Store between calls. A Go backend is registered before
\* chunkstore_create, which keeps the id as the userdata of its callbacks.
OpenStore(bridge) ==
  /\ store.handle = 0 /\ \A g \in Goroutines : ~Busy(g)
  /\ Len(userdata) < MaxOpens
  /\ userdata' = Append(userdata, bridge)
  /\ store' = [handle |-> Len(userdata'), bridge |-> bridge]
  /\ alive' = alive \cup {Len(userdata')}
  /\ UNCHANGED <<streams, seq, heap, files, call, panicked, calls>>

OpenFilesystem == OpenStore(0) /\ UNCHANGED <<bridges, bridgeSeq>>

Open ==
  /\ bridgeSeq < MaxOpens
  /\ OpenStore(bridgeSeq + 1)
  /\ bridgeSeq' = bridgeSeq + 1
  /\ bridges' = bridges \cup {bridgeSeq'}

\* chunkstore_create returns null: the backend is unregistered again.
OpenFails ==
  /\ store.handle = 0 /\ \A g \in Goroutines : ~Busy(g)
  /\ bridgeSeq < MaxOpens
  /\ bridgeSeq' = bridgeSeq + 1
  /\ UNCHANGED <<handles, bridges, streams, seq, heap, files, call, panicked, calls>>

\* The program closes the Store when its calls have returned, as with defer.
\* Nothing in the binding makes it wait.
Close ==
  /\ store.handle # 0 /\ \A g \in Goroutines : ~Busy(g)
  /\ alive' = Destroyed(store.handle)
  /\ bridges' = bridges \ {store.bridge}
  /\ store' = [handle |-> 0, bridge |-> 0]
  /\ UNCHANGED <<userdata, bridgeSeq, streams, seq, heap, files, call, panicked, calls>>

-------------------------------------------------------------------------------
(* A method begins: IngestReader and ReadTo register what the callback will use *)

Begin(g, op, f, chunker, input) ==
  /\ ~Busy(g) /\ calls < MaxCalls
  /\ Become(g, [Idle EXCEPT !.op = op, !.file = f, !.chunker = chunker, !.input = input,
                            !.pc = IF Stream(op) = "none" THEN "enter" ELSE "register"])
  /\ calls' = calls + 1
  /\ UNCHANGED <<handles, registries, heap, files, panicked>>

BeginCall(g) ==
  \/ \E f \in Files :
       \/ \E k \in Chunkers :
            \/ \E op \in {"ingest", "ingest_file"}, c \in Contents :
                 Begin(g, op, f, k, [blocks |-> c, end |-> "eof"])
            \/ \E r \in Readers : Begin(g, "ingest_reader", f, k, r)
       \/ \E op \in {"read", "read_to", "delete"} : Begin(g, op, f, "fixed", NoReader)
  \/ Begin(g, "stats", None, "fixed", NoReader)

\* readerSeq.Add and writerSeq.Add
NextId(k) == seq[k] + 1

Register(g) ==
  LET k == Stream(call[g].op) IN
  /\ call[g].pc = "register"
  /\ seq' = [seq EXCEPT ![k] = NextId(k)]
  /\ streams' = [streams EXCEPT ![k] = [i \in DOMAIN @ \cup {NextId(k)} |->
                                           IF i = NextId(k) THEN g ELSE @[i]]]
  /\ Become(g, [call[g] EXCEPT !.pc = "enter", !.id = NextId(k)])
  /\ UNCHANGED <<handles, bridges, bridgeSeq, heap, files, panicked, calls>>

-------------------------------------------------------------------------------
(* Inside the C function                                                        *)

\* write_ffi_error: the message is a buffer that Go has to free.
ErrorTold(g) ==
  /\ Become(g, [call[g] EXCEPT !.pc = "err", !.told = TRUE])
  /\ heap' = heap \cup {<<g, "error">>}

\* A null handle is an error without a message.
Enter(g) ==
  /\ call[g].pc = "enter"
  /\ IF store.handle = 0
       THEN Goto(g, "err") /\ UNCHANGED heap
     ELSE IF call[g].file \in BadIds
       THEN ErrorTold(g)
       ELSE /\ Become(g, [call[g] EXCEPT !.pc = "core", !.handle = store.handle])
            /\ UNCHANGED heap
  /\ UNCHANGED <<handles, registries, files, panicked, calls>>

\* FixedChunker::feed hands on every full chunk it holds, and ingest_reader stores
\* it; CdcChunker::feed only keeps what it is given.
FixedFeed(r) ==
  LET full == ChunkSize * (Len(r.held) \div ChunkSize) IN
  [r EXCEPT !.got = @ \o SubSeq(r.held, 1, full), !.held = SubSeq(@, full + 1, Len(@))]

CdcFeed(r) == r

Fed(r, data) ==
  LET holding == [r EXCEPT !.held = @ \o data] IN
  IF r.chunker = "fixed" THEN FixedFeed(holding) ELSE CdcFeed(holding)

\* finish: the rest is one chunk, or the chunks FastCDC cuts it into, which
\* together are the rest.
Finished(r) == [r EXCEPT !.got = @ \o r.held, !.held = <<>>]

\* What the Rust store keeps once it has done what the call asks for.
FilesAfter(g) ==
  CASE call[g].op \in {"ingest", "ingest_file"} ->
         [files EXCEPT ![call[g].file] = Finished(Fed(call[g], call[g].input.blocks)).got]
    [] call[g].pc = "commit" ->
         [files EXCEPT ![call[g].file] = call[g].got]
    [] call[g].op = "delete" -> [files EXCEPT ![call[g].file] = None]
    [] OTHER -> files

\* Any failure of the Rust store, a callback's included. A change that fails late
\* may have been made.
CoreFails(g) ==
  /\ call[g].pc \in {"core", "commit", "write"}
  /\ ErrorTold(g)
  /\ files' \in {files, FilesAfter(g)}
  /\ UNCHANGED <<handles, registries, panicked, calls>>

\* bridgeFromUserdata: OpenFilesystem has no bridge, and its store no callbacks.
Bridged(g) == userdata[call[g].handle] \in bridges

\* chunkstore_go_backend_get copies a value into a buffer of Rust's, of which
\* CallbackBackend::get makes a copy before it frees it.
BackendGet(g) ==
  /\ call[g].pc = "core" /\ Bridged(g)
  /\ heap' = heap \cup {<<g, "value">>}
  /\ Goto(g, "value")
  /\ UNCHANGED <<handles, registries, files, panicked, calls>>

BackendGot(g) ==
  /\ call[g].pc = "value"
  /\ heap' = Freed(g, "value")
  /\ Goto(g, "core")
  /\ UNCHANGED <<handles, registries, files, panicked, calls>>

\* What chunkstore_go_read_cb reports of n, err := r.Read(tmp).
OutLen(x) == x.n

\* FfiReadSource::read: 0 bytes are the end of the stream.
ReadCallback(g) ==
  LET readers == streams["reader"]
      owner == readers[call[g].id]
      x == ReadOf(call[owner].input, call[owner].pos)
  IN
  /\ call[g].pc = "core" /\ call[g].op = "ingest_reader"
  /\ IF call[g].id \notin DOMAIN readers \/ x.err = "other"
       THEN ErrorTold(g)
       ELSE /\ call' = IF OutLen(x) = 0
                         THEN [call EXCEPT ![g] = [Finished(@) EXCEPT !.pc = "commit"]]
                         ELSE [call EXCEPT ![g] = Fed(@, <<call[owner].input.blocks[call[owner].pos + 1]>>),
                                           ![owner].pos = @ + 1]
            /\ UNCHANGED heap
  /\ UNCHANGED <<handles, registries, files, panicked, calls>>

\* digests_to_json_cstring: the digests go to Go as a string.
DigestsOut(g) ==
  /\ heap' = heap \cup {<<g, "digests">>}
  /\ files' = FilesAfter(g)
  /\ Become(g, [call[g] EXCEPT !.pc = "ok", !.got = files'[call[g].file]])
  /\ UNCHANGED <<handles, registries, panicked, calls>>

\* Bytes in memory, and a file that Rust opens itself, are chunked and stored with
\* no callback but the backend's.
Ingested(g)     == call[g].pc = "core" /\ call[g].op = "ingest" /\ DigestsOut(g)
IngestedPath(g) == call[g].pc = "core" /\ call[g].op = "ingest_file" /\ DigestsOut(g)
IngestedReader(g) == call[g].pc = "commit" /\ DigestsOut(g)

\* chunkstore_read hands out its Vec; an empty one has nothing to free.
ReadAll(g) ==
  LET c == files[call[g].file] IN
  /\ call[g].pc = "core" /\ call[g].op = "read" /\ c # None
  /\ Become(g, [call[g] EXCEPT !.pc = "ok", !.want = c])
  /\ heap' = heap \cup IF c = <<>> THEN {} ELSE {<<g, "bytes">>}
  /\ UNCHANGED <<handles, registries, files, panicked, calls>>

ReadToStarts(g) ==
  LET c == files[call[g].file] IN
  /\ call[g].pc = "core" /\ call[g].op = "read_to" /\ c # None
  /\ Become(g, [call[g] EXCEPT !.pc = "write", !.want = c])
  /\ UNCHANGED <<handles, registries, heap, files, panicked, calls>>

\* Every chunk of the file has gone to the writer.
AllWritten(g) == call[g].pos = Len(call[g].want)

\* FfiWriteTarget::write, chunk by chunk
WriteCallback(g) ==
  LET writers == streams["writer"]
      owner == writers[call[g].id]
  IN
  /\ call[g].pc = "write"
  /\ IF AllWritten(g) THEN Goto(g, "ok") /\ UNCHANGED heap
     ELSE IF call[g].id \notin DOMAIN writers THEN ErrorTold(g)
     ELSE /\ call' = [call EXCEPT ![g].pos = @ + 1,
                                  ![owner].got = Append(@, call[g].want[call[g].pos + 1])]
          /\ UNCHANGED heap
  /\ UNCHANGED <<handles, registries, files, panicked, calls>>

Deleted(g) ==
  /\ call[g].pc = "core" /\ call[g].op = "delete" /\ files[call[g].file] # None
  /\ files' = FilesAfter(g)
  /\ Goto(g, "ok")
  /\ UNCHANGED <<handles, registries, heap, panicked, calls>>

StatsRead(g) ==
  /\ call[g].pc = "core" /\ call[g].op = "stats"
  /\ Goto(g, "ok")
  /\ UNCHANGED <<handles, registries, heap, files, panicked, calls>>

-------------------------------------------------------------------------------
(* Back in Go                                                                   *)

\* withErr
TakeError(g) ==
  /\ call[g].pc = "err"
  /\ heap' = Freed(g, "error")
  /\ Finish(g, [call[g] EXCEPT !.result = "err"])
  /\ UNCHANGED <<handles, registries, files, panicked, calls>>

\* parseDigestsJSON, for an ingest; a call with no result for the others.
TakeDigests(g) ==
  /\ call[g].pc = "ok" /\ call[g].op # "read"
  /\ heap' = Freed(g, "digests")
  /\ Finish(g, [call[g] EXCEPT !.result = "ok"])
  /\ UNCHANGED <<handles, registries, files, panicked, calls>>

\* C.GoBytes(data, C.int(length)), which panics when the length is negative.
TakeBytes(g) ==
  LET n == CInt(Len(call[g].want)) IN
  /\ call[g].pc = "ok" /\ call[g].op = "read"
  /\ IF n < 0
       THEN /\ panicked' = TRUE
            /\ UNCHANGED <<heap, call>>
       ELSE /\ heap' = Freed(g, "bytes")
            /\ Finish(g, [call[g] EXCEPT !.got = SubSeq(call[g].want, 1, n), !.result = "ok"])
            /\ UNCHANGED panicked
  /\ UNCHANGED <<handles, registries, files, calls>>

Unregister(g) ==
  LET k == Stream(call[g].op) IN
  /\ call[g].pc = "unregister"
  /\ streams' = [streams EXCEPT ![k] = [i \in DOMAIN @ \ {call[g].id} |-> @[i]]]
  /\ Become(g, [call[g] EXCEPT !.pc = "idle", !.id = 0])
  /\ UNCHANGED <<handles, bridges, bridgeSeq, seq, heap, files, panicked, calls>>

-------------------------------------------------------------------------------

\* The backend may hold files from before.
GoInit ==
  /\ store = [handle |-> 0, bridge |-> 0]
  /\ alive = {} /\ userdata = <<>>
  /\ bridges = {} /\ bridgeSeq = 0
  /\ streams = [k \in Streams |-> <<>>]
  /\ seq = [k \in Streams |-> 0]
  /\ heap = {}
  /\ files \in [Files -> Contents \cup {None}]
  /\ \A f \in BadIds : files[f] = None
  /\ call = [g \in Goroutines |-> Idle]
  /\ panicked = FALSE
  /\ calls = 0

GoStep(g) ==
  \/ Register(g) \/ Enter(g) \/ CoreFails(g) \/ BackendGet(g) \/ BackendGot(g)
  \/ ReadCallback(g) \/ Ingested(g) \/ IngestedPath(g) \/ IngestedReader(g)
  \/ ReadAll(g) \/ ReadToStarts(g) \/ WriteCallback(g) \/ Deleted(g) \/ StatsRead(g)
  \/ TakeError(g) \/ TakeDigests(g) \/ TakeBytes(g) \/ Unregister(g)

Rest == (panicked \/ \A g \in Goroutines : ~Busy(g)) /\ UNCHANGED vars

GoNext ==
  \/ /\ ~panicked
     /\ \/ OpenFilesystem \/ Open \/ OpenFails \/ Close
        \/ \E g \in Goroutines : BeginCall(g) \/ GoStep(g)
  \/ Rest

GoSpec == GoInit /\ [][GoNext]_vars
===============================================================================
