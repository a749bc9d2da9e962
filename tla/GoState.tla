-------------------------------- MODULE GoState --------------------------------
(* The state of the Go binding (go/chunkstore) and of the C functions it calls  *)
(* (core/src/ffi/store_ffi.rs): the Store a program holds, the Rust store behind *)
(* its handle, the registries through which C code finds Go values again, the   *)
(* buffers Rust has allocated for Go, and how far each goroutine is in its call. *)
EXTENDS Integers, FiniteSets, Sequences, TLC

CONSTANTS
  Goroutines,
  Files,       \* file ids
  BadIds,      \* the ids that are not valid UTF-8
  Contents,    \* contents, as sequences of blocks
  Readers,     \* [blocks, end]: what an io.Reader hands out, see ReadOf
  Pause,       \* stands in blocks for a Read that returns 0 bytes and no error
  None,
  HalfInt,     \* 2^31: C.int goes from -HalfInt to HalfInt - 1 (a block is one byte)
  ChunkSize,   \* of the fixed chunker
  MaxOpens, MaxCalls   \* bounds

Blocks == UNION {{c[i] : i \in DOMAIN c} : c \in Contents \cup {r.blocks : r \in Readers}}

ASSUME GoAssumption ==
  /\ BadIds \subseteq Files /\ None \notin Files \cup Goroutines
  /\ Contents \subseteq Seq(Blocks) /\ None \notin Seq(Blocks)
  /\ \A c \in Contents : Pause \notin {c[i] : i \in DOMAIN c}
  /\ Readers \subseteq [blocks : Seq(Blocks), end : {"eof", "eof_with_data", "error"}]
  /\ HalfInt \in Nat \ {0} /\ ChunkSize \in Nat \ {0} /\ MaxOpens \in Nat /\ MaxCalls \in Nat

VARIABLES
  store,      \* [handle, bridge]: the Store; handle 0 is nil, bridge 0 is OpenFilesystem
  alive,      \* handles whose Rust store has not been dropped
  userdata,   \* [handles -> the bridge id its callbacks get]
  bridges,    \* bridge ids in bridgeRegistry
  bridgeSeq,
  streams,    \* [{"reader", "writer"} -> registry]: a function from ids to goroutines
  seq,        \* [{"reader", "writer"} -> Nat]: readerSeq, writerSeq
  heap,       \* buffers Rust has allocated and nobody has freed, as <<goroutine, kind>>
  files,      \* [Files -> content or None]: what the Rust stores keep
  call,       \* [Goroutines -> record], see Idle
  panicked,   \* the process has died of a Go panic
  calls

registries == <<bridges, bridgeSeq, streams, seq>>
handles    == <<store, alive, userdata>>
vars       == <<handles, registries, heap, files, call, panicked, calls>>

-------------------------------------------------------------------------------

NoReader == [blocks |-> <<>>, end |-> "eof"]

Idle == [pc |-> "idle", op |-> "none", file |-> None,
         chunker |-> "fixed", \* ingests: "fixed" or "cdc"
         input |-> NoReader,  \* ingests: the reader; one that holds it all for Ingest
         pos |-> 0,           \* how many of its blocks the reader has handed out
         handle |-> 0,        \* the handle that was passed to the C function
         id |-> 0,            \* the registered id of the reader or writer
         held |-> <<>>,       \* ingests: the bytes in the chunker
         got |-> <<>>,        \* ingests: the bytes of the chunks stored; reads: Go's bytes
         want |-> <<>>,       \* reads: the file, as Rust found it
         told |-> FALSE,      \* the C function has set *out_err
         result |-> "none"]

Ops == {"ingest", "ingest_file", "ingest_reader", "read", "read_to", "delete", "stats"}
Pcs == {"idle", "register", "enter", "core", "value", "commit", "write", "ok", "err",
        "unregister"}
CorePcs == {"core", "value", "commit", "write"}   \* inside the C function

Busy(g)        == call[g].pc # "idle"
Become(g, r)   == call' = [call EXCEPT ![g] = r]
Goto(g, label) == Become(g, [call[g] EXCEPT !.pc = label])

\* The registry a call uses.
Stream(op)   == CASE op = "ingest_reader" -> "reader" [] op = "read_to" -> "writer"
                  [] OTHER -> "none"
Chunkers     == {"fixed", "cdc"}
Streams      == {"reader", "writer"}

\* The method returns, after the deferred unregisterReader or unregisterWriter;
\* what it was called with and what came of it stay, its other locals are gone.
Finish(g, r) ==
  Become(g, [r EXCEPT !.pc = IF Stream(r.op) = "none" THEN "idle" ELSE "unregister",
                      !.chunker = "fixed", !.pos = 0, !.handle = 0, !.held = <<>>,
                      !.told = FALSE])

\* reader.Read, the p-th time: how many bytes, and which error.
ReadOf(r, p) ==
  IF p < Len(r.blocks)
    THEN [n |-> IF r.blocks[p + 1] = Pause THEN 0 ELSE 1,
          err |-> IF p + 1 = Len(r.blocks) /\ r.end = "eof_with_data" THEN "EOF" ELSE "nil"]
    ELSE [n |-> 0, err |-> IF r.end = "error" THEN "other" ELSE "EOF"]

\* chunkstore_bytes_free and chunkstore_string_free; freeing null does nothing.
Freed(g, kind) == heap \ {<<g, kind>>}

\* chunkstore_destroy: the Rust store behind a handle is dropped; a null one is not.
Destroyed(h) == alive \ {h}

\* C.int(n): the low bits, as a signed number.
CInt(n) == ((n + HalfInt) % (2 * HalfInt)) - HalfInt
===============================================================================
