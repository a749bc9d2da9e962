----------------------------- MODULE MCChunkStore -----------------------------
(* ChunkStore on small instances for TLC.                                       *)
EXTENDS StoreRefinement, TLC

CONSTANTS a, b, f, g, e

\* Chunks of different lengths, so that byte counters tell them apart.
MCSizeOf == (a :> 1) @@ (b :> 3)

\* ingest_chunks is given its chunks and takes an empty one like any other.
WithEmptyChunk == (a :> 1) @@ (b :> 0)

\* An empty file, a one-chunk file, one that repeats a chunk, one that shares it.
AllContents    == {<<>>, <<a>>, <<a, a>>, <<b, a>>}
SharedContents == {<<a>>, <<a, b>>}
===============================================================================
