CONSTANTS
  a = a
  b = b
  f = f
  g = g
  e = e
  None = None
  Files = {f, g}
  Digests = {a, b}
  SizeOf <- WithEmptyChunk
  MaxChunks = 2
  Threads = {t1, t2}
  EmptyIds = {}
  Contents <- SharedContents
  Ops = {"ingest", "delete"}
  ExclusiveFiles = TRUE
  MaxCalls = 3
  MaxFaults = 1
  MaxCrashes = 0
SPECIFICATION FairSpec
INVARIANTS
  RefcountCovers
  RefcountExact
PROPERTIES
  EveryCallReturns
