CONSTANTS
  a = a
  b = b
  f = f
  g = g
  e = e
  None = None
  Files = {f, g}
  Digests = {a, b}
  SizeOf <- MCSizeOf
  MaxChunks = 2
  Threads = {t1, t2}
  EmptyIds = {}
  Contents <- AllContents
  Ops = {"create", "read"}
  ExclusiveFiles = TRUE
  MaxCalls = 4
  MaxFaults = 0
  MaxCrashes = 0
SPECIFICATION Spec
INVARIANTS
  FilesReadable
  StatsExact
  DurableCountsMatch
  DurableRefcountCovers
PROPERTIES
  Linearizable
