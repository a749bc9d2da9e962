CONSTANTS
  a = a
  b = b
  f = f
  g = g
  e = e
  None = None
  Files = {f, g, e}
  Digests = {a, b}
  SizeOf <- MCSizeOf
  MaxChunks = 2
  Threads = {t}
  EmptyIds = {e}
  Contents <- AllContents
  Ops = {"ingest", "delete", "read", "repair"}
  ExclusiveFiles = TRUE
  MaxCalls = 4
  MaxFaults = 1
  MaxCrashes = 1
SPECIFICATION Spec
INVARIANTS
  TypeOK
  DurableFilesIntact
  DurableRefcountCovers
  NoGarbage
  StatsExact
  DurableManifestMatches
  DurableCountsMatch
PROPERTIES
  CrashAtomic
