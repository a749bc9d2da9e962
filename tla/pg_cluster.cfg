CONSTANTS
  a = a
  b = b
  f = f
  g = g
  n1 = n1
  n2 = n2
  t1 = t1
  t2 = t2
  None = None
  Nodes = {n1, n2}
  Threads = {t1, t2}
  NodeOf <- MCNodeOf
  Files = {f, g}
  EmptyIds = {g}
  Digests = {a, b}
  Contents <- MCContents
  MaxChunks = 2
  Ops = {"ingest", "delete", "read", "repair"}
  RepairAlone = TRUE
  MaxCalls = 4
  MaxFaults = 1
  MaxCrashes = 1
SPECIFICATION PgSpec
INVARIANTS
  PgTypeOK
  CountsExact
  PgFilesReadable
PROPERTIES
  RepairReclaims
