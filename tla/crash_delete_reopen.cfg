CONSTANTS
  a = a
  b = b
  f = f
  g = g
  e = e
  None = None
  Files = {f, g}
  Digests = {a, b}
  SizeOf <- MCSizeOf
  MaxChunks = 2
  Threads = {t}
  EmptyIds = {}
  Contents <- SharedContents
  Ops = {"create", "delete"}
  ExclusiveFiles = TRUE
  MaxCalls = 2
  MaxFaults = 0
  MaxCrashes = 1
SPECIFICATION Spec
INVARIANT ReopensAfterCrash
