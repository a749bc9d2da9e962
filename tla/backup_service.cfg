CONSTANTS
  a = a
  b = b
  None = None
  Server = server
  Threads = {server}
  Files = {f, g}
  Digests = {a, b}
  SizeOf <- MCSizeOf
  MaxChunks = 2
  EmptyIds = {}
  Contents <- MCArchives
  Ops = {"create", "delete", "read"}
  ExclusiveFiles = TRUE
  MaxCalls = 10
  MaxFaults = 1
  MaxCrashes = 1
  MaxRequests = 5
  MaxCatalogFaults = 2
SPECIFICATION BackupSpec
INVARIANTS
  BackupTypeOK
  BackupsKept
  DeletedForGood
  NoOrphans
  Discoverable
