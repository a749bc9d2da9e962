CONSTANTS
  c1 = c1
  c2 = c2
  s1 = s1
  s2 = s2
  None = None
  Calls = {c1, c2}
  Stores = {s1, s2}
  StoreOf <- TwoStores
  PyStores = {s2}
  Sources <- MCSources
  ChunkSize = 2
  ReadSize = 3
  QueueSize = 1
  Workers = 4
  MaxFaults = 1
SPECIFICATION AsyncSpec
INVARIANTS
  AsyncTypeOK
  StoredInOrder
  BufferBounded
PROPERTIES
  EveryIngestReturns
CHECK_DEADLOCK FALSE
