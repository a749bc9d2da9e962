CONSTANTS
  c1 = c1
  c2 = c2
  s1 = s1
  s2 = s2
  None = None
  Calls = {c1, c2}
  Stores = {s1, s2}
  StoreOf <- OneStore
  PyStores = {s1}
  Sources <- MCSources
  ChunkSize = 2
  ReadSize = 3
  QueueSize = 1
  Workers = 3
  MaxFaults = 0
SPECIFICATION AsyncSpec
INVARIANTS
  InterpreterRuns
CHECK_DEADLOCK FALSE
