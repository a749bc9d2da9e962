CONSTANTS
  g1 = g1
  g2 = g2
  b1 = b1
  b2 = b2
  f1 = f1
  f2 = f2
  None = None
  Pause = Pause
  Goroutines = {g1, g2}
  Files = {f1, f2}
  BadIds = {f2}
  Contents <- SomeContents
  Readers <- SomeReaders
  HalfInt = 2
  ChunkSize = 2
  MaxOpens = 2
  MaxCalls = 2
SYMMETRY Symmetric
SPECIFICATION GoSpec
INVARIANTS
  GoTypeOK
  UsesLiveStore
  StreamsApart
  NothingLeaks
  IngestedWhole
  ReaderHeldBounded
  ReadsWhole
