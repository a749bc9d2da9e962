CONSTANTS
  p1 = p1
  p2 = p2
  t1 = t1
  t2 = t2
  v = v
  w = w
  None = None
  Torn = Torn
  Present = Present
  Kinds = {"rust", "go", "python"}
  Procs = {p1}
  Threads = {t1, t2}
  ProcOf <- OneProcess
  Keys = {"k"}
  Values = {v, w}
  MaxCalls = 4
  MaxFaults = 1
  MaxCrashes = 1
SYMMETRY Alike
SPECIFICATION FsSpec
INVARIANTS
  FsTypeOK
  KeysWhole
  NoLeftovers
PROPERTIES
  FsIsMap
