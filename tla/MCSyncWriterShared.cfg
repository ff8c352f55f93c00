CONSTANTS
  A = A
  B = B
  x = x
  y = y
  Origins = {A, B}
  Urls = {x, y}
  Script <- ScriptShared
  MaxInMemory = 3
  MaxSyncs = 2
  ProbeFirst = TRUE
  Faults = {"timeout"}
  MaxFaults = 1
  Nobody = Nobody
  FlushTask = FlushTask
  NoUrl = NoUrl
  NoInfo = NoInfo
SPECIFICATION FairSpec
INVARIANT ExactlyOnce
PROPERTY MemoryBecomesDurable
