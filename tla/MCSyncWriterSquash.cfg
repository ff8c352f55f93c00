CONSTANTS
  A = A
  B = B
  x = x
  y = y
  Origins = {A, B}
  Urls = {x, y}
  Script <- ScriptOwn
  MaxInMemory = 3
  MaxSyncs = 2
  ProbeFirst = TRUE
  Faults = {"squash"}
  MaxFaults = 1
  Nobody = Nobody
  FlushTask = FlushTask
  NoUrl = NoUrl
  NoInfo = NoInfo
SPECIFICATION Spec
INVARIANT DurablePersisted
