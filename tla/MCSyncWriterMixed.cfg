CONSTANTS
  A = A
  B = B
  x = x
  y = y
  Origins = {A, B}
  Urls = {x, y}
  Script <- ScriptMixed
  MaxInMemory = 4
  MaxSyncs = 3
  ProbeFirst = TRUE
  Faults = {"crash"}
  MaxFaults = 1
  Nobody = Nobody
  FlushTask = FlushTask
  NoUrl = NoUrl
  NoInfo = NoInfo
SPECIFICATION Spec
INVARIANT DurablePersisted
