CONSTANTS
  A = A
  B = B
  x = x
  y = y
  Origins = {A, B}
  Urls = {x, y}
  Script <- ScriptShared
  MaxInMemory = 3
  MaxSyncs = 2
  ProbeFirst = TRUE
  Faults = {"crash", "flush", "squash", "drop", "timeout", "foreign"}
  MaxFaults = 2
  Nobody = Nobody
  FlushTask = FlushTask
  NoUrl = NoUrl
  NoInfo = NoInfo
SPECIFICATION Spec
INVARIANTS
  TypeOK
  PendingTxTracked
  BufferAccounted
PROPERTY DurableMonotone
