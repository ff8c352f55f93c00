CONSTANTS
  A = A
  B = B
  x = x
  y = y
  Origins = {A, B}
  Urls = {x, y}
  Script <- ScriptOwn
  MaxInMemory = 3
  MaxSyncs = 2
  ProbeFirst = TRUE
  Faults = {"crash", "flush"}
  MaxFaults = 2
  Nobody = Nobody
  FlushTask = FlushTask
  NoUrl = NoUrl
  NoInfo = NoInfo
SPECIFICATION Spec
INVARIANTS
  DurablePersisted
  MemoryHeld
  NoGaps
PROPERTY ImplementsContract
