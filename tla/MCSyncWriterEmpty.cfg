CONSTANTS
  A = A
  B = B
  x = x
  y = y
  Origins = {A}
  Urls = {x, y}
  Script <- ScriptOne
  MaxInMemory = 3
  MaxSyncs = 2
  ProbeFirst = TRUE
  Faults = {}
  MaxFaults = 0
  Nobody = Nobody
  FlushTask = FlushTask
  NoUrl = NoUrl
  NoInfo = NoInfo
SPECIFICATION Spec
INVARIANT ReadyIsDurable
