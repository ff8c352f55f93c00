SPECIFICATION Spec
CONSTANTS
  s1 = s1
  s2 = s2
  Sessions <- MCSessions
  Tables <- MCTables
  DefaultSchema = "public"
  Workloads <- MCWorkloads
  AtomicRename = TRUE
SYMMETRY Symmetry
INVARIANTS
  FilesPresent
  RowsOnce
  VersionsCommitted
  ReadsFresh
  CacheMatchesTag
  ListedIsUsable
  TypeOK
PROPERTIES
  NoLostRows
CHECK_DEADLOCK FALSE
