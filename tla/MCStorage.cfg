SPECIFICATION MCSpec
CONSTANTS
  r1 = r1
  r2 = r2
  s1 = s1
  s2 = s2
  Readers = {r1, r2}
  Length = 5
  min_fetch_size = 2
  Ranges <- OverlappingRanges
  MaxReads = 2
  MaxEvictions = 1
  MaxFaults = 1
  Reader = {1, 2}
  Location <- HttpLocations
  SchemesAgree = TRUE
  Servers <- Answers
  Op = {"scan", "get", "get_opts", "list", "write"}
  MaxSize = 3
  ChunkSize = 2
  MaxChanges = 1
  Plans <- NumberedPlans
  max_partition_size = 3
  MaxUploads = 2
  MinPart = 2
  MaxRead = 1
  MaxZeros = 2
  Sessions = {s1, s2}
  Configs <- Internal
  Locations <- StoreLocations
  Environment <- NoEnvironment
  DetectedRegion = "r9"
  MaxRequests = 3
  Consumer = {1, 2}
  Limit = 3
  Unbounded = FALSE
  Sizes = {1, 2}
  MaxCounted = 3
INVARIANTS
  ReadsAreExact
  NoOrphanFiles
  ExactIfUnchanged
  FromItsLocation
  OwnStore
  AddsHaveAllRows
  CountersBalance
PROPERTIES
  CacheSettles
  CallEnds
CHECK_DEADLOCK FALSE
