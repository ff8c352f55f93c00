SPECIFICATION MCSpec
CONSTANTS
  Sessions = {s1, s2}
  Instances = {i1, i2}
  Requests <- AdminRequests
  InitialStatus <- DroppedTables
  Objects = {o1, o2}
  StoredFunctions <- Stored
  MaxStatements = 4
  MaxFaults = 2
  ListFaults = FALSE
  DeleteIsIdempotent = FALSE
  Clients = {c1, c2}
  FrontRequests <- AllRequests
  Policies <- AccessPolicies
  Passwords = {"r", "w", "x"}
  MaxRequests = 3
  Server = {p1, q1}
  Table = {t1}
  Deployment <- Deployments
  Unset <- NoSettings
  MaxCrashes = 2
  d1 = d1
  f1 = f1
  v1 = v1
  v2 = v2
  c1 = c1
  c2 = c2
  p1 = p1
  q1 = q1
INVARIANTS
  RowGoneMeansClean
  CreatedIsUsable
  HttpAuthorized
  AnswerTells
  ServesConsistently
PROPERTIES
  FailedIsFinal
  GcSettles
  ShutdownIsGraceful
  StartsEventually
CHECK_DEADLOCK FALSE
