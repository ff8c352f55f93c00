CONSTANTS
  Pks <- MCPks
  PlainCols = {"p"}
  ChangedCols <- Two
  InitialFiles <- OneFile
  MaxChanges = 2
  MaxMessages = 1
SPECIFICATION Spec
CHECK_DEADLOCK FALSE
INVARIANT
  FlushIsSequential
