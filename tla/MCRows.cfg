SPECIFICATION MCSpec
CONSTANTS
  Off = Off
  Types = {"SMALLINT", "BIGINT", "TEXT"}
  Languages = {"wasm", "wasmMessagePack"}
  Guests = {"echo", "large", "text", "trap"}
  Values <- SmallValues
  MaxArgs = 2
  MaxRows = 2
  Word = 3
INVARIANTS
  FlushIsSequential
  FineIsFiner
  ExactOrError
  BuffersFreed
CHECK_DEADLOCK FALSE
