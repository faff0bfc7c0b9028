CONSTANTS
  Direction = "upload"
  Versions <- OneVersion
  SourceSize <- SizeTwo
  MaxSize = 2
  ChunkSizes = {1}
  Lanes = {l1, l2}
  Window = 1
  Capacity = 1
  MaxAttempts = 2
  Faults = {"stall", "request", "unlink", "truncate", "sidecar"}
SPECIFICATION StoreUnfairSpec
PROPERTIES
  FailureReturns
CHECK_DEADLOCK FALSE
