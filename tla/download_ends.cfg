CONSTANTS
  Direction = "download"
  Versions <- OneVersion
  SourceSize <- SizeTwo
  MaxSize = 2
  ChunkSizes = {1}
  Lanes = {l1, l2}
  Window = 1
  Capacity = 1
  MaxAttempts = 2
  Faults = {"disk", "request"}
SPECIFICATION FairSpec
PROPERTIES
  AttemptEnds
CHECK_DEADLOCK FALSE
