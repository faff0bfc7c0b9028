CONSTANTS
  Direction = "upload"
  Versions <- OneVersion
  SourceSize <- SizeTwo
  MaxSize = 2
  ChunkSizes = {1}
  Lanes = {l1, l2}
  Window = 1
  Capacity = 1
  MaxAttempts = 3
  Faults = {"stall"}
SPECIFICATION Spec
SYMMETRY LaneSymmetry
INVARIANTS
  FinalIsWhole
CHECK_DEADLOCK FALSE
