CONSTANTS
  Direction = "download"
  Versions <- TwoVersions
  SourceSize <- SizesTwo
  MaxSize = 3
  ChunkSizes = {1, 2}
  Lanes = {l1, l2}
  Window = 1
  Capacity = 1
  MaxAttempts = 2
  Faults = {"quiet", "request", "save", "load", "rename", "lost"}
SPECIFICATION Spec
SYMMETRY LaneSymmetry
INVARIANTS
  FinalSettles
  SuccessIsDelivery
CHECK_DEADLOCK FALSE
