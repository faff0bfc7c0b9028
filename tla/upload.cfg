CONSTANTS
  Direction = "upload"
  Versions <- TwoVersions
  SourceSize <- SizesTwo
  MaxSize = 3
  ChunkSizes = {1, 2}
  Lanes = {l1, l2}
  Window = 1
  Capacity = 1
  MaxAttempts = 3
  Faults = {"crash", "request", "save", "load", "rename", "lost"}
SPECIFICATION Spec
SYMMETRY LaneSymmetry
INVARIANTS
  CheckpointIsTrue
  FinalIsWhole
  NoLostUpdate
  InductiveInv
CHECK_DEADLOCK FALSE
