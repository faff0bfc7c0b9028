CONSTANTS
  Checkpoints = {c1, c2, c3}
  NoCheckpoint = none
  StoreFaults = {"write"}
  MinChunk = 1
  Reserve = 2
  DefaultStep = 3
  MaxTotal = 6
  MaxChunk = 4
  MaxLimit = 6
SPECIFICATION AllSpec
INVARIANTS
  SizesAreSound
PROPERTIES
  CheckpointSurvives
  ImplementsRegister
  SavedSurvivesFaults
