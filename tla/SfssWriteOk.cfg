SPECIFICATION Spec
CONSTANTS
  N = 2
  Dirs = {"novoDir1"}
  Names = {"file0"}
  Offsets = {0, 1}
  MaxWritten = 2
  InitialCounts = {0}
  MaxCalls = 3
INVARIANTS WriteOkMeansWritten
CHECK_DEADLOCK FALSE
