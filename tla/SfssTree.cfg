SPECIFICATION Spec
CONSTANTS
  N = 2
  Dirs = {"novoDir1"}
  Names = {"file0"}
  Offsets = {0, 2}
  MaxWritten = 2
  InitialCounts = {1}
  MaxCalls = 4
INVARIANTS TypeOK NoOrphans PrivateRepliesAreFresh RegistryCoversFiles
PROPERTIES BlocksAreKept
CHECK_DEADLOCK FALSE
