SPECIFICATION Spec
CONSTANTS
  N = 2
  MAX = 1
  Ops <- OneFileOp
  FifoCap = 2
  KernelKeepsUp = FALSE
  MaxSigint = 2
  MaxLost = 0
INVARIANTS OneAppRuns
PROPERTIES RepliesLandOnStoppedApps
CHECK_DEADLOCK FALSE
