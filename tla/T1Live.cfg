SPECIFICATION FairSpec
CONSTANTS
  N = 2
  MAX = 1
  Ops <- OneFileOp
  FifoCap = 6
  KernelKeepsUp = TRUE
  MaxSigint = 0
  MaxLost = 0
PROPERTIES ServesEveryCall NoStarvation Finishes
