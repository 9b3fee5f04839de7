SPECIFICATION FairSpec
CONSTANTS
  N = 2
  MAX = 1
  Ops <- FileAndDirOps
  FifoCap = 6
  KernelKeepsUp = TRUE
  MaxSigint = 0
  MaxLost = 2
PROPERTIES LossIsContained
