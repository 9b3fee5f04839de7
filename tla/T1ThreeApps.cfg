SPECIFICATION Spec
CONSTANTS
  N = 3
  MAX = 1
  Ops <- OneFileOp
  FifoCap = 6
  KernelKeepsUp = TRUE
  MaxSigint = 0
  MaxLost = 0
PROPERTIES RoundRobin
