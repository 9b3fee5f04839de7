SPECIFICATION Spec
CONSTANTS
  N = 2
  MAX = 1
  Ops <- OneFileOp
  FifoCap = 6
  KernelKeepsUp = TRUE
  MaxSigint = 2
  MaxLost = 0
PROPERTIES DeliveryUnblocks
CHECK_DEADLOCK FALSE
