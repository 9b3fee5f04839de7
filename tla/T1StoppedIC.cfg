SPECIFICATION FairSpec
CONSTANTS
  N = 1
  MAX = 1
  Ops <- OneFileOp
  FifoCap = 6
  KernelKeepsUp = TRUE
  MaxSigint = 2
  MaxLost = 0
PROPERTIES SignalFinishesIC
CHECK_DEADLOCK FALSE
