SPECIFICATION Spec
CONSTANTS
  N = 2
  MAX = 2
  Ops <- FileAndDirOps
  FifoCap = 6
  KernelKeepsUp = TRUE
  MaxSigint = 0
  MaxLost = 0
INVARIANTS TypeOK QueuesFit BlockedIsOwed
PROPERTIES ImplementsService TerminatedIsFinal AppsReadWholeReplies
