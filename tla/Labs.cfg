SPECIFICATION Spec
CONSTANTS
  Rows = 3
  Cols = 2
  Products = 3
  MaxRounds = 4
  NumTrades = 4
  FlatSeconds = 2
  MaxTime = 5
  MaxSignals = 4
  Messages = 4
  MaxInput = 3
  TAM = 4
  MaxLines = 3
  Rounds = 2
  MaxStarts = 2
INVARIANTS TypeOK ProductsAreFresh NoValueThrice MessagesAreRead OneMayFail AnswersTheLine SemaphoreCounts NoAdditionIsLost
PROPERTIES SumIsComplete ChildrenTakeTurns PriceIsRight EndIsNoticed ReadersEnd LinesArrive FamilyReads LinesAreAnswered WritersEnd
CHECK_DEADLOCK FALSE
