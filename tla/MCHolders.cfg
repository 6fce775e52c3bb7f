CONSTANTS
  Char = {x, y}
  User = {ann, bob}
  HistoryCap = 2
  MaxVersion = 4
  MaxText = 2
SPECIFICATION RefinementSpec
SYMMETRY Symmetry
INVARIANTS
  HistoryIsTail
  HistoryReplays
  RecentEditsAccepted
  CursorsKeepOrder
  AnswersAgree
PROPERTY ImplementsNaive
CHECK_DEADLOCK FALSE
