CONSTANTS
  Char = {a, b}
  Client = {a, b}
  InitialText <- NoText
  HistoryCap = 10
  MaxText = 1
  MaxTyped = 2
  SerialBroadcast = FALSE
  Position = {1, 2}
  Mover = {a}
  MaxMoved = 1
SPECIFICATION CursorSpec
INVARIANTS
  CursorAfterItsEdit
  LastCursorShown
PROPERTIES
  TypingIsShared
  ReportsAreSent
CHECK_DEADLOCK FALSE
