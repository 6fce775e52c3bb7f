CONSTANTS
  Char = {"x", "y"}
  MaxLen = 3
SPECIFICATION TextSpec
INVARIANTS
  DiffIsExact
  ComposeIsSequential
  TransformConverges
  CursorStaysPut
CHECK_DEADLOCK FALSE
