CONSTANTS
  Char = {a, b, letter}
  Client = {a, b}
  letter = letter
  InitialText <- OneLetter
  HistoryCap = 10
  MaxText = 2
  MaxTyped = 3
  SerialBroadcast = TRUE
SPECIFICATION Spec
SYMMETRY Symmetry
INVARIANT
  Convergence
CHECK_DEADLOCK FALSE
