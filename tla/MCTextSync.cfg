CONSTANTS
  Char = {a, b, letter}
  Client = {a, b}
  letter = letter
  InitialText <- OneLetter
  HistoryCap = 1
  MaxText = 2
  MaxTyped = 4
  SerialBroadcast = FALSE
SPECIFICATION Spec
SYMMETRY Symmetry
INVARIANTS
  TypeOK
  ClientOnServerText
  TrackingClientsConverge
  RequestsFit
CHECK_DEADLOCK FALSE
