CONSTANTS
  Client = {a, b}
  x = x
  y = y
  InitialCells <- TwoCells
  Joiner = {}
  MaxOperations = 3
  Kinds = {"cell_insert", "cell_delete", "cell_move"}
  SerialBroadcast = TRUE
SPECIFICATION Spec
SYMMETRY Symmetry
INVARIANTS
  ClientOnServerOrder
CHECK_DEADLOCK FALSE
