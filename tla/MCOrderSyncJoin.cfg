CONSTANTS
  Client = {a, b}
  x = x
  y = y
  InitialCells <- OneCell
  Joiner = {b}
  MaxOperations = 2
  Kinds = {"cell_insert", "cell_delete", "cell_move"}
  SerialBroadcast = FALSE
SPECIFICATION FairSpec
INVARIANTS
  ListsMirrored
  EchoesMatchPending
  TrackingClientsConverge
PROPERTIES
  PendingSettles
CHECK_DEADLOCK FALSE
