CONSTANTS
  Client = {a, b}
  Cell = {x, y}
  MaxRuns = 3
  MaxOutputs = 1
  Room = 12
SPECIFICATION FairQueueSpec
INVARIANTS
  OneRunPerCell
  ResultsInOrder
PROPERTIES
  RunsEnd
CHECK_DEADLOCK FALSE
