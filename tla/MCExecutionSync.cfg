CONSTANTS
  Client = {a, b}
  Cell = {x}
  MaxRuns = 2
  MaxOutputs = 1
  Room = 1
  Joiner = {b}
  Runner = {a}
  Deleter = {a, b}
  Viewer = {b}
  Capacity = 1
SPECIFICATION Spec
INVARIANTS
  OutputsOfOneRun
  ClientsShowOutputs
  NotShownRunning
  JoinersRecover
CHECK_DEADLOCK FALSE
