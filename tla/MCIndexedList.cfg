CONSTANTS
  Id = {p, q, r}
  Asked <- FourIndexes
  MaxCalls = 5
SPECIFICATION ListSpec
INVARIANTS
  Mirrored
PROPERTIES
  OthersStay
CHECK_DEADLOCK FALSE
