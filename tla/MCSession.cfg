CONSTANTS
  a = a  b = b  c = c
  User <- Everybody
  Present <- Host
  Connected <- Visitor
  Capacity = 1
  MaxRequests = 4
SPECIFICATION Spec
INVARIANTS
  PresenceRight
  VersionsCatchUp
PROPERTY
  JoinersSync
CHECK_DEADLOCK FALSE
