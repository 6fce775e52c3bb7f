CONSTANTS
  Char = {"x"}
  HistoryCap = 5
  User = {ann, bob}
  Cell = {"c", "d"}
  Present = {"c"}
  InitialText <- OneLetter
  MaxText = 2
  MaxRequests = 4
SPECIFICATION Spec
SYMMETRY Symmetry
INVARIANTS
  FocusTypeOK
  Membership
  CursorsExact
  SnapshotHasThoseWhoStay
  OnlyLateReportsStay
CHECK_DEADLOCK FALSE
