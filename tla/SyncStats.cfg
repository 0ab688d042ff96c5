\* Two devices write and sync two tasks through one server.
CONSTANTS
  Devices = {d1, d2}
  Keys = {k1, k2}
  Values <- MCValues
  Gone = Gone
  MaxWrites = 3
  MaxChain = 2
SPECIFICATION Spec
SYMMETRY Symmetry
INVARIANTS TypeOK VersionsExact
PROPERTIES ReportedIsRemote CountsBalance
CHECK_DEADLOCK FALSE
