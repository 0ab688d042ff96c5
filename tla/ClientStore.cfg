\* An injected IAuthService, auto-sync on: two calls in flight, four in all,
\* two tasks, and pulls that may bring either as a new one.
CONSTANTS
  Tasks = {a, b}
  Files = {{a, b}}
  MaxVersion = 1
  Calls = {1, 2}
  Debounce = 2
  MaxStarts = 4
  AutoSync = TRUE
  BuiltInAuth = FALSE
  WellFormedId = TRUE
SPECIFICATION DataFairSpec
INVARIANTS DataTypeOK UnsyncedIsAccounted
PROPERTIES NoAutoSyncAfterDispose EventIsFresh AskedIsSynced
CHECK_DEADLOCK FALSE
