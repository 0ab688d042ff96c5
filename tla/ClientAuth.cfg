\* The built-in AuthService and a well-formed client id.
CONSTANTS
  Calls = {1, 2}
  Tasks = {a}
  Debounce = 2
  MaxStarts = 3
  AutoSync = TRUE
  BuiltInAuth = TRUE
  WellFormedId = TRUE
SPECIFICATION Spec
PROPERTY ValidCredentialsConnect
CHECK_DEADLOCK FALSE
