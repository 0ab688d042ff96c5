\* A Dart program fetches pending tasks and completes them.
CONSTANTS
  u1 = u1
  u2 = u2
  u3 = u3
  t1 = t1
  a1 = a1
  Tags = {t1}
  BadTag = BadTag
  Annotations = {a1}
  Udas <- MCUdas
  Absent = Absent
  NoTask = NoTask
  Ids = {u1, u2, u3}
  Dtos <- PlainDtos
  Maps <- NoInput
  Foreign <- NoInput
  Files <- NoInput
  Edits = {"complete"}
  MaxImports = 0
SPECIFICATION Spec
INVARIANT CompletedHasEnd
CHECK_DEADLOCK FALSE
