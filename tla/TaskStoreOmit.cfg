\* A Dart program saves a task without its project.
CONSTANTS
  u1 = u1
  u2 = u2
  u3 = u3
  t1 = t1
  a1 = a1
  Tags = {t1}
  BadTag = BadTag
  Annotations = {a1}
  Udas <- MCUdas
  Absent = Absent
  NoTask = NoTask
  Ids = {u1, u2, u3}
  Dtos <- PlainDtos
  Maps <- NoInput
  Foreign <- NoInput
  Files <- NoInput
  Edits = {"no_udas"}
  MaxImports = 0
SPECIFICATION Spec
PROPERTY OmittedIsCleared
CHECK_DEADLOCK FALSE
