\* A file with one task is imported twice.
CONSTANTS
  u1 = u1
  u2 = u2
  u3 = u3
  t1 = t1
  a1 = a1
  Tags = {t1}
  BadTag = BadTag
  Annotations = {a1}
  Udas <- MCUdas
  Absent = Absent
  NoTask = NoTask
  Ids = {u1, u2, u3}
  Dtos <- NoInput
  Maps <- NoInput
  Foreign <- NoInput
  Files <- PlainFiles
  Edits = {}
  MaxImports = 2
SPECIFICATION Spec
INVARIANT ImportOnce
CHECK_DEADLOCK FALSE
