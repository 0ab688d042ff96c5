\* DTO and map writers, a Dart program, other programs' tasks, one import.
CONSTANTS
  u1 = u1
  u2 = u2
  u3 = u3
  t1 = t1
  a1 = a1
  Tags = {t1}
  BadTag = BadTag
  Annotations = {a1}
  Udas <- MCUdas
  Absent = Absent
  NoTask = NoTask
  Ids = {u1, u2}
  Dtos <- MCDtos
  Maps <- MCMaps
  Foreign <- MCForeign
  Files <- MCFiles
  Edits = {"complete"}
  MaxImports = 1
SPECIFICATION Spec
INVARIANTS TypeOK ViewStable DartViewStable StampsValidated ImportReport
PROPERTIES WriteIsRead ViewSpec
CHECK_DEADLOCK FALSE
