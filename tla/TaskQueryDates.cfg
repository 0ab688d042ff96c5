\* A due date, and a filter that a Dart program made of a local time.
CONSTANTS
  u1 = u1
  u2 = u2
  u3 = u3
  t1 = t1
  t2 = t2
  a1 = a1
  Tags = {t1, t2}
  BadTag = BadTag
  Annotations = {a1}
  Udas <- QueryUdas
  Absent = Absent
  NoTask = NoTask
  Ids = {u1, u2}
  Dtos <- QueryDtos
  Maps <- NoInput
  Foreign <- NoInput
  Files <- NoInput
  Edits = {}
  MaxImports = 0
  Filters <- OneDate
  Depth <- MCDepth
  Instant <- MCInstant
  Month <- MCMonth
  Clock <- OneClock
  Numbers = {1, 2}
  NaN = NaN
  Number <- MCNumber
  Rank <- MCRank
  Spells <- MCSpells
  SortLists <- MCSortLists
SPECIFICATION WriteSpec
INVARIANT DateFilterFinds
CHECK_DEADLOCK FALSE
