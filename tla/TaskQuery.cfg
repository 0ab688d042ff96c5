\* Two tasks in every form that programs, syncs and deletions leave them in,
\* queried at instants from the day they were entered to a year after their dates.
CONSTANTS
  u1 = u1
  u2 = u2
  u3 = u3
  t1 = t1
  t2 = t2
  a1 = a1
  Tags = {t1, t2}
  BadTag = BadTag
  Annotations = {a1}
  Udas <- QueryUdas
  Absent = Absent
  NoTask = NoTask
  Ids = {u1, u2}
  Dtos <- QueryDtos
  Maps <- QueryMaps
  Foreign <- QueryForeign
  Files <- NoInput
  Edits = {}
  MaxImports = 0
  Filters <- MCFilters
  Depth <- MCDepth
  Instant <- MCInstant
  Month <- MCMonth
  Clock <- MCClock
  Numbers = {1, 2}
  NaN = NaN
  Number <- MCNumber
  Rank <- MCRank
  Spells <- MCSpells
  SortLists <- MCSortLists
SPECIFICATION WriteSpec
INVARIANTS AnswerComplete AlikeAnsweredAlike ListedIsFound VirtualTagsAgree ShownDecides
  CalendarNests AnswerBracketed UrgencyCutsList SeenTagsListed ListingsRefine
  StatsMatchFilters BackupRestores
CHECK_DEADLOCK FALSE
