\* Three callers race for a path nobody has opened; clear may be called.
CONSTANTS
  Callers = {c1, c2, c3}
  Paths = {p1}
  Handles = {h1, h2, h3, h4}
  Tags = {t1}
  Warm = {}
  MayClear = TRUE
  NoHandle = NoHandle
  NoCall = NoCall
SPECIFICATION Spec
SYMMETRY Symmetry
INVARIANTS TypeOK HandleExclusive
PROPERTY EntryKept
