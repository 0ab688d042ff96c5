\* Every path is open: the calls go through one handle per path.
CONSTANTS
  Callers = {c1, c2, c3}
  Paths = {p1}
  Handles = {h1, h2}
  Tags = {t1}
  Warm = {p1}
  MayClear = FALSE
  NoHandle = NoHandle
  NoCall = NoCall
SPECIFICATION Spec
PROPERTY SerialSpec
