\* Three callers, a path nobody has opened, calls under weak fairness.
CONSTANTS
  Callers = {c1, c2, c3}
  Paths = {p1}
  Handles = {h1, h2, h3, h4}
  Tags = {}
  Warm = {}
  MayClear = FALSE
  NoHandle = NoHandle
  NoCall = NoCall
SPECIFICATION FairSpec
INVARIANT LoserPrivate
PROPERTIES HandlesConverge CallsReturn
