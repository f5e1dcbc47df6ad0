SPECIFICATION Spec
CONSTANTS
  Requests = {r1, r2, r3}
  Urls = {u1}
  NotCached = {}
  Layers = 1
  MaxCommits = 1
  None = None
SYMMETRY Symmetry
INVARIANTS
  AlwaysLatest
