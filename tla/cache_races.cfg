SPECIFICATION Spec
CONSTANTS
  Requests = {r1, r2, r3}
  Urls = {u1, u2}
  NotCached = {u2}
  Layers = 2
  MaxCommits = 2
  None = None
SYMMETRY Symmetry
INVARIANTS
  TypeOK
  UncachedFresh
  StaleReadExplained
