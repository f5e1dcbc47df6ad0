\* Two features, three calls of forRoot, two of getEntityModel.
SPECIFICATION FairSpec
CONSTANTS
  None = None
  f1 = f1
  f2 = f2
  c1 = c1
  c2 = c2
  db1 = db1
  db2 = db2
  Segments = {"a", "many", ":id"}
  Versions = {"1", "x"}
  ValidVersions = {"1"}
  Features = {f1, f2}
  FeatureOptions <- MCFeatureOptions
  RootOptions <- MCRootOptions
  Callers = {c1, c2}
  Entities = {"Item", "User"}
  Uris = {db1, db2}
INVARIANTS
  TypeOK
  NobodyWaits
  SelectionExplained
  ShadowExplained
  BuiltAlike
  RefusalExplained
  StrayExplained
PROPERTY EveryFeatureSettles
