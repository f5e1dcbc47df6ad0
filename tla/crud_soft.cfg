CONSTANTS
  Requests = {r1, r2}
  FreshIds = 4
  Ids <- MCIds
  Existing <- MCExisting
  Vals = {a, b}
  NoContent = NoContent
  MaxBatch = 2
  Malformed = Malformed
  Routes = {"Aggregate", "GetMany", "GetOne", "CreateOne", "CreateMany", "DuplicateOne", "DuplicateMany", "UpdateOne", "UpdateMany", "ReplaceOne", "DeleteOne", "DeleteMany"}
  Soft = TRUE
  Unique = TRUE
  BeforeHooks = {"UpdateOne"}
  Callbacks = {"DeleteOne", "DeleteMany"}
  Faults = {"after", "db", "before"}
  Rejections = {"error"}
SYMMETRY Symmetry
SPECIFICATION Spec
INVARIANTS TypeOK DeletedOnce CountReported
PROPERTIES QuietAfterAnswer ImplementsLifecycle
