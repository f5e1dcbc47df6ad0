CONSTANTS
  Requests = {r1, r2}
  FreshIds = 4
  Ids <- MCIds
  Existing <- MCExisting
  Vals = {a, b}
  NoContent = NoContent
  MaxBatch = 2
  Malformed = Malformed
  Routes = {"Aggregate", "GetMany", "GetOne", "CreateOne", "CreateMany", "DuplicateOne", "DuplicateMany", "UpdateOne", "UpdateMany", "ReplaceOne", "DeleteOne", "DeleteMany"}
  Soft = FALSE
  Unique = TRUE
  BeforeHooks = {"CreateOne", "CreateMany", "DuplicateOne", "DuplicateMany", "ReplaceOne", "UpdateMany"}
  Callbacks = {"CreateOne", "UpdateOne", "UpdateMany", "GetOne", "DeleteOne", "DeleteMany"}
  Faults = {"after", "db", "before"}
  Rejections = {"error", "duplicateKey", "CastError", "ValidationError", "forbidden"}
SYMMETRY Symmetry
SPECIFICATION Spec
INVARIANTS HiddenWriteExplained FailureExplained
