\* Two concurrent requests over any of the twelve routes, over HTTP or from a socket.
SPECIFICATION Spec
CONSTANTS
  r1 = r1
  r2 = r2
  u1 = u1
  u2 = u2
  s1 = s1
  NoUser = NoUser
  Http = Http
  Lobby = Lobby
  Requests = {r1, r2}
  Docs = {1, 2}
  Existing = {1}
  Users = {u1, u2}
  Sockets = {s1}
  SocketUser <- MCSocketUser
  Rooms = {Lobby}
  MaxBatch = 1
  MaxMoves = 0
  Routes = {"Aggregate", "GetMany", "GetOne", "CreateOne", "CreateMany", "DuplicateOne",
            "DuplicateMany", "UpdateOne", "UpdateMany", "ReplaceOne", "DeleteOne", "DeleteMany"}
  Public = {"UpdateOne"}
  Predicates = {"UpdateOne", "DeleteOne"}
  Audiences <- MCAudiences
  Filtered = {"ReplaceOne"}
INVARIANTS
  TypeOK
  JudgedInCompany
  JudgedIsWritten
  EmptyInputWritesNothing
  ViewCurrent
SYMMETRY Symmetry
