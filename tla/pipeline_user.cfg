\* Two concurrent requests of two users over one guarded route.
SPECIFICATION Spec
CONSTANTS
  r1 = r1
  r2 = r2
  u1 = u1
  u2 = u2
  s1 = s1
  NoUser = NoUser
  Http = Http
  Lobby = Lobby
  Requests = {r1, r2}
  Docs = {1, 2}
  Existing = {1, 2}
  Users = {u1, u2}
  Sockets = {s1}
  SocketUser <- MCSocketUser
  Rooms = {Lobby}
  MaxBatch = 1
  MaxMoves = 0
  Routes = {"UpdateOne"}
  Public = {}
  Predicates = {"UpdateOne", "DeleteOne"}
  Audiences <- MCAudiences
  Filtered = {}
INVARIANTS
  JudgedForItsUser
