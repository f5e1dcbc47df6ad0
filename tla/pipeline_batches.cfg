\* Two concurrent requests over two documents each; clients join and leave rooms.
SPECIFICATION Spec
CONSTANTS
  r1 = r1
  r2 = r2
  u1 = u1
  u2 = u2
  s1 = s1
  NoUser = NoUser
  Http = Http
  Lobby = Lobby
  Requests = {r1, r2}
  Docs = {1, 2}
  Existing = {1, 2}
  Users = {u1, u2}
  Sockets = {s1}
  SocketUser <- MCSocketUser
  Rooms = {u1}
  MaxBatch = 2
  MaxMoves = 1
  Routes = {"UpdateMany", "DeleteMany"}
  Public = {}
  Predicates = {}
  Audiences <- MCAudiences
  Filtered = {}
INVARIANTS
  HeardWasTrue
  ViewCurrent
SYMMETRY Symmetry
