SPECIFICATION Spec
CONSTANTS
  r1 = r1
  r2 = r2
  r3 = r3
  s1 = s1
  u1 = u1
  u2 = u2
  None = None
  Absent = Absent
  Invalid = Invalid
  Unread = Unread
  Requests = {r1, r2, r3}
  Sockets = {s1}
  Users = {u1, u2}
  Handshakes <- MCHandshakes
  Hooked = {s1}
  Kinds = {"getAccount", "updateAccount", "login", "register", "logout", "route"}
  Judged = {"updateAccount", "login"}
  Trusted = {u1}
  Broadcasting = {"getAccount", "updateAccount", "login", "register", "route", "publicRoute"}
  Fields = TRUE
  RegisterProtected = TRUE
  ResetConfigured = TRUE
INVARIANTS
  TypeOK
  ServedExplained
  ToldExplained
  SessionIsOwn
  UpdateJudged
  NobodyExplained
SYMMETRY Symmetry
