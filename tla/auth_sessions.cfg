SPECIFICATION Spec
CONSTANTS
  Requests = {r1, r2, r3, r4}
  Logins = {l1}
  Passwords = {p1, p2}
  Original = Original
  None = None
  Ops = {"login", "refresh", "logout", "resetPassword", "changePassword"}
  Hooks = {"login"}
  Predicates = {}
  TokenField = TRUE
  SharedSecret = TRUE
  Removal = FALSE
  Faults = {"db"}
  Rejections = {"error"}
SYMMETRY Symmetry
INVARIANTS
  TypeOK
  SupersededRefused
  LogoutRevokes
  PasswordChecked
