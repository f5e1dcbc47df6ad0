SPECIFICATION FairSpec
CONSTANTS
  Requests = {r1, r2}
  Logins = {l1}
  Passwords = {p1, p2}
  Original = Original
  None = None
  Ops = {"login", "register", "refresh", "logout", "getAccount", "updateAccount", "resetPassword", "changePassword"}
  Hooks = {"register", "beforeRegister", "login", "getAccount", "updateAccount", "beforeUpdateAccount", "beforeChangePassword", "changePassword"}
  Predicates = {"login", "changePassword"}
  TokenField = TRUE
  SharedSecret = FALSE
  Removal = TRUE
  Faults = {"db", "hook"}
  Rejections = {"error", "duplicateKey", "ValidationError", "forbidden"}
INVARIANTS
  TokenOfAccount
  RegisterExplained
  ChangeExplained
PROPERTIES
  EveryRequestServed
