SPECIFICATION FairSpec
CONSTANTS
  Requests = {r1, r2}
  Logins = {l1}
  Passwords = {p1}
  Original = Original
  None = None
  Ops = {"login", "refresh"}
  Hooks = {}
  Predicates = {}
  TokenField = TRUE
  SharedSecret = FALSE
  Removal = FALSE
  Faults = {}
  Rejections = {}
INVARIANTS
  RotationRevokes
