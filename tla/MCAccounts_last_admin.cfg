CONSTANTS
  Users = {u1, u2}
  Roles = {"admin", "staff"}
  Secrets = {s1}
  Handlers = {h1, h2}
  None = None
  Drift = 1
  BurnSteps = 4
  Lockout = 1
  IpBudget = 2
  MaxStep = 1
  MaxCalls = 2
SPECIFICATION Spec
INVARIANT
  AlwaysAnAdmin
CHECK_DEADLOCK FALSE
