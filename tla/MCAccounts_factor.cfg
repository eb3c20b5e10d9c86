CONSTANTS
  Users = {u1, u2}
  Roles = {"admin", "staff"}
  Secrets = {s1, s2}
  Handlers = {h1, h2}
  None = None
  Drift = 1
  BurnSteps = 4
  Lockout = 1
  IpBudget = 2
  MaxStep = 3
  MaxCalls = 3
SPECIFICATION Spec
SYMMETRY Interchangeable
INVARIANTS
  CodeUsedOnce
  EnabledIsProven
  LockoutHolds
  AdminRemains
CHECK_DEADLOCK FALSE
