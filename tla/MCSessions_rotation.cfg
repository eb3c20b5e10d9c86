CONSTANTS
  Handlers = {h1, h2}
  Links = {l1}
  None = None
  Idle = 2
  Access = 1
  MaxTokens = 3
  MaxCalls = 3
  MaxWrites = 2
SPECIFICATION Spec
SYMMETRY Interchangeable
INVARIANTS
  OldSessionsEnd
  UsedLinkIsDead
  CookieWorks
  OverStaysOver
PROPERTIES
  NothingForInactive
CHECK_DEADLOCK FALSE
