CONSTANTS
  RequestIds = {r1, r2}
  Handlers = {h1}
  Staff = {s1}
  Registrar = registrar
  Student = student
  None = None
  Legacy = {}
  SlaHours = 1
  WarnBefore = 1
  Batch = 1
  MaxFiles = 0
  MaxTime = 3
  MaxOps = 1
  MaxHold = 0
SPECIFICATION FairSpec
PROPERTY
  OverdueIsNoticed
CHECK_DEADLOCK FALSE
