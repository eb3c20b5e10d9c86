CONSTANTS
  RequestIds = {r1}
  Handlers = {h1}
  Staff = {s1}
  Registrar = registrar
  Student = student
  None = None
  Legacy = {"accepted", "rejected"}
  SlaHours = 2
  WarnBefore = 2
  Batch = 1
  MaxFiles = 0
  MaxTime = 4
  MaxOps = 4
  MaxHold = 0
SPECIFICATION Spec
INVARIANTS
  PausedIffReturned
  MarkersMatchDeadline
PROPERTIES
  ClosedIsFinal
  ImplementsLifecycle
CHECK_DEADLOCK FALSE
