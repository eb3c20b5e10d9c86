CONSTANTS
  RequestIds = {r1}
  Handlers = {h1, h2}
  Staff = {s1}
  Registrar = registrar
  Student = student
  None = None
  Legacy = {"accepted"}
  SlaHours = 1
  WarnBefore = 1
  Batch = 1
  MaxFiles = 1
  MaxTime = 2
  MaxOps = 3
  MaxHold = 1
SYMMETRY Interchangeable
SPECIFICATION Spec
INVARIANTS
  TypeOK
  CompletedIsAnswered
  HistoryTellsStatus
  StatusEventsTellStatus
CHECK_DEADLOCK FALSE
