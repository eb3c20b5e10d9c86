CONSTANTS
  RequestIds = {r1}
  Handlers = {h1, h2}
  Staff = {s1}
  Registrar = registrar
  Student = student
  None = None
  Legacy = {}
  SlaHours = 1
  WarnBefore = 1
  Batch = 1
  MaxFiles = 1
  MaxTime = 1
  MaxOps = 2
  MaxHold = 0
SPECIFICATION Spec
PROPERTY
  AnswerIsFinal
CHECK_DEADLOCK FALSE
