SPECIFICATION Spec
CONSTANTS
  Employees = {1, 2, 3}
  StudentIds = {s1, s2}
  FacultyIds = {1, 2, 3}
  FacultyNames = {n1, n2}
  GroupIds = {1, 2, 3}
  GroupNames = {g1, g2}
  Departments = {d1}
  Stem <- MCStem
  Staffing <- MCStaffing
  EmployeeChanges <- MCEmployeeChanges
  FacultyRows <- MCFacultyRows
  None = None
  MaxCalls <- MCMaxCalls
  Cats = {c1, c2, c3, c4}
  Files = {f1, f2, f3, f4}
  Editors = {1, 2}
  NewCategories <- MCNewCategories
  Payloads <- MCPayloads
  MaxAnswerFiles = 1
  Clients = {p1}
  Scopes = {w}
  ClientCalls = {1, 2}
  Filers = {1, 2}
  Catalogs <- MCCatalogs
  Profiles <- MCProfiles
  Earlier <- MCEarlier
  WriteScope = w
  c1 = c1
  c2 = c2
  c3 = c3
  c4 = c4
  d1 = d1
  n1 = n1
  n2 = n2
  g1 = g1
  g2 = g2
  s1 = s1
  s2 = s2
  w = w
INVARIANTS
  TwinsBounded
  TwoLevels
  OwnedOrAnswered
  AnswerFiles
  TokenOfCurrentSecret
  Balanced
CHECK_DEADLOCK FALSE
