CONSTANTS
  Clients = {c1, c2}
  Web = web
  Keys = {k1}
  Calls = {h1, h2}
  None = None
  Base = 2
  Width = 2
  FirstNumbers = {0, 4}
  MaxFailures = 1
  MaxLosses = 1
SPECIFICATION FairSpec
INVARIANTS
  OneRequestPerKey
PROPERTIES
  EveryKeySettles
CHECK_DEADLOCK FALSE
