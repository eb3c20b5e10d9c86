CONSTANTS
  u1 = u1
  For <- OneForU1
  Users = {u1}
  Notes = {n1}
  None = None
  Workers = {w1}
  Writers = {h1}
  Tabs = {c1}
  Sockets = {s1, s2}
  MaxFaults = 1
SPECIFICATION FairSpec
INVARIANTS
  SettledTabIsCurrent
PROPERTIES
  
  BadgeCatchesUp
  SocketComesBack
CHECK_DEADLOCK FALSE
