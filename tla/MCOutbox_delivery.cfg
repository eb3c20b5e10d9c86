CONSTANTS
  Messages = {1, 2}
  Webhooks = {1}
  Workers = {w1, w2}
  None = None
  BatchSize = 2
  MaxAttempts = 2
  LockTtl = 1
  Minute = 1
  MaxCrashes = 1
SPECIFICATION FairSpec
INVARIANTS
  HeldByOne
  SentWasAccepted
  FailedAfterAllAttempts
PROPERTIES
  SettledIsFinal
  EverythingSettles
