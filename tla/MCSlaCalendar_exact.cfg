CONSTANTS
  DayLength = 3
  Offset = 1
  WorkWeeks <- Weeks
  HolidayDays = {0, 3, 4, 7}
  Starts <- Week
  SlaHours <- Working
  LastMoment = 18
  MaxRounds = 14
SPECIFICATION FairSpec
INVARIANTS
  DeadlineIsExact
  RemainderIsExact
PROPERTIES
  ReturnCostsNothing
  LoopsEnd
CHECK_DEADLOCK FALSE
