SPECIFICATION Spec
CONSTANTS
  DefaultCycle = 3
  PlayoffCycle = 5
  PracticeCycle = 4
  DefaultBuffer = 2
  BreakGap = 4
  NoPractice = NoPractice
  DayLength = 40
  OpenTime = 4
  CloseTime = 30
  NoonFrom = 8
  NoonTo = 10
  LiveCycle = 4
  LiveBuffer = 3
  OldPlans <- MCOldPlans
  Typed <- MCTyped
  DayPlanFiles <- MCDayPlanFiles
  MatchFiles <- MCMatchFiles
  MaxSaves = 2
  MaxRuns = 2
  Traffic = TRUE
  NoPlan = NoPlan
  Matches = 8
INVARIANTS TypeOK SavesAreKept V1ViewIsFaithful QualsStopForPlayoffs ClocksHoldTheMatches
CHECK_DEADLOCK FALSE
