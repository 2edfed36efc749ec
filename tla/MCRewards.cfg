CONSTANTS
  legacy = legacy
  trading = trading
  Subs <- MCSubs
  Authority <- MCAuthority
  ActivatedAt <- MCActivatedAt
  Price <- MCPrice
  CapLimit <- MCCapLimit
  Calculated <- MCCalculated
  Executable = {legacy}
  GoalDays = 3
  DayLength = 1
  BatchLimit = 1
  CatchupLimit = 2
  Windows <- MCWindows
  MaxPolicies = 2
  MaxTime = 4
  MaxCrashes = 1
SPECIFICATION FairRewardSpec
CHECK_DEADLOCK FALSE
INVARIANTS
  EachDayOnce
  CapAndTermAreKept
PROPERTIES
  RewardsArrive
