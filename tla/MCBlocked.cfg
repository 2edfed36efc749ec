CONSTANTS
  package = package
  newcomer = newcomer
  Subs <- Crowd
  ActivatedAt <- CrowdActivated
  Models = {"V1", "V2"}
  NextDayStarters = {}
  Goal = 2
  DayLength = 3
  SlotAt <- MCSlotAt
  Results <- MCResults
  Plan <- MCPlan
  DailyNet <- MCDailyNet
  UserShare = 60
  Legacy = {}
  Calendars <- EveryDay
  Abroad <- AllAbroad
  BatchLimit = 2
  MaxTime = 9
SPECIFICATION PromptSpec
CHECK_DEADLOCK FALSE
INVARIANT NoDayIsLost
