CONSTANTS
  package = package
  newcomer = newcomer
  Subs <- Crowd
  ActivatedAt <- CrowdActivated
  Models = {"V1"}
  NextDayStarters = {newcomer}
  Goal = 2
  DayLength = 3
  SlotAt <- MCSlotAt
  Results <- MCResults
  Plan <- MCPlan
  DailyNet <- MCDailyNet
  UserShare = 60
  Legacy = {}
  Calendars <- EveryDay
  Abroad <- AtHome
  BatchLimit = 1
  MaxTime = 9
SPECIFICATION PromptSpec
CHECK_DEADLOCK FALSE
INVARIANT NoDayIsLost
