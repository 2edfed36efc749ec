CONSTANTS
  package = package
  newcomer = newcomer
  Subs <- OnePackage
  ActivatedAt <- OneActivated
  Models = {"V2"}
  NextDayStarters = {}
  Goal = 2
  DayLength = 3
  SlotAt <- MCSlotAt
  Results <- MCResults
  Plan <- MCPlan
  DailyNet <- MCDailyNet
  UserShare = 60
  Legacy = {}
  Calendars <- MCCalendars
  Abroad <- AtHome
  BatchLimit = 2
  MaxTime = 9
SPECIFICATION TradingSpec
CHECK_DEADLOCK FALSE
INVARIANT
  PlansAreFollowed
