SPECIFICATION Spec
CONSTANTS
  a = a
  Users <- OneUser
  Stages <- FourStages
  Default = 72
  Serial = TRUE
  ReqFlags <- Requests
  MaxEvents = 4
  MaxTimers = 4
  MaxStops = 0
INVARIANTS PeriodMatchesTimer NoneReachesListeners FirstPeriodAfterChange
PROPERTY StageAdvance
