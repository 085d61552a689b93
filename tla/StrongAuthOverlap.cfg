SPECIFICATION Spec
CONSTANTS
  a = a
  Users <- OneUser
  Stages <- TwoStages
  Default = 3
  Serial = FALSE
  ReqFlags <- NoRequests
  MaxEvents = 4
  MaxTimers = 4
  MaxStops = 0
INVARIANT FirstPeriodAfterChange
