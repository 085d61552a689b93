SPECIFICATION Spec
CONSTANTS
  a = a
  Users <- OneUser
  Stages <- OneStage
  Default = 2
  Serial = TRUE
  ReqFlags <- ActiveRequest
  MaxEvents = 2
  MaxTimers = 2
  MaxStops = 0
INVARIANT AfterBootPriority
