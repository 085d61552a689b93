SPECIFICATION LiveSpec
CONSTANTS
  a = a
  Users <- OneUser
  Stages <- OneStage
  Default = 2
  Serial = FALSE
  ReqFlags <- Requests
  MaxEvents = 3
  MaxTimers = 3
  MaxStops = 1
INVARIANTS  QuietMeansArmed
PROPERTIES AfterBootSticky TimeoutDemands
