SPECIFICATION LiveSpec
CONSTANTS
  app1 = app1
  app2 = app2
  Apps = {app1, app2}
  UserOf <- UserOf_
  MaxTries = 3
  MAX_RETRY_TIMES = 2
  MaxFails = 4
  MaxStops = 1
CHECK_DEADLOCK FALSE
INVARIANTS CurrentUserOfListener AttemptsBounded 
PROPERTY ReadyTold
