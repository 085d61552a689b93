SPECIFICATION LiveSpec
CONSTANTS
  app1 = app1
  app2 = app2
  Apps = {app1}
  UserOf <- UserOf_
  MaxTries = 3
  MAX_RETRY_TIMES = 2
  MaxFails = 1
  MaxStops = 0
CHECK_DEADLOCK FALSE
PROPERTY ReadyReported
