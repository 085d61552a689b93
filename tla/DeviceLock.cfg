SPECIFICATION MCSpec
CONSTANTS
  app1 = app1
  app2 = app2
  lis1 = lis1
  lis2 = lis2
  lis3 = lis3
  Procs <- Procs_
  Listeners <- Listeners_
  Owner <- Owner_
  TypeOf <- TypeOf_
  UserOf <- UserOf_
  CallingUser <- CallingUser_
  MaxWrappers = 2
  MaxDeaths = 1
  MaxRestarts = 1
  Users = {0}
  Setters = {1, 2}
  MaxSets = 3
CHECK_DEADLOCK FALSE
INVARIANTS Watched MapsAgree DeviceTypeOK ViewCurrent Alternate
PROPERTY DeadForgotten
