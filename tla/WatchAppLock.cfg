SPECIFICATION LiveSpec
CONSTANTS
  app1 = app1
  app2 = app2
  Apps = {app1, app2}
  MAX_RETRIES = 2
  MaxEvents = 5
  MaxFails = 2
CHECK_DEADLOCK FALSE
INVARIANTS HiddenRelocked WearOffEndsUnlock SettingOffEndsUnlock RegistrationHeld
PROPERTY UnlockReturns
