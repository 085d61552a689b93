SPECIFICATION Spec
CONSTANTS
  a = a
  b = b
  r1 = r1
  r2 = r2
  Users = {a, b}
  UnlockReqs = {r1}
  LockReqs = {}
  Owner <- MCOwnerOne
  AppThreads = {t1}
  UnlockMayFail = TRUE
  MaxTasks = 1
  MaxInbox = 1
  MaxRestarts = 1
  MaxDeaths = 1
INVARIANTS PublishedAgrees CalledAtMostOnce
PROPERTIES SuccessNeedsUnlock KeepsPromise
