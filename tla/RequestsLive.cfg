SPECIFICATION FairSpec
CONSTANTS
  a = a
  b = b
  r1 = r1
  r2 = r2
  Users = {a}
  UnlockReqs = {r1, r2}
  LockReqs = {l1}
  Owner <- MCOwnerSame
  AppThreads = {t1}
  UnlockMayFail = FALSE
  MaxTasks = 1
  MaxInbox = 0
  MaxRestarts = 0
  MaxDeaths = 0
PROPERTIES UnlockAnswered LockAnswered
