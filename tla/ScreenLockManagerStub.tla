------------------------ MODULE ScreenLockManagerStub ------------------------
(***************************************************************************)
(* ScreenLockManagerStub: how the service reads the request of a caller c   *)
(* in state s, which function it calls, and the reply it writes.  A handler *)
(* yields [reply, store].                                                  *)
(***************************************************************************)
EXTENDS ScreenLockCommon, Sequences

Service == INSTANCE ScreenLockService
Parcel == INSTANCE ScreenLockManagerProxy

WriteCode(r) == [reply |-> <<r.code>>, store |-> r.store]
WriteBoth(r) == [reply |-> <<r.code, r.value>>, store |-> r.store]

Mut_WriteAlways(r) == [reply |-> <<r.value, r.code>>, store |-> r.store]

\* The value follows only when there is one.
WriteValueIfOk(r) == IF r.code = E_SCREENLOCK.OK THEN WriteBoth(r) ELSE WriteCode(r)

\* Without a remote object nothing is written.
NoReply(s) == [reply |-> <<>>, store |-> s]

-----------------------------------------------------------------------------

OnIsLocked(c, s, data) == WriteValueIfOk(Service!IsLocked(c, s))
OnIsScreenLocked(c, s, data) == [reply |-> <<Service!IsScreenLocked(c, s)>>, store |-> s]
OnGetSecure(c, s, data) == [reply |-> <<Service!GetSecure(c, s)>>, store |-> s]

OnUnlock(c, s, data) ==
  IF Parcel!Read(data, 1) = Parcel!NoListener THEN NoReply(s)
  ELSE WriteCode(Service!Unlock(c, s, data[1]))

OnUnlockScreen(c, s, data) ==
  IF Parcel!Read(data, 1) = Parcel!NoListener THEN NoReply(s)
  ELSE WriteCode(Service!UnlockScreen(c, s, data[1]))

OnLock(c, s, data) ==
  IF Parcel!Read(data, 1) = Parcel!NoListener THEN NoReply(s)
  ELSE WriteCode(Service!Lock(c, s, data[1]))

OnScreenLockOn(c, s, data) ==
  IF Parcel!Read(data, 1) = Parcel!NoListener THEN NoReply(s)
  ELSE WriteCode(Service!OnSystemEvent(c, s))

\* The parameter is read for the events that have one.
OnSendScreenLockEvent(c, s, data) ==
  LET event == data[1]
      known == event \in {"unlockScreenResult", "lockScreenResult", "screenDrawDone"} IN
  IF known /\ Len(data) < 2 THEN [reply |-> <<E_SCREENLOCK.READ_PARCEL_ERROR>>, store |-> s]
  ELSE WriteCode(Service!SendScreenLockEvent(c, s, event, IF known THEN data[2] ELSE 0))

OnIsScreenLockDisabled(c, s, data) ==
  WriteValueIfOk(Service!IsScreenLockDisabled(c, s, Parcel!Read(data, 1)))

OnSetScreenLockDisabled(c, s, data) ==
  WriteCode(Service!SetScreenLockDisabled(c, s, Parcel!Read(data, 1), Parcel!Read(data, 2)))

Mut_UserFirst(c, s, data) ==
  WriteCode(Service!SetScreenLockAuthState(c, s, data[2], data[1], data[3]))

OnSetScreenLockAuthState(c, s, data) ==
  IF Len(data) < 3 THEN [reply |-> <<E_SCREENLOCK.READ_PARCEL_ERROR>>, store |-> s]
  ELSE WriteCode(Service!SetScreenLockAuthState(c, s, data[1], data[2], data[3]))

OnGetScreenLockAuthState(c, s, data) ==
  WriteBoth(Service!GetScreenLockAuthState(c, s, Parcel!Read(data, 1)))

OnRequestStrongAuth(c, s, data) ==
  WriteCode(Service!RequestStrongAuth(c, s, Parcel!Read(data, 1), Parcel!Read(data, 2)))

OnGetStrongAuth(c, s, data) == WriteBoth(Service!GetStrongAuth(c, s, Parcel!Read(data, 1)))
OnLockScreen(c, s, data) == WriteCode(Service!LockScreen(c, s, Parcel!Read(data, 1)))
OnIsDeviceLocked(c, s, data) == WriteBoth(Service!IsDeviceLocked(c, s, Parcel!Read(data, 1)))

OnIsLockedWithUserId(c, s, data) ==
  WriteBoth(Service!IsLockedWithUserId(c, s, Parcel!Read(data, 1)))

OnSetUnlockPolicy(c, s, data) ==
  WriteCode(Service!SetUnlockPolicy(c, s, Parcel!Read(data, 1), Parcel!Read(data, 2)))

OnGetUnlockPolicy(c, s, data) == WriteBoth(Service!GetUnlockPolicy(c, s, Parcel!Read(data, 1)))

OnIsLockedWatch(c, s, data) == WriteValueIfOk(Service!IsLockedWatch(c, s))
OnUnlockWatch(c, s, data) ==
  IF Parcel!Read(data, 1) = Parcel!NoListener THEN NoReply(s)
  ELSE WriteCode(Service!UnlockWatch(c, s, data[1]))

\* InitHandleMap and OnRemoteRequest.
OnRemoteRequest(code, c, s, data) ==
  CASE code = "IS_LOCKED"                -> OnIsLocked(c, s, data)
    [] code = "IS_SCREEN_LOCKED"         -> OnIsScreenLocked(c, s, data)
    [] code = "IS_SECURE_MODE"           -> OnGetSecure(c, s, data)
    [] code = "UNLOCK"                   -> OnUnlock(c, s, data)
    [] code = "UNLOCK_SCREEN"            -> OnUnlockScreen(c, s, data)
    [] code = "LOCK"                     -> OnLock(c, s, data)
    [] code = "SEND_SCREENLOCK_EVENT"    -> OnSendScreenLockEvent(c, s, data)
    [] code = "ONSYSTEMEVENT"            -> OnScreenLockOn(c, s, data)
    [] code = "LOCK_SCREEN"              -> OnLockScreen(c, s, data)
    [] code = "IS_SCREENLOCK_DISABLED"   -> OnIsScreenLockDisabled(c, s, data)
    [] code = "SET_SCREENLOCK_DISABLED"  -> OnSetScreenLockDisabled(c, s, data)
    [] code = "SET_SCREENLOCK_AUTHSTATE" -> OnSetScreenLockAuthState(c, s, data)
    [] code = "GET_SCREENLOCK_AUTHSTATE" -> OnGetScreenLockAuthState(c, s, data)
    [] code = "REQUEST_STRONG_AUTHSTATE" -> OnRequestStrongAuth(c, s, data)
    [] code = "GET_STRONG_AUTHSTATE"     -> OnGetStrongAuth(c, s, data)
    [] code = "IS_DEVICE_LOCKED"         -> OnIsDeviceLocked(c, s, data)
    [] code = "IS_USER_SCREEN_LOCKED"    -> OnIsLockedWithUserId(c, s, data)
    [] code = "SET_UNLOCK_POLICY"        -> OnSetUnlockPolicy(c, s, data)
    [] code = "GET_UNLOCK_POLICY"        -> OnGetUnlockPolicy(c, s, data)
    [] code = "IS_LOCKED_WATCH"          -> OnIsLockedWatch(c, s, data)
    [] code = "UNLOCK_WATCH"             -> OnUnlockWatch(c, s, data)
=============================================================================
