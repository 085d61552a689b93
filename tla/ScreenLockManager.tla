-------------------------- MODULE ScreenLockManager --------------------------
(***************************************************************************)
(* The functions of the client library ScreenLockManager: the request each  *)
(* makes of the proxy, and what it returns when there is no proxy.  How the *)
(* proxy is had is in ClientProxy.                                         *)
(***************************************************************************)
EXTENDS ScreenLockCommon

Proxy == INSTANCE ScreenLockManagerProxy

Without(code, request) == [request |-> request, absent |-> [code |-> code, value |-> 0]]
Ask(request) == Without(E_SCREENLOCK.NULLPTR, request)

IsLocked == Without(E_SCREENLOCK.SENDREQUEST_FAILED, Proxy!IsLocked)
\* false without a proxy.
IsScreenLocked == Without(E_SCREENLOCK.OK, Proxy!IsScreenLocked)
GetSecure == Without(E_SCREENLOCK.OK, Proxy!GetSecure)

IsLockedWithUserId(userId) == Ask(Proxy!IsLockedWithUserId(userId))
IsScreenLockDisabled(userId) == Ask(Proxy!IsScreenLockDisabled(userId))
GetScreenLockAuthState(userId) == Ask(Proxy!GetScreenLockAuthState(userId))
GetStrongAuth(userId) == Ask(Proxy!GetStrongAuth(userId))
IsDeviceLocked(userId) == Ask(Proxy!IsDeviceLocked(userId))
GetUnlockPolicy(userId) == Ask(Proxy!GetUnlockPolicy(userId))
IsLockedWatch == Ask(Proxy!IsLockedWatch)

Unlock(action, listener) ==
  Ask(IF action = "UNLOCKSCREEN" THEN Proxy!UnlockScreen(listener) ELSE Proxy!Unlock(listener))
Lock(listener) == Ask(Proxy!Lock(listener))
LockUser(userId) == Ask(Proxy!LockUser(userId))
UnlockWatch(listener) == Ask(Proxy!UnlockWatch(listener))
OnSystemEvent(listener) == Ask(Proxy!OnSystemEvent(listener))
SendScreenLockEvent(event, param) == Ask(Proxy!SendScreenLockEvent(event, param))
SetScreenLockDisabled(disable, userId) == Ask(Proxy!SetScreenLockDisabled(disable, userId))
SetScreenLockAuthState(authState, userId, authToken) ==
  Ask(Proxy!SetScreenLockAuthState(authState, userId, authToken))
RequestStrongAuth(reasonFlag, userId) == Ask(Proxy!RequestStrongAuth(reasonFlag, userId))
SetUnlockPolicy(userId, policy) == Ask(Proxy!SetUnlockPolicy(userId, policy))
=============================================================================
