----------------------- MODULE ScreenLockManagerProxy -----------------------
(***************************************************************************)
(* ScreenLockManagerProxy: the request each function sends, and how it      *)
(* reads the reply.  A parcel is the sequence of what was written to it.    *)
(***************************************************************************)
EXTENDS ScreenLockCommon, Sequences

\* Reading past the end of a parcel yields 0.
Read(parcel, i) == IF i \in DOMAIN parcel THEN parcel[i] ELSE 0

\* A request, and the part of the reply the function reads.
Request(command, data, reads) == [command |-> command, data |-> data, reads |-> reads]

\* A call without a listener is not sent.
NoListener == 0
NotSent == [command |-> "NONE", data |-> <<>>, reads |-> "code"]
WithListener(listener, request) == IF listener = NoListener THEN NotSent ELSE request

\* What the function returns when the request is not sent, or fails: one that
\* returns a bool says false.
Failed(request) ==
  [code |-> CASE request.command = "NONE" -> E_SCREENLOCK.NULLPTR
              [] request.reads = "bool"   -> E_SCREENLOCK.OK
              [] OTHER                    -> E_SCREENLOCK.SENDREQUEST_FAILED,
   value |-> 0]

\* What it makes of a reply.
Result(request, reply) ==
  LET code == Read(reply, 1) IN
  CASE request.reads = "bool"     -> [code |-> E_SCREENLOCK.OK, value |-> Read(reply, 1)]
    [] request.reads = "code"     -> [code |-> code, value |-> 0]
    [] request.reads = "both"     -> [code |-> code, value |-> Read(reply, 2)]
    [] request.reads = "value_ok" ->
         [code |-> code, value |-> IF code = E_SCREENLOCK.OK THEN Read(reply, 2) ELSE 0]
    [] request.reads = "checked"  ->
         IF reply = <<>> THEN [code |-> E_SCREENLOCK.READ_PARCEL_ERROR, value |-> 0]
         ELSE [code |-> code, value |-> Read(reply, 2)]

-----------------------------------------------------------------------------

IsLocked == Request("IS_LOCKED", <<>>, "value_ok")
IsScreenLocked == Request("IS_SCREEN_LOCKED", <<>>, "bool")
IsLockedWithUserId(userId) == Request("IS_USER_SCREEN_LOCKED", <<userId>>, "both")
GetSecure == Request("IS_SECURE_MODE", <<>>, "bool")

UnlockInner(command, listener) == WithListener(listener, Request(command, <<listener>>, "code"))
Unlock(listener) == UnlockInner("UNLOCK", listener)
UnlockScreen(listener) == UnlockInner("UNLOCK_SCREEN", listener)
Lock(listener) == WithListener(listener, Request("LOCK", <<listener>>, "code"))
LockUser(userId) == Request("LOCK_SCREEN", <<userId>>, "code")

OnSystemEvent(listener) == WithListener(listener, Request("ONSYSTEMEVENT", <<listener>>, "code"))
SendScreenLockEvent(event, param) == Request("SEND_SCREENLOCK_EVENT", <<event, param>>, "code")

IsScreenLockDisabled(userId) == Request("IS_SCREENLOCK_DISABLED", <<userId>>, "value_ok")

Mut_UserFirst(disable, userId) == Request("SET_SCREENLOCK_DISABLED", <<userId, disable>>, "code")

SetScreenLockDisabled(disable, userId) ==
  Request("SET_SCREENLOCK_DISABLED", <<disable, userId>>, "code")

SetScreenLockAuthState(authState, userId, authToken) ==
  Request("SET_SCREENLOCK_AUTHSTATE", <<authState, userId, authToken>>, "code")
GetScreenLockAuthState(userId) == Request("GET_SCREENLOCK_AUTHSTATE", <<userId>>, "both")
RequestStrongAuth(reasonFlag, userId) ==
  Request("REQUEST_STRONG_AUTHSTATE", <<reasonFlag, userId>>, "code")
GetStrongAuth(userId) == Request("GET_STRONG_AUTHSTATE", <<userId>>, "both")
IsDeviceLocked(userId) == Request("IS_DEVICE_LOCKED", <<userId>>, "both")
SetUnlockPolicy(userId, policy) == Request("SET_UNLOCK_POLICY", <<userId, policy>>, "checked")
GetUnlockPolicy(userId) == Request("GET_UNLOCK_POLICY", <<userId>>, "checked")

IsLockedWatch == Request("IS_LOCKED_WATCH", <<>>, "value_ok")
UnlockWatch(listener) == WithListener(listener, Request("UNLOCK_WATCH", <<listener>>, "code"))
=============================================================================
