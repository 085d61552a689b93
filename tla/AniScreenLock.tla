---------------------------- MODULE AniScreenLock ----------------------------
(***************************************************************************)
(* The binding for ArkTS over ANI: the same functions as NapiScreenLock,    *)
(* with plans of the same form.  The language checks the types of the        *)
(* arguments.  A function that gives a promise runs in the task pool; what   *)
(* it returns or throws settles the promise.                                *)
(***************************************************************************)
EXTENDS ScreenLockManager, Sequences

Outcome(to, ok, value) == [to |-> to, ok |-> ok, value |-> value]
Plan(mode, to, gives, call) == [mode |-> mode, to |-> to, gives |-> gives, call |-> call]

GetErrorInfo(code) ==
  CASE code = E_SCREENLOCK.NO_PERMISSION      -> JsErrorCode.NO_PERMISSION
    [] code = E_SCREENLOCK.PARAMETERS_INVALID -> JsErrorCode.INVALID_PARAMS
    [] code \in {E_SCREENLOCK.WRITE_PARCEL_ERROR, E_SCREENLOCK.NULLPTR, E_SCREENLOCK.SENDREQUEST_FAILED}
                                              -> JsErrorCode.SERVICE_ABNORMAL
    [] code = E_SCREENLOCK.NOT_FOCUS_APP      -> JsErrorCode.ILLEGAL_USE
    [] code = E_SCREENLOCK.NOT_SYSTEM_APP     -> JsErrorCode.NOT_SYSTEM_APP
    [] code = E_SCREENLOCK.USER_ID_INVALID    -> JsErrorCode.USER_ID_INVALID
    [] OTHER                                  -> code

Promised(args) ==
  IF args # <<>> /\ args[Len(args)].type = "function" THEN "callback" ELSE "promise"
InTaskPool(args, gives, call) == Plan("async", Promised(args), gives, call)
OnThread(gives, call) == Plan("sync", "caller", gives, call)

\* An enumeration has an item for each of the values, and null for no other.
NULL == -1
Enum_GetEnumItemByIndex(size, index) == IF index \in 0..(size - 1) THEN index ELSE NULL

\* What a function returns, or throws, when the library has returned.  The
\* policy is never looked up.
Returned(plan, result) ==
  IF result.code # E_SCREENLOCK.OK THEN Outcome(plan.to, FALSE, GetErrorInfo(result.code))
  ELSE Outcome(plan.to, TRUE,
         CASE plan.gives = "true"      -> 1
           [] plan.gives = "undefined" -> 0
           [] plan.gives = "authState" -> Enum_GetEnumItemByIndex(7, result.value)
           [] plan.gives = "policy"    -> NULL
           [] OTHER                    -> result.value)

-----------------------------------------------------------------------------

ANI_IsScreenLocked(args) == InTaskPool(args, "value", IsScreenLocked)
ANI_IsSecureMode(args) == InTaskPool(args, "value", GetSecure)

\* An empty event is not an error.
ANI_SendScreenLockEvent(args) ==
  LET stdEvent == args[1].value IN
  CASE stdEvent = "" -> [mode |-> "ends", outcome |-> Outcome(Promised(args), TRUE, 0)]
    [] stdEvent \in {"unlockScreenResult", "screenDrawDone", "lockScreenResult"} ->
         InTaskPool(args, "true", SendScreenLockEvent(stdEvent, args[2].value))
    [] OTHER -> [mode |-> "ends",
                 outcome |-> Outcome(Promised(args), FALSE, GetErrorInfo(E_SCREENLOCK.PARAMETERS_INVALID))]

ANI_RequestStrongAuth(args) ==
  InTaskPool(args, "undefined", RequestStrongAuth(args[1].value, args[2].value))
ANI_SetScreenLockDisabled(args) ==
  InTaskPool(args, "true", SetScreenLockDisabled(args[1].value, args[2].value))
\* The token is no string: nothing is read of it.
ANI_SetScreenLockAuthState(args) ==
  InTaskPool(args, "true", SetScreenLockAuthState(args[1].value, args[2].value, ""))

ANI_IsLocked == OnThread("value", IsLocked)
ANI_OnSystemEvent(listener) == OnThread("true", OnSystemEvent(listener))
ANI_IsScreenLockDisabled(args) == OnThread("value", IsScreenLockDisabled(args[1].value))
ANI_GetScreenLockAuthState(args) == OnThread("authState", GetScreenLockAuthState(args[1].value))
ANI_GetStrongAuth(args) == OnThread("value", GetStrongAuth(args[1].value))
ANI_IsDeviceLocked(args) == OnThread("value", IsDeviceLocked(args[1].value))
ANI_GetUnlockPolicy(args) == OnThread("policy", GetUnlockPolicy(args[1].value))

-----------------------------------------------------------------------------

\* The task returns a promise of its own.
Awaiting(args, action, call) == Plan("listener", Promised(args), action, call)

ANI_Lock(args, listener) == Awaiting(args, "LOCK", Lock(listener))
ANI_Unlock(args, listener) == Awaiting(args, "UNLOCK", Unlock("UNLOCK", listener))
ANI_UnlockScreen(args, listener) == Awaiting(args, "UNLOCKSCREEN", Unlock("UNLOCKSCREEN", listener))

\* A request the service did not accept is answered at once.
ScreenLockRequest(code) ==
  IF code = E_SCREENLOCK.OK THEN <<>> ELSE <<[result |-> code, code |-> GetErrorInfo(code)]>>

OnCallBack(screenLockResult) == [result |-> screenLockResult, code |-> 0]

\* SendCallBackEvent: unlockScreen gives a boolean here.
SendCallBackEvent(plan, event) ==
  LET screenLockSuccess == event.result = SCREEN.SUCC
      cancelUnlock == plan.gives = "UNLOCK" /\ event.result = SCREEN.CANCEL
  IN IF screenLockSuccess \/ cancelUnlock THEN Outcome(plan.to, TRUE, Bit(screenLockSuccess))
     ELSE Outcome(plan.to, FALSE, event.code)

BindMethods(name, args, listener) ==
  CASE name = "isScreenLocked"         -> ANI_IsScreenLocked(args)
    [] name = "isLocked"               -> ANI_IsLocked
    [] name = "lock"                   -> ANI_Lock(args, listener)
    [] name = "unlockScreen"           -> ANI_UnlockScreen(args, listener)
    [] name = "unlock"                 -> ANI_Unlock(args, listener)
    [] name = "isSecureMode"           -> ANI_IsSecureMode(args)
    [] name = "onSystemEvent"          -> ANI_OnSystemEvent(listener)
    [] name = "sendScreenLockEvent"    -> ANI_SendScreenLockEvent(args)
    [] name = "isScreenLockDisabled"   -> ANI_IsScreenLockDisabled(args)
    [] name = "setScreenLockDisabled"  -> ANI_SetScreenLockDisabled(args)
    [] name = "setScreenLockAuthState" -> ANI_SetScreenLockAuthState(args)
    [] name = "getScreenLockAuthState" -> ANI_GetScreenLockAuthState(args)
    [] name = "requestStrongAuth"      -> ANI_RequestStrongAuth(args)
    [] name = "getStrongAuth"          -> ANI_GetStrongAuth(args)
    [] name = "isDeviceLocked"         -> ANI_IsDeviceLocked(args)
    [] name = "getUnlockPolicy"        -> ANI_GetUnlockPolicy(args)
=============================================================================
