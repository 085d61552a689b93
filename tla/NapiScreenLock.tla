--------------------------- MODULE NapiScreenLock ---------------------------
(***************************************************************************)
(* The JS binding over NAPI.  An exported function first yields a plan: it  *)
(* ends at once with an outcome, or makes a library call on the JS thread    *)
(* ("sync"), on a worker ("async"), or on a worker with a listener the       *)
(* service calls later ("listener").  A JS value is [type, value]; an        *)
(* outcome goes to the caller, the promise or the callback.                 *)
(***************************************************************************)
EXTENDS ScreenLockManager, Sequences

Outcome(to, ok, value) == [to |-> to, ok |-> ok, value |-> value]
Ends(outcome) == [mode |-> "ends", outcome |-> outcome]
Throw(code) == Ends(Outcome("caller", FALSE, code))
Plan(mode, to, gives, call) == [mode |-> mode, to |-> to, gives |-> gives, call |-> call]

\* A code outside the table stays as it is, and 0 is no code at all.
GetErrorInfo(code) ==
  CASE code = E_SCREENLOCK.NO_PERMISSION      -> JsErrorCode.NO_PERMISSION
    [] code = E_SCREENLOCK.PARAMETERS_INVALID -> JsErrorCode.INVALID_PARAMS
    [] code \in {E_SCREENLOCK.WRITE_PARCEL_ERROR, E_SCREENLOCK.NULLPTR, E_SCREENLOCK.SENDREQUEST_FAILED}
                                              -> JsErrorCode.SERVICE_ABNORMAL
    [] code = E_SCREENLOCK.NOT_FOCUS_APP      -> JsErrorCode.ILLEGAL_USE
    [] code = E_SCREENLOCK.NOT_SYSTEM_APP     -> JsErrorCode.NOT_SYSTEM_APP
    [] code = E_SCREENLOCK.USER_ID_INVALID    -> JsErrorCode.USER_ID_INVALID
    [] OTHER                                  -> code

CheckParamNumber(args, n) == Len(args) >= n
CheckParamType(arg, jsType) == arg.type = jsType
CheckParams(args, types) ==
  CheckParamNumber(args, Len(types)) /\ \A i \in DOMAIN types : CheckParamType(args[i], types[i])

IsValidEvent(event) == event \in {"unlockScreenResult", "screenDrawDone", "lockScreenResult"}

-----------------------------------------------------------------------------
(* Calls on a worker.                                                      *)

\* A function at position pos is the callback, and no argument.
AsyncCall(args, pos) ==
  IF Len(args) > pos /\ CheckParamType(args[pos + 1], "function")
  THEN [to |-> "callback", args |-> SubSeq(args, 1, pos)]
  ELSE [to |-> "promise", args |-> args]

\* Call: when the arguments were refused there is nothing to execute.
Call(async, valid, gives, call) ==
  IF valid THEN Plan("async", async.to, gives, call) ELSE Throw(JsErrorCode.INVALID_PARAMS)

Mut_CodeUnconverted(plan, result) ==
  IF result.code # E_SCREENLOCK.OK THEN Outcome(plan.to, FALSE, result.code)
  ELSE Outcome(plan.to, TRUE, IF plan.gives = "allowed" THEN 1 ELSE result.value)

OnComplete(plan, result) ==
  IF result.code # E_SCREENLOCK.OK THEN Outcome(plan.to, FALSE, GetErrorInfo(result.code))
  ELSE Outcome(plan.to, TRUE, IF plan.gives = "allowed" THEN 1 ELSE result.value)

\* isScreenLocked refuses a second argument without a code.
NAPI_IsScreenLocked(args) ==
  LET async == AsyncCall(args, 0) IN
  IF Len(async.args) > 1 THEN Throw(0) ELSE Call(async, TRUE, "value", IsScreenLocked)

NAPI_IsSecureMode(args) == Call(AsyncCall(args, 0), TRUE, "value", GetSecure)

NAPI_ScreenLockSendEvent(args) ==
  LET async == AsyncCall(args, 2)
      valid == CheckParams(async.args, <<"string", "number">>) /\ IsValidEvent(args[1].value) IN
  Call(async, valid, "allowed", SendScreenLockEvent(args[1].value, args[2].value))

NAPI_SetScreenLockDisabled(args) ==
  LET async == AsyncCall(args, 2) IN
  Call(async, CheckParams(async.args, <<"boolean", "number">>), "allowed",
       SetScreenLockDisabled(args[1].value, args[2].value))

\* The token is a byte array and is read as a string: nothing is read.
NAPI_SetScreenLockAuthState(args) ==
  LET async == AsyncCall(args, 3) IN
  Call(async, CheckParams(async.args, <<"number", "number", "uint8array">>), "allowed",
       SetScreenLockAuthState(args[1].value, args[2].value, ""))

\* The position is one too far: a third argument is no callback.
NAPI_RequestStrongAuth(args) ==
  LET async == AsyncCall(args, 3) IN
  Call(async, CheckParams(async.args, <<"number", "number">>), "allowed",
       RequestStrongAuth(args[1].value, args[2].value))

-----------------------------------------------------------------------------
(* Calls on the JS thread.                                                 *)

Return(plan, result) ==
  IF result.code # E_SCREENLOCK.OK THEN Outcome("caller", FALSE, GetErrorInfo(result.code))
  ELSE IF plan.gives = "policy" /\ result.value \notin 0..2
       THEN Outcome("caller", FALSE, JsErrorCode.INVALID_PARAMS)
  ELSE Outcome("caller", TRUE, IF plan.gives = "true" THEN 1 ELSE result.value)

OnJsThread(args, types, gives, call) ==
  IF CheckParams(args, types) THEN Plan("sync", "caller", gives, call)
  ELSE Throw(JsErrorCode.INVALID_PARAMS)

NAPI_IsLocked(args) == OnJsThread(args, <<>>, "value", IsLocked)
NAPI_OnSystemEvent(args, listener) == OnJsThread(args, <<"function">>, "true", OnSystemEvent(listener))
NAPI_IsScreenLockDisabled(args) ==
  OnJsThread(args, <<"number">>, "value", IsScreenLockDisabled(args[1].value))
NAPI_GetScreenLockAuthState(args) ==
  OnJsThread(args, <<"number">>, "value", GetScreenLockAuthState(args[1].value))
NAPI_GetStrongAuth(args) == OnJsThread(args, <<"number">>, "value", GetStrongAuth(args[1].value))
NAPI_IsDeviceLocked(args) == OnJsThread(args, <<"number">>, "value", IsDeviceLocked(args[1].value))
NAPI_GetUnlockPolicy(args) == OnJsThread(args, <<"number">>, "policy", GetUnlockPolicy(args[1].value))

-----------------------------------------------------------------------------
(* Calls with a listener.                                                  *)

\* An argument must be the callback.
Listened(args, action, refusal, call) ==
  IF args = <<>> THEN Plan("listener", "promise", action, call)
  ELSE IF CheckParamType(args[1], "function") THEN Plan("listener", "callback", action, call)
  ELSE Throw(refusal)

NAPI_Lock(args, listener) == Listened(args, "LOCK", JsErrorCode.INVALID_PARAMS, Lock(listener))
NAPI_Unlock(args, listener) ==
  Listened(args, "UNLOCK", JsErrorCode.INVALID_PARAMS, Unlock("UNLOCK", listener))
\* NAPI_ASSERT gives no code.
NAPI_UnlockScreen(args, listener) ==
  Listened(args, "UNLOCKSCREEN", 0, Unlock("UNLOCKSCREEN", listener))

Mut_AlwaysCalled(code) == <<[result |-> code, code |-> GetErrorInfo(code)]>>

\* What the worker hands to the JS loop itself once the library has returned: a
\* request the service did not accept is answered here.
AsyncCallFunc(code) ==
  IF code = E_SCREENLOCK.OK THEN <<>> ELSE <<[result |-> code, code |-> GetErrorInfo(code)]>>

\* What a call of the listener hands to it.
OnCallBack(screenLockResult) == [result |-> screenLockResult, code |-> 0]

Mut_NotFailed(plan, event) ==
  IF event.result # SCREEN.FAIL THEN Outcome(plan.to, TRUE, 1) ELSE Outcome(plan.to, FALSE, event.code)

\* unlockScreen gives undefined.
UvWorkOnCallBack(plan, event) ==
  LET screenLockSuccess == event.result = SCREEN.SUCC
      cancelUnlock == plan.gives = "UNLOCK" /\ event.result = SCREEN.CANCEL
  IN IF screenLockSuccess \/ cancelUnlock
     THEN Outcome(plan.to, TRUE, IF plan.gives = "UNLOCKSCREEN" THEN 0 ELSE Bit(screenLockSuccess))
     ELSE Outcome(plan.to, FALSE, event.code)

-----------------------------------------------------------------------------

Init(name, args, listener) ==
  CASE name = "isScreenLocked"         -> NAPI_IsScreenLocked(args)
    [] name = "isLocked"               -> NAPI_IsLocked(args)
    [] name = "lock"                   -> NAPI_Lock(args, listener)
    [] name = "unlockScreen"           -> NAPI_UnlockScreen(args, listener)
    [] name = "unlock"                 -> NAPI_Unlock(args, listener)
    [] name = "isSecureMode"           -> NAPI_IsSecureMode(args)
    [] name = "onSystemEvent"          -> NAPI_OnSystemEvent(args, listener)
    [] name = "sendScreenLockEvent"    -> NAPI_ScreenLockSendEvent(args)
    [] name = "isScreenLockDisabled"   -> NAPI_IsScreenLockDisabled(args)
    [] name = "setScreenLockDisabled"  -> NAPI_SetScreenLockDisabled(args)
    [] name = "setScreenLockAuthState" -> NAPI_SetScreenLockAuthState(args)
    [] name = "getScreenLockAuthState" -> NAPI_GetScreenLockAuthState(args)
    [] name = "requestStrongAuth"      -> NAPI_RequestStrongAuth(args)
    [] name = "getStrongAuth"          -> NAPI_GetStrongAuth(args)
    [] name = "isDeviceLocked"         -> NAPI_IsDeviceLocked(args)
    [] name = "getUnlockPolicy"        -> NAPI_GetUnlockPolicy(args)
=============================================================================
