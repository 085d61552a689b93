-------------------------- MODULE ScreenLockService --------------------------
(***************************************************************************)
(* What each function of ScreenLockSystemAbility answers a caller c, and    *)
(* what it does to the state s of the service: one operator per function,   *)
(* with a result [code, value, store].  A function is one step here; the    *)
(* interleaving of its sections with other threads is the subject of        *)
(* UnlockFlow, StrongAuth, DeviceLock and LockPreferences, and the calls to  *)
(* inner listeners that of InnerListeners.                                  *)
(*                                                                         *)
(* A caller is [type : "hap", "native" or "shell", system, focused, perms,  *)
(* user].  The state s has                                                 *)
(*   locked, auth, strong   isScreenlockedMap_, authStateInfo,              *)
(*                          strongAuthStateInfo                             *)
(*   disabled, policy       the preferences, on disk                        *)
(*   current, listener      stateValue_'s user; an app is registered        *)
(*   unlocks, locks         unlockVecListeners_ with their users, and       *)
(*                          lockVecListeners_                               *)
(*   tasks                  callback tasks submitted to ffrt                *)
(*   toApp                  events on their way to the registered app       *)
(*   appLocked              the watch app lock holds the app in front       *)
(*   widget                 it was asked to show its widget                 *)
(*   active, pins, verified external: the foreground account, the accounts  *)
(*                          with a PIN and those unlocked                   *)
(***************************************************************************)
EXTENDS ScreenLockCommon, Sequences

Reply(code, value, s) == [code |-> code, value |-> value, store |-> s]
Refuse(code, s) == Reply(code, 0, s)
Ok(value, s) == Reply(E_SCREENLOCK.OK, value, s)

Lookup(f, x, default) == IF x \in DOMAIN f THEN f[x] ELSE default
Put(f, x, v) == [y \in DOMAIN f \cup {x} |-> IF y = x THEN v ELSE f[y]]

CheckPermission(c, permission) == permission \in c.perms
IsNativeAccess(c) == c.type = "native"

\* True when the caller is to be refused.
CheckSystemPermission(c) == ~c.system /\ ~IsNativeAccess(c)

IsAppInForeground(c) == c.focused

\* Nothing is sent, and nothing kept, when no app is registered.
SystemEventCallBack(s, event) ==
  IF s.listener THEN [s EXCEPT !.toApp = Append(@, event)] ELSE s

AUTHED == {4, 5, 6}
PRE_AUTHED_RESULT == {7, 8}

GetDeviceLockedStateByAuth(authState) == Bit(authState \notin AUTHED)

\* What a start of the service leaves: the preferences, and what AuthStateInit
\* and InitStrongAuthStat enter for the foreground account.
Started(s) ==
  [s EXCEPT !.locked = [u \in {s.active} |-> 1], !.auth = [u \in {s.active} |-> 0],
            !.strong = [u \in {s.active} |-> Bit(u \in s.pins)], !.current = 0, !.listener = FALSE,
            !.unlocks = <<>>, !.locks = <<>>, !.tasks = <<>>, !.toApp = <<>>]

-----------------------------------------------------------------------------
(* Questions.                                                              *)

IsScreenLocked(c, s) ==
  Lookup(s.locked, IF s.current \in {USER_NULL, 0} THEN c.user ELSE s.current, 1)

IsLocked(c, s) ==
  IF c.type = "hap" /\ ~c.system THEN Refuse(E_SCREENLOCK.NOT_SYSTEM_APP, s)
  ELSE Ok(IsScreenLocked(c, s), s)

IsLockedWithUserId(c, s, userId) ==
  IF CheckSystemPermission(c) THEN Reply(E_SCREENLOCK.NOT_SYSTEM_APP, 1, s)
  ELSE IF userId \in DOMAIN s.locked THEN Ok(s.locked[userId], s)
  ELSE Reply(E_SCREENLOCK.USER_ID_INVALID, 1, s)

GetSecure(c, s) == Bit((IF c.user = 0 THEN s.active ELSE c.user) \in s.pins)

IsScreenLockDisabled(c, s, userId) ==
  IF ~CheckPermission(c, "ACCESS_SCREEN_LOCK") THEN Refuse(E_SCREENLOCK.NO_PERMISSION, s)
  ELSE Ok(Lookup(s.disabled, userId, 0), s)

GetScreenLockAuthState(c, s, userId) ==
  IF CheckSystemPermission(c) THEN Reply(E_SCREENLOCK.NOT_SYSTEM_APP, -1, s)
  ELSE IF ~CheckPermission(c, "ACCESS_SCREEN_LOCK") THEN Reply(E_SCREENLOCK.NO_PERMISSION, -1, s)
  ELSE Ok(Lookup(s.auth, userId, 0), s)

\* GetStrongAuthStat: AFTER_BOOT for an account that is not unlocked.
GetStrongAuth(c, s, userId) ==
  IF CheckSystemPermission(c) THEN Reply(E_SCREENLOCK.NOT_SYSTEM_APP, -1, s)
  ELSE IF ~CheckPermission(c, "ACCESS_SCREEN_LOCK") THEN Reply(E_SCREENLOCK.NO_PERMISSION, -1, s)
  ELSE Ok(IF userId \in s.verified THEN Lookup(s.strong, userId, 1) ELSE 1, s)

IsDeviceLocked(c, s, userId) ==
  IF CheckSystemPermission(c) THEN Reply(E_SCREENLOCK.NOT_SYSTEM_APP, 1, s)
  ELSE IF userId \in DOMAIN s.auth THEN Ok(GetDeviceLockedStateByAuth(s.auth[userId]), s)
  ELSE Reply(E_SCREENLOCK.USER_ID_INVALID, 1, s)

GetUnlockPolicy(c, s, userId) ==
  IF CheckSystemPermission(c) THEN Refuse(E_SCREENLOCK.NOT_SYSTEM_APP, s)
  ELSE IF ~CheckPermission(c, "ACCESS_SCREEN_LOCK") THEN Refuse(E_SCREENLOCK.NO_PERMISSION, s)
  ELSE IF userId \in DOMAIN s.auth THEN Ok(Lookup(s.policy, userId, 0), s)
  ELSE Refuse(E_SCREENLOCK.USER_ID_INVALID, s)

IsLockedWatch(c, s) ==
  IF c.type = "hap" /\ ~c.system THEN Refuse(E_SCREENLOCK.NOT_SYSTEM_APP, s)
  ELSE Ok(IF IsScreenLocked(c, s) = 1 THEN 1 ELSE s.appLocked, s)

-----------------------------------------------------------------------------
(* Requests.                                                               *)

UnlockInner(c, s, listener) ==
  IF /\ ~IsNativeAccess(c) /\ ~IsAppInForeground(c)
     /\ ~CheckPermission(c, "ACCESS_SCREEN_LOCK")
  THEN Refuse(E_SCREENLOCK.NOT_FOCUS_APP, s)
  ELSE Ok(0, SystemEventCallBack(
               [s EXCEPT !.unlocks = Append(@, [listener |-> listener, user |-> c.user])],
               "unlockScreen"))

UnlockScreen(c, s, listener) == UnlockInner(c, s, listener)

Unlock(c, s, listener) ==
  IF ~c.system THEN Refuse(E_SCREENLOCK.NOT_SYSTEM_APP, s) ELSE UnlockInner(c, s, listener)

\* Lock with a listener.
Lock(c, s, listener) ==
  IF ~c.system THEN Refuse(E_SCREENLOCK.NOT_SYSTEM_APP, s)
  ELSE IF ~CheckPermission(c, "ACCESS_SCREEN_LOCK_INNER") THEN Refuse(E_SCREENLOCK.NO_PERMISSION, s)
  ELSE Ok(0, SystemEventCallBack([s EXCEPT !.locks = Append(@, listener)], "lockScreen"))

\* Lock of a user: the app is not told which.
LockScreen(c, s, userId) ==
  IF ~CheckPermission(c, "ACCESS_SCREEN_LOCK_INNER") THEN Refuse(E_SCREENLOCK.NO_PERMISSION, s)
  ELSE Ok(0, SystemEventCallBack(s, "lockScreen"))

\* The caller becomes the app; OnSystemReady tells it so.
OnSystemEvent(c, s) ==
  IF ~c.system THEN Refuse(E_SCREENLOCK.NOT_SYSTEM_APP, s)
  ELSE IF ~CheckPermission(c, "ACCESS_SCREEN_LOCK_INNER") THEN Refuse(E_SCREENLOCK.NO_PERMISSION, s)
  ELSE Ok(0, [s EXCEPT !.listener = TRUE, !.current = c.user,
                   !.toApp = Append(@, "systemReady")])

\* GetCurrentActiveOsAccountId.
FreshDisabledState(s, disable, userId) ==
  IF disable = Lookup(s.disabled, userId, 0) THEN s
  ELSE [s EXCEPT !.disabled = Put(@, userId, disable)]

SetScreenLockDisabled(c, s, disable, userId) ==
  IF s.active # userId \/ (disable = 1 /\ GetSecure(c, s) = 1) THEN Refuse(SCREEN.FAIL, s)
  ELSE IF ~CheckPermission(c, "ACCESS_SCREEN_LOCK") THEN Refuse(E_SCREENLOCK.NO_PERMISSION, s)
  ELSE Ok(0, FreshDisabledState(s, disable, userId))

PreAuthStateNotify(s, userId, authState) ==
  IF userId = s.current /\ authState \in PRE_AUTHED_RESULT
  THEN SystemEventCallBack(s, "preAuthResult") ELSE s

SetScreenLockAuthState(c, s, authState, userId, authToken) ==
  IF CheckSystemPermission(c) THEN Refuse(E_SCREENLOCK.NOT_SYSTEM_APP, s)
  ELSE IF ~CheckPermission(c, "ACCESS_SCREEN_LOCK_INNER") THEN Refuse(E_SCREENLOCK.NO_PERMISSION, s)
  ELSE Ok(0, PreAuthStateNotify([s EXCEPT !.auth = Put(@, userId, authState)], userId, authState))

StrongAuthChanged(s, userId) ==
  IF s.current = userId THEN SystemEventCallBack(s, "strongAuthChanged") ELSE s

\* SetStrongAuthStat: AFTER_BOOT is only left for NONE.
RequestStrongAuth(c, s, reasonFlag, userId) ==
  IF CheckSystemPermission(c) THEN Refuse(E_SCREENLOCK.NOT_SYSTEM_APP, s)
  ELSE IF ~CheckPermission(c, "ACCESS_SCREEN_LOCK") THEN Refuse(E_SCREENLOCK.NO_PERMISSION, s)
  ELSE IF Lookup(s.strong, userId, 0) = 1 /\ reasonFlag # 0 THEN Ok(0, s)
  ELSE Ok(0, StrongAuthChanged([s EXCEPT !.strong = Put(@, userId, reasonFlag)], userId))

SetUnlockPolicy(c, s, userId, policy) ==
  IF ~CheckPermission(c, "ACCESS_SCREEN_LOCK") \/ ~IsNativeAccess(c)
  THEN Refuse(E_SCREENLOCK.NO_PERMISSION, s)
  ELSE IF userId \notin DOMAIN s.auth THEN Refuse(E_SCREENLOCK.USER_ID_INVALID, s)
  ELSE IF Lookup(s.policy, userId, 0) = policy THEN Ok(0, s)
  ELSE Ok(0, SystemEventCallBack([s EXCEPT !.policy = Put(@, userId, policy)], "unlockPolicyChanged"))

\* A refusal of UnlockScreen is lost.  The app lock answers no listener.
UnlockWatch(c, s, listener) ==
  IF c.type = "hap" /\ ~c.system THEN Refuse(E_SCREENLOCK.NOT_SYSTEM_APP, s)
  ELSE IF IsScreenLocked(c, s) = 1 THEN Ok(0, UnlockScreen(c, s, listener).store)
  ELSE Ok(0, [s EXCEPT !.widget = s.appLocked])

-----------------------------------------------------------------------------
(* Answers of the app.                                                     *)

\* A callback task, when there is a listener to call.
Submit(s, pending, task) == IF pending = <<>> THEN s ELSE [s EXCEPT !.tasks = Append(@, task)]

NotifyUnlockListener(c, s, result) ==
  Submit(s, s.unlocks, [kind |-> "unlock", result |-> result, user |-> c.user])

\* An app that finds the screen unlocked answers nobody.
Mut_AlreadyIgnored(c, s, result) ==
  CASE result = SCREEN.SUCC   -> NotifyUnlockListener(c, [s EXCEPT !.locked = Put(@, c.user, 0)], result)
    [] result = SCREEN.CANCEL -> NotifyUnlockListener(c, s, result)
    [] OTHER                  -> s

UnlockScreenEvent(c, s, result) ==
  LET unlocked == [s EXCEPT !.locked = Put(@, c.user, 0)] IN
  CASE result = SCREEN.ALREADY_UNLOCKED -> NotifyUnlockListener(c, s, SCREEN.SUCC)
    [] result = SCREEN.EARLY_SUCCESS    -> unlocked
    [] result = SCREEN.SUCC             -> NotifyUnlockListener(c, unlocked, result)
    [] result = SCREEN.FAIL             -> s
    [] OTHER                            -> NotifyUnlockListener(c, s, result)

LockScreenEvent(c, s, result) ==
  LET after == IF result = SCREEN.SUCC THEN [s EXCEPT !.locked = Put(@, c.user, 1)] ELSE s IN
  Submit(after, s.locks, [kind |-> "lock", result |-> result, user |-> c.user])

SendScreenLockEvent(c, s, event, param) ==
  IF ~c.system THEN Refuse(E_SCREENLOCK.NOT_SYSTEM_APP, s)
  ELSE IF ~CheckPermission(c, "ACCESS_SCREEN_LOCK_INNER") THEN Refuse(E_SCREENLOCK.NO_PERMISSION, s)
  ELSE Ok(0, CASE event = "unlockScreenResult" -> UnlockScreenEvent(c, s, param)
               [] event = "lockScreenResult"   -> LockScreenEvent(c, s, param)
               [] OTHER                        -> s)

\* CallbackUnlockListener: a request of another user is answered from the
\* state of that user.
CallbackUnlockListener(s, pending, task) ==
  IF pending.user = task.user THEN task.result
  ELSE IF Lookup(s.locked, pending.user, 1) = 1 THEN SCREEN.FAIL ELSE SCREEN.SUCC

\* The first callback task: who is called with what, and what is left.
Called(s) ==
  LET task == Head(s.tasks) IN
  IF task.kind = "unlock"
  THEN [i \in DOMAIN s.unlocks |->
          [listener |-> s.unlocks[i].listener, result |-> CallbackUnlockListener(s, s.unlocks[i], task)]]
  ELSE [i \in DOMAIN s.locks |-> [listener |-> s.locks[i], result |-> task.result]]

AfterTask(s) ==
  IF Head(s.tasks).kind = "unlock" THEN [s EXCEPT !.unlocks = <<>>, !.tasks = Tail(@)]
  ELSE [s EXCEPT !.locks = <<>>, !.tasks = Tail(@)]
=============================================================================
