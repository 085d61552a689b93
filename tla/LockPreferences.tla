-------------------------- MODULE LockPreferences ---------------------------
(***************************************************************************)
(* What the service keeps in its preference file: for each user whether    *)
(* the lock screen is disabled, and the unlock policy.                     *)
(*                                                                         *)
(* The preferences library caches the file; Put and Delete change the      *)
(* cache, Flush asks for it to be written some time later.  The flag has   *)
(* no mutex: SetScreenLockDisabled, the two events that report a new PIN   *)
(* and the switch of the user read it and write it in separate steps, each *)
(* on a thread of its own.  The policy is used under authStateMutex_.      *)
(*                                                                         *)
(* External: the preferences library, the PINs and the events about them,  *)
(* the active account.  A caller of SetScreenLockDisabled belongs to the   *)
(* user it names: GetSecure asks for the PIN of the caller's user.         *)
(***************************************************************************)
EXTENDS Naturals, Sequences

CONSTANTS
  Users,
  Policies,     \* unlock policies other than the default
  MaxCalls,     \* bound: calls, switches, removals and PIN changes
  MaxCrashes    \* bound: deaths of the service

ASSUME PreferencesAssumption ==
  /\ Policies \subseteq Nat \ {0}
  /\ MaxCalls \in Nat /\ MaxCrashes \in Nat

VARIABLES
  disabled, policy,    \* the cache: the keys userId and unlock_policy_userId
  file,                \* what the file holds of them
  flushing,            \* a Flush is not carried out yet
  authStateInfo,       \* its domain: the users SetUnlockPolicy accepts
  thread,              \* the callback or call each source is in
  active, pin,         \* external: the active account, the PINs enrolled
  credEvents,          \* users whose ADD_CRED is on its way
  commonEvents,        \* users whose USER_CREDENTIAL_UPDATED_EVENT is on its way
  granted,             \* history: users whose lock was disabled and nothing revoked it
  overlapped,          \* history: users two of whose handlers overlapped
  calls, crashes

cache    == <<disabled, policy>>
outside  == <<active, pin, credEvents, commonEvents>>
counters == <<calls, crashes>>
vars == <<cache, file, flushing, authStateInfo, thread, outside, granted, overlapped, counters>>

Sources == {"call", "cred", "common", "account", "remove"}
Flag == {"absent", "off", "on"}
Ops == {"active", "secure", "differs", "notOn", "put", "flush", "insert", "unset", "erase",
        "unsetPolicy"}

NoThread == [user |-> "nobody", value |-> "off", todo |-> <<>>]

PreferencesTypeOK ==
  /\ disabled \in [Users -> Flag] /\ policy \in [Users -> Policies \cup {0}]
  /\ file \in [disabled : [Users -> Flag], policy : [Users -> Policies \cup {0}]]
  /\ flushing \in BOOLEAN
  /\ authStateInfo \in SUBSET Users
  /\ thread \in [Sources -> [user : Users \cup {"nobody"}, value : {"off", "on"}, todo : Seq(Ops)]]
  /\ \A s \in Sources : thread[s].todo # <<>> => thread[s].user \in Users
  /\ active \in Users /\ pin \in [Users -> BOOLEAN]
  /\ credEvents \in SUBSET Users /\ commonEvents \in SUBSET Users
  /\ granted \in SUBSET Users /\ overlapped \in SUBSET Users
  /\ calls \in Nat /\ crashes \in Nat

Init ==
  /\ disabled = [u \in Users |-> "absent"] /\ policy = [u \in Users |-> 0]
  /\ file = [disabled |-> disabled, policy |-> policy]
  /\ flushing = FALSE
  /\ authStateInfo = {}
  /\ thread = [s \in Sources |-> NoThread]
  /\ active \in Users /\ pin = [u \in Users |-> FALSE]
  /\ credEvents = {} /\ commonEvents = {} /\ granted = {} /\ overlapped = {}
  /\ calls = 0 /\ crashes = 0

Busy(s) == thread[s].todo # <<>>
Quiet(u) == \A s \in Sources : Busy(s) => thread[s].user # u

Begin(s, u, value, todo) ==
  /\ ~Busy(s)
  /\ overlapped' = IF Quiet(u) THEN overlapped ELSE overlapped \cup {u}
  /\ thread' = [thread EXCEPT ![s] = [user |-> u, value |-> value, todo |-> todo]]

Counted == calls < MaxCalls /\ calls' = calls + 1

-----------------------------------------------------------------------------
(* The handlers, as the steps they take.                                   *)

FreshDisabledState == <<"differs", "put", "flush">>

Mut_NoSecureCheck(disable) == <<"active">> \o FreshDisabledState

SetScreenLockDisabledSteps(disable) ==
  <<"active">> \o IF disable THEN <<"secure">> \o FreshDisabledState ELSE FreshDisabledState

SetScreenLockDisabled(u, disable) ==
  /\ Counted
  /\ Begin("call", u, IF disable THEN "on" ELSE "off", SetScreenLockDisabledSteps(disable))
  /\ granted' = IF disable THEN granted ELSE granted \ {u}
  /\ UNCHANGED <<cache, file, flushing, authStateInfo, outside, crashes>>

\* OnNotifyCredChangeEvent, ADD_CRED.
OnNotifyCredChangeEvent(u) ==
  /\ u \in credEvents /\ credEvents' = credEvents \ {u}
  /\ Begin("cred", u, "off", <<"active">> \o FreshDisabledState)
  /\ UNCHANGED <<cache, file, flushing, authStateInfo, active, pin, commonEvents, granted, counters>>

Mut_NoRefresh == <<"unset">>

OnReceiveEventSteps == <<"unset", "flush">>

\* CommeventMgr::OnReceiveEvent.
OnReceiveEvent(u) ==
  /\ u \in commonEvents /\ commonEvents' = commonEvents \ {u}
  /\ Begin("common", u, "off", OnReceiveEventSteps)
  /\ UNCHANGED <<cache, file, flushing, authStateInfo, active, pin, credEvents, granted, counters>>

InitUserId == <<"notOn", "put", "flush">>

Mut_SwitchOverwrites == <<"insert", "put", "flush">>

OnActiveUserSteps == <<"insert">> \o InitUserId

OnActiveUser(u) ==
  /\ Counted
  /\ active' = u
  /\ Begin("account", u, "off", OnActiveUserSteps)
  /\ UNCHANGED <<cache, file, flushing, authStateInfo, pin, credEvents, commonEvents, granted, crashes>>

Mut_PolicyFirst == <<"unsetPolicy", "erase">>

OnRemoveUserSteps == <<"erase", "unsetPolicy">>

\* The PIN goes with the account; its flag stays.
OnRemoveUser(u) ==
  /\ Counted
  /\ u # active
  /\ pin' = [pin EXCEPT ![u] = FALSE]
  /\ Begin("remove", u, "off", OnRemoveUserSteps)
  /\ UNCHANGED <<cache, file, flushing, authStateInfo, active, credEvents, commonEvents, granted, crashes>>

-----------------------------------------------------------------------------
(* The steps.                                                              *)

At(s, op) == Busy(s) /\ Head(thread[s].todo) = op
Here(s) == thread[s].user
Goto(s, todo) == thread' = [thread EXCEPT ![s].todo = todo]
Continue(s, b) == Goto(s, IF b THEN Tail(thread[s].todo) ELSE <<>>)

\* GetCurrentActiveOsAccountId, GetSecure, and the two ways to read the flag.
Holds(s, op) ==
  LET u == Here(s) IN
  CASE op = "active" -> active = u
    [] op = "secure" -> ~pin[u]
    [] op = "differs" -> (disabled[u] = "on") # (thread[s].value = "on")
    [] op = "notOn" -> disabled[u] # "on"

Check(s) ==
  /\ \E op \in {"active", "secure", "differs", "notOn"} :
       At(s, op) /\ Continue(s, Holds(s, op))
  /\ UNCHANGED <<cache, file, flushing, authStateInfo, outside, granted, overlapped, counters>>

\* No event is on its way that reports a PIN of the user.
NoneUnderWay(u) == u \notin credEvents \cup commonEvents

\* SaveBool, up to its Flush.
SaveBool(s) ==
  /\ At(s, "put") /\ Continue(s, TRUE)
  /\ disabled' = [disabled EXCEPT ![Here(s)] = thread[s].value]
  /\ granted' = IF thread[s].value = "on" /\ ~pin[Here(s)] /\ NoneUnderWay(Here(s))
                THEN granted \cup {Here(s)} ELSE granted
  /\ UNCHANGED <<policy, file, flushing, authStateInfo, outside, overlapped, counters>>

RemoveKey(s) ==
  /\ At(s, "unset") /\ Continue(s, TRUE)
  /\ disabled' = [disabled EXCEPT ![Here(s)] = "absent"]
  /\ UNCHANGED <<policy, file, flushing, authStateInfo, outside, granted, overlapped, counters>>

Refresh(s) ==
  /\ At(s, "flush") /\ Continue(s, TRUE)
  /\ flushing' = TRUE
  /\ UNCHANGED <<cache, file, authStateInfo, outside, granted, overlapped, counters>>

AuthStateInit(s) ==
  /\ At(s, "insert") /\ Continue(s, TRUE)
  /\ authStateInfo' = authStateInfo \cup {Here(s)}
  /\ UNCHANGED <<cache, file, flushing, outside, granted, overlapped, counters>>

EraseAuthState(s) ==
  /\ At(s, "erase") /\ Continue(s, TRUE)
  /\ authStateInfo' = authStateInfo \ {Here(s)}
  /\ UNCHANGED <<cache, file, flushing, outside, granted, overlapped, counters>>

\* The value ObtainInt gives for a missing key.
DefaultPolicy == 0

\* The key is removed without a Flush.
DeleteUnlockPolicyForUser(s) ==
  /\ At(s, "unsetPolicy") /\ Continue(s, TRUE)
  /\ policy' = [policy EXCEPT ![Here(s)] = DefaultPolicy]
  /\ UNCHANGED <<disabled, file, flushing, authStateInfo, outside, granted, overlapped, counters>>

Step(s) ==
  \/ Check(s) \/ SaveBool(s) \/ RemoveKey(s) \/ Refresh(s) \/ AuthStateInit(s)
  \/ EraseAuthState(s) \/ DeleteUnlockPolicyForUser(s)

Mut_AnyUser == Users

\* Whose policy may be set.
ValidUsers == authStateInfo

\* Under authStateMutex_ from the look-up to the Flush.
SetUnlockPolicy(u, p) ==
  /\ Counted
  /\ u \in ValidUsers /\ policy[u] # p
  /\ policy' = [policy EXCEPT ![u] = p]
  /\ flushing' = TRUE
  /\ UNCHANGED <<disabled, file, authStateInfo, thread, outside, granted, overlapped, crashes>>

\* SetScreenLockAuthState inserts an unknown user.
InsertAuthState(u) ==
  /\ Counted
  /\ authStateInfo' = authStateInfo \cup {u}
  /\ UNCHANGED <<cache, file, flushing, thread, outside, granted, overlapped, crashes>>

-----------------------------------------------------------------------------
(* External.                                                               *)

AddPin(u) ==
  /\ Counted
  /\ ~pin[u] /\ pin' = [pin EXCEPT ![u] = TRUE]
  /\ credEvents' = credEvents \cup {u} /\ commonEvents' = commonEvents \cup {u}
  /\ granted' = granted \ {u}
  /\ UNCHANGED <<cache, file, flushing, authStateInfo, thread, active, overlapped, crashes>>

DeletePin(u) ==
  /\ Counted
  /\ pin[u] /\ pin' = [pin EXCEPT ![u] = FALSE]
  /\ UNCHANGED <<cache, file, flushing, authStateInfo, thread, active, credEvents, commonEvents,
                 granted, overlapped, crashes>>

Write ==
  /\ flushing /\ flushing' = FALSE
  /\ file' = [disabled |-> disabled, policy |-> policy]
  /\ UNCHANGED <<cache, authStateInfo, thread, outside, granted, overlapped, counters>>

\* The service dies and is started again: InitUserId runs; the events that
\* were on their way are lost.
Restart ==
  /\ crashes < MaxCrashes /\ crashes' = crashes + 1
  /\ disabled' = file.disabled /\ policy' = file.policy /\ flushing' = FALSE
  /\ authStateInfo' = {}
  /\ thread' = [s \in Sources |-> IF s = "account"
                  THEN [user |-> active, value |-> "off", todo |-> InitUserId] ELSE NoThread]
  /\ credEvents' = {} /\ commonEvents' = {} /\ granted' = {}
  /\ overlapped' = {}
  /\ UNCHANGED <<file, active, pin, calls>>

Next ==
  \/ \E u \in Users :
       \/ \E b \in BOOLEAN : SetScreenLockDisabled(u, b)
       \/ OnNotifyCredChangeEvent(u) \/ OnReceiveEvent(u) \/ OnActiveUser(u) \/ OnRemoveUser(u)
       \/ \E p \in Policies \cup {0} : SetUnlockPolicy(u, p)
       \/ InsertAuthState(u) \/ AddPin(u) \/ DeletePin(u)
  \/ \E s \in Sources : Step(s)
  \/ Write \/ Restart

Spec == Init /\ [][Next]_vars

-----------------------------------------------------------------------------
(* Properties that hold as long as no two handlers of the user overlap.    *)

\* SetScreenLockDisabled refuses a user with a PIN, and a PIN enrolled between
\* its check and its store revokes the flag, whoever is active by then: once
\* both events about it are delivered no user with a PIN has the lock screen
\* disabled.  (The service must not miss the events by dying.)
NoDisabledWithPin ==
  \A u \in Users :
    /\ u \notin overlapped /\ crashes = 0 /\ Quiet(u) /\ NoneUnderWay(u) /\ pin[u]
    => disabled[u] # "on"

\* OnActiveUser enters the default only for a user without the flag: however
\* often users are switched or removed, a lock screen that was disabled with
\* success stays so until it is enabled or a PIN is enrolled.  (The late event
\* of a PIN that was deleted before would revoke it: such a success does not
\* count as granted.)
GrantKept == \A u \in granted \ overlapped : Quiet(u) => disabled[u] = "on"

-----------------------------------------------------------------------------
(* Properties under every interleaving.                                    *)

\* Every change of a flag is followed by a Flush: when none is outstanding the
\* file has the flags of the cache, and a death of the service loses nothing.
FlagsWritten ==
  ~flushing /\ (\A s \in Sources : ~Busy(s)) => file.disabled = disabled

\* SetUnlockPolicy checks the user and stores under one lock, and OnRemoveUser
\* first takes the user away and then its policy: no call that races with the
\* removal leaves a policy behind for an account that is gone.
NoPolicyOfRemoved ==
  \A u \in Users :
    crashes = 0 /\ Quiet(u) /\ policy[u] # 0 => u \in authStateInfo

-----------------------------------------------------------------------------
(* The inductive invariant behind the last two.                            *)

\* The steps that change a flag come right before the last one, the Flush;
\* the removal of a user ends with that of its policy.
StepsOK(s) ==
  LET todo == thread[s].todo IN
  \A k \in 1..Len(todo) :
    /\ todo[k] \in {"put", "unset"} => k + 1 = Len(todo) /\ todo[k + 1] = "flush"
    /\ todo[k] = "erase" => s = "remove" /\ k + 1 = Len(todo) /\ todo[k + 1] = "unsetPolicy"

OneStepLeft(s, op) == Len(thread[s].todo) = 1 /\ thread[s].todo[1] = op

PreferencesInv ==
  /\ PreferencesTypeOK
  /\ \A s \in Sources : StepsOK(s)
  /\ flushing \/ file.disabled = disabled \/ \E s \in Sources : OneStepLeft(s, "flush")
  /\ \A u \in Users :
       \/ policy[u] = 0 \/ u \in authStateInfo \/ crashes > 0
       \/ OneStepLeft("remove", "unsetPolicy") /\ Here("remove") = u
-----------------------------------------------------------------------------
(* The inductive invariant behind the first two.                           *)

\* What each handler may have left to do; only SetScreenLockDisabled(TRUE)
\* stores "on", and only after its check.
Setting == {<<"put", "flush">>, FreshDisabledState}

Remaining(s) ==
  IF s = "call" /\ thread[s].value = "on"
  THEN {<<>>, <<"flush">>, SetScreenLockDisabledSteps(TRUE), <<"secure">> \o FreshDisabledState}
       \cup Setting
  ELSE CASE s \in {"call", "cred"} -> {<<>>, <<"flush">>, <<"active">> \o FreshDisabledState} \cup Setting
         [] s = "common" -> {<<>>, <<"flush">>, OnReceiveEventSteps}
         [] s = "account" -> {<<>>, <<"flush">>, <<"put", "flush">>, InitUserId, OnActiveUserSteps}
         [] s = "remove" -> {<<>>, <<"unsetPolicy">>, OnRemoveUserSteps}

InHandler(s) ==
  /\ thread[s].todo \in Remaining(s)
  /\ thread[s].value = "on" => s = "call"

\* A user who is not in overlapped has one handler at most.
OneAtATime(u) ==
  u \notin overlapped =>
    \A r, s \in Sources : Busy(r) /\ Busy(s) /\ Here(r) = u /\ Here(s) = u => r = s

\* SetScreenLockDisabled(TRUE) of the user is past its check.
Storing(u) == Here("call") = u /\ thread["call"].value = "on" /\ thread["call"].todo \in Setting

\* USER_CREDENTIAL_UPDATED_EVENT is yet to take the flag of the user away.
Revoking(u) == u \in commonEvents \/ (Here("common") = u /\ At("common", "unset"))

RevokeInv(u) ==
  /\ crashes = 0 /\ u \notin overlapped /\ pin[u]
  /\ disabled[u] = "on" \/ Storing(u)
  => Revoking(u)

\* No handler of the user is one that takes a granted flag away.
Harmless(s) ==
  \/ s = "call" /\ thread[s].value = "on"
  \/ s = "account" /\ thread[s].todo # <<"put", "flush">>
  \/ s = "remove"

GrantInv(u) ==
  u \in granted \ overlapped =>
    /\ disabled[u] = "on" /\ NoneUnderWay(u)
    /\ \A s \in Sources : Busy(s) /\ Here(s) = u => Harmless(s)

FlagInv ==
  /\ \A s \in Sources : InHandler(s)
  /\ \A u \in Users : OneAtATime(u) /\ RevokeInv(u) /\ GrantInv(u)
=============================================================================
