----------------------------- MODULE DeviceLock -----------------------------
(***************************************************************************)
(* The authentication state of each user, which says whether the device is *)
(* locked for it, and what the listeners of InnerListeners know of it.     *)
(*                                                                         *)
(* Clients set the state on IPC threads; SetScreenLockAuthState notifies   *)
(* the listeners and then stores the state, holding authStateMutex_        *)
(* throughout.  A notification is a one-way call: each wrapper has a       *)
(* queue.  A client that has registered a listener reads the state with    *)
(* IsDeviceLocked and follows the notifications from there on.             *)
(***************************************************************************)
EXTENDS InnerListeners, Sequences

CONSTANTS
  Users,       \* accounts
  Setters,     \* IPC threads of SetScreenLockAuthState
  MaxSets      \* bound: changes of the states of users

ASSUME UsersAssumption == Users \subseteq Nat /\ MaxSets \in Nat

VARIABLES
  authStateInfo,   \* user -> AuthState, for the users present
  setter,          \* the SetScreenLockAuthState each thread is in
  inbox,           \* notifications on their way to each wrapper
  view,            \* what the owner of a wrapper knows of each user
  removed,         \* history: users removed once
  sets

deviceVars == <<authStateInfo, setter, inbox, view, removed, sets>>
deviceAll  == <<deviceVars, listenerVars>>

\* enum AuthState, one of each kind the code tells apart.
AuthStates == {"UNAUTH", "PRE_AUTHED", "AUTHED_BY_CREDENTIAL", "AUTHED_BY_FACE"}

LockStates == {"locked", "unlocked"}

\* GetDeviceLockedStateByAuth.
Locked(authState) == IF authState \in {"UNAUTH", "PRE_AUTHED"} THEN "locked" ELSE "unlocked"

Idle == [on |-> FALSE]
Setting == [on : {TRUE}, user : Users, authState : AuthStates]

DeviceTypeOK ==
  /\ ListenersTypeOK
  /\ authStateInfo \in Partial(Users, AuthStates)
  /\ setter \in [Setters -> Setting \cup {Idle}]
  /\ inbox \in [Wrappers -> Seq(Users \X LockStates)]
  /\ view \in [Wrappers -> [Users -> {"unknown"} \cup LockStates]]
  /\ removed \in SUBSET Users /\ sets \in Nat

DeviceInit ==
  /\ ListenersInit
  /\ authStateInfo = NoFunction
  /\ setter = [t \in Setters |-> Idle]
  /\ inbox = [w \in Wrappers |-> <<>>]
  /\ view = [w \in Wrappers |-> [u \in Users |-> "unknown"]]
  /\ removed = {} /\ sets = 0

Mut_NoLock == TRUE

\* authStateMutex_ is free.
MutexFree == \A t \in Setters : ~setter[t].on

-----------------------------------------------------------------------------
(* Service.                                                                *)

\* The first section; the second, of isScreenlockedMap_, is in UnlockFlow.
AuthStateInit(u) ==
  /\ MutexFree
  /\ sets < MaxSets /\ sets' = sets + 1
  /\ u \notin DOMAIN authStateInfo
  /\ authStateInfo' = With(authStateInfo, u, "UNAUTH")
  /\ UNCHANGED <<setter, inbox, view, removed, listenerVars>>

OnRemoveUser(u) ==
  /\ MutexFree
  /\ sets < MaxSets /\ sets' = sets + 1
  /\ authStateInfo' = Without(authStateInfo, {u})
  /\ removed' = removed \cup {u}
  /\ UNCHANGED <<setter, inbox, view, listenerVars>>

Mut_NotifyEveryLock(u, next) == Locked(next) = "locked"

\* The listeners are told only of a change of the locked state.
Changes(u, next) == Locked(next) # Locked(authStateInfo[u])

\* SetScreenLockAuthState of a user that is present: the listeners are told
\* before the state is stored.
SetScreenLockAuthState(t, u, authState) ==
  LET audience == IF Changes(u, authState) THEN Audience("DEVICE_LOCK", u) ELSE {} IN
  /\ MutexFree
  /\ sets < MaxSets /\ sets' = sets + 1
  /\ u \in DOMAIN authStateInfo
  /\ inbox' = [w \in Wrappers |-> IF w \in audience THEN Append(inbox[w], <<u, Locked(authState)>>)
                                  ELSE inbox[w]]
  /\ setter' = [setter EXCEPT ![t] = [on |-> TRUE, user |-> u, authState |-> authState]]
  /\ UNCHANGED <<authStateInfo, view, removed, listenerVars>>

Store(t) ==
  /\ setter[t].on
  /\ authStateInfo' = With(authStateInfo, setter[t].user, setter[t].authState)
  /\ setter' = [setter EXCEPT ![t] = Idle]
  /\ UNCHANGED <<inbox, view, removed, sets, listenerVars>>

\* SetScreenLockAuthState of a user that is not present tells nobody.
InsertAuthState(u, authState) ==
  /\ MutexFree
  /\ sets < MaxSets /\ sets' = sets + 1
  /\ u \notin DOMAIN authStateInfo
  /\ authStateInfo' = With(authStateInfo, u, authState)
  /\ UNCHANGED <<setter, inbox, view, removed, listenerVars>>

-----------------------------------------------------------------------------
(* Clients.                                                                *)

Follows(w) == LET l == w[1] IN
  /\ call[Owner[l]] = NoCall
  /\ l \in DOMAIN InnerListenerWrapperMap /\ InnerListenerWrapperMap[l] = w
  /\ TypeOf[l] = "DEVICE_LOCK"

\* The owner of a listener reads the state once the registration returned, and
\* takes the answer before what it is told later.  The answer for an absent
\* user carries an error and says nothing.
IsDeviceLocked(w, u) ==
  /\ MutexFree
  /\ Follows(w) /\ view[w][u] = "unknown"
  /\ u \in DOMAIN authStateInfo
  /\ view' = [view EXCEPT ![w][u] = Locked(authStateInfo[u])]
  /\ UNCHANGED <<authStateInfo, setter, inbox, removed, sets, listenerVars>>

\* InnerListenerWrapper::OnStateChanged.
OnStateChanged(w) ==
  /\ inbox[w] # <<>>
  /\ inbox' = [inbox EXCEPT ![w] = Tail(@)]
  /\ view' = [view EXCEPT ![w][Head(inbox[w])[1]] = Head(inbox[w])[2]]
  /\ UNCHANGED <<authStateInfo, setter, removed, sets, listenerVars>>

-----------------------------------------------------------------------------

ServiceDies ==
  /\ ServiceRestarts
  /\ authStateInfo' = NoFunction
  /\ setter' = [t \in Setters |-> Idle]
  /\ UNCHANGED <<inbox, view, removed, sets>>

Registration == ListenersNext /\ ~ServiceRestarts /\ UNCHANGED deviceVars

DeviceNext ==
  \/ \E u \in Users :
       \/ AuthStateInit(u) \/ OnRemoveUser(u)
       \/ \E x \in AuthStates :
            InsertAuthState(u, x) \/ \E t \in Setters : SetScreenLockAuthState(t, u, x)
  \/ \E t \in Setters : Store(t)
  \/ \E w \in Wrappers : OnStateChanged(w) \/ \E u \in Users : IsDeviceLocked(w, u)
  \/ ServiceDies
  \/ Registration

DeviceSpec == DeviceInit /\ [][DeviceNext]_deviceAll

\* Obituaries arrive.
Fairness == WF_deviceAll(Obituary /\ UNCHANGED deviceVars)

-----------------------------------------------------------------------------
(* Properties.                                                             *)

\* A client that registers first and then reads IsDeviceLocked is never left
\* with an outdated state: once every notification arrived and no change is
\* under way, it knows the state the service has.  Not so for a user that was
\* removed: OnRemoveUser and the insertion that follows tell nobody; nor for
\* a listener one of whose calls was lost.
ViewCurrent ==
  \A w \in Wrappers : \A u \in DOMAIN authStateInfo \ removed :
    /\ Follows(w) /\ w[1] \notin unsure
    /\ ResolvedUser(w) \in {u, USER_ALL}
    /\ inbox[w] = <<>> /\ MutexFree /\ view[w][u] # "unknown"
    => view[w][u] = Locked(authStateInfo[u])

\* The notifications on their way to a wrapper about one user alternate: a
\* listener is never told the same state twice in a row, whichever threads set
\* the state.  (A removed user starts over without a notification.)
Alternate ==
  \A w \in Wrappers : \A i, j \in 1..Len(inbox[w]) :
    /\ i < j /\ inbox[w][i] = inbox[w][j] /\ inbox[w][i][1] \notin removed
    => \E k \in i + 1..j - 1 : inbox[w][k][1] = inbox[w][i][1] /\ inbox[w][k][2] # inbox[w][i][2]

-----------------------------------------------------------------------------
(* The inductive invariant behind ViewCurrent and Alternate.               *)

\* The holder of the mutex sets the state of a user that is present.
OneSetter ==
  \A t \in Setters : setter[t].on =>
    /\ setter[t].user \in DOMAIN authStateInfo
    /\ \A r \in Setters : setter[r].on => r = t

\* A wrapper the service has not seen yet.
Fresh(w) ==
  \/ w[2] > made[w[1]]
  \/ LET c == call[Owner[w[1]]] IN c # NoCall /\ c.op = "register" /\ c.wrapper = w

FreshUntold ==
  \A w \in Wrappers : Fresh(w) =>
    /\ inbox[w] = <<>> /\ \A u \in Users : view[w][u] = "unknown"
    /\ \A x \in innerListenMap : x.wrapper # w

Told(w, u) ==
  /\ RegistrationOf(w) \in innerListenMap
  /\ TypeOf[w[1]] = "DEVICE_LOCK" /\ ResolvedUser(w) \in {u, USER_ALL}

\* The state a notification tells: the one that is being set, or is stored.
Current(u) ==
  LET T == {t \in Setters : setter[t].on /\ setter[t].user = u} IN
  Locked(IF T = {} THEN authStateInfo[u] ELSE setter[CHOOSE t \in T : TRUE].authState)

\* A client that is at v, with the notifications of q on their way to it, ends at c.
EndsAt(q, v, u, c) ==
  /\ \A i \in 1..Len(q) : q[i][1] = u /\ q[i][2] # c => \E k \in i + 1..Len(q) : q[k] = <<u, c>>
  /\ v \notin {"unknown", c} => \E k \in 1..Len(q) : q[k] = <<u, c>>

Silent(q, v, u) == v = "unknown" /\ \A i \in 1..Len(q) : q[i][1] # u

\* Of a user that is absent since the service started nothing is known; and what a
\* client knows or is told of a user that is present is corrected by a later
\* notification, unless it is right.
Corrected(w, u) ==
  IF u \in DOMAIN authStateInfo THEN EndsAt(inbox[w], view[w][u], u, Current(u))
  ELSE Silent(inbox[w], view[w][u], u)

AllCorrected ==
  \A w \in Wrappers : \A u \in Users \ removed : Told(w, u) => Corrected(w, u)

DeviceInv ==
  ListenersInv /\ DeviceTypeOK /\ OneSetter /\ FreshUntold /\ AllCorrected /\ Alternate

=============================================================================
