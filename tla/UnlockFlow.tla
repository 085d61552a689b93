----------------------------- MODULE UnlockFlow -----------------------------
(***************************************************************************)
(* The lock and unlock requests of the screen lock service: a client's     *)
(* request is put on a list, the screen lock app is told of it by a one-   *)
(* way call, the app's answer (SendScreenLockEvent) changes the lock state *)
(* of a user and submits a task that calls the listeners on the list back. *)
(*                                                                         *)
(* A request is one listener object pushed by one call; Owner is the user  *)
(* GetUserIdFromCallingUid returns for its caller.  The two parallel       *)
(* vectors unlockVecListeners_ / unlockVecUserIds_ are always changed      *)
(* together under unlockListenerMutex_: they are the set unlockVec here    *)
(* (the order of the callbacks of one task is not observable).             *)
(*                                                                         *)
(* External: the screen lock app (its inbox is the binder queue of the     *)
(* one-way SystemEvent callbacks, which arrive in order) and the clients.  *)
(***************************************************************************)
EXTENDS Naturals, Sequences

CONSTANTS
  Users,        \* OS accounts
  UnlockReqs,   \* Unlock / UnlockScreen calls that reach UnlockInner
  LockReqs,     \* Lock(listener) calls
  Owner,        \* the user of each unlock request's caller
  AppThreads,   \* threads on which the app calls SendScreenLockEvent
  UnlockMayFail,\* whether the app may answer SCREEN_FAIL to an unlock request
  MaxTasks,     \* bound: tasks of each kind submitted and not yet run
  MaxInbox,     \* bound: events of listener-less Lock(userId) calls
  MaxRestarts,  \* bound: restarts of the service process
  MaxDeaths     \* bound: deaths of the screen lock app

ASSUME OwnerAssumption == Owner \in [UnlockReqs -> Users]
ASSUME DisjointAssumption == UnlockReqs \cap LockReqs = {}
ASSUME BoundAssumption ==
  /\ MaxTasks \in Nat /\ MaxInbox \in Nat
  /\ MaxRestarts \in Nat /\ MaxDeaths \in Nat
  /\ UnlockMayFail \in BOOLEAN

VARIABLES
  pc,                \* the client call of each request
  answer,            \* the result its listener was last called with
  called,            \* how many times its listener was called
  unlockVec,         \* unlockVecListeners_ with unlockVecUserIds_
  lockVec,           \* lockVecListeners_
  unlockTasks,       \* ffrt tasks of NotifyUnlockListener, by what they captured
  lockTasks,         \* ffrt tasks of LockScreenEvent
  serving,           \* the unlock task that holds unlockListenerMutex_
  isScreenlockedMap, \* isScreenlockedMap_
  listener,          \* systemEventListener_: none, live, or of a dead app
  inbox,             \* events on their way to the app
  call,              \* SendScreenLockEvent calls in progress
  published,         \* the last lock event published for a user
  unlockReported,    \* history: users reported unlocked to this process
  removed,           \* history: users removed at some time
  restarts, deaths

reqVars  == <<pc, answer, called>>
taskVars == <<unlockTasks, lockTasks, serving>>
appVars  == <<inbox, call>>
vars == <<reqVars, unlockVec, lockVec, taskVars, isScreenlockedMap, listener,
          appVars, published, unlockReported, removed, restarts, deaths>>

Reqs == UnlockReqs \cup LockReqs

\* enum ScreenChange
Results == {"SUCC", "FAIL", "CANCEL", "EARLY", "ALREADY"}

NotifyKinds == [result : {"SUCC", "CANCEL"}, user : Users]

Idle == [pc |-> "idle"]
Free == [on |-> FALSE]
Call(event, result, u) ==
  [pc |-> "enter", event |-> event, result |-> result, user |-> u]

Calls == {Idle} \cup [pc : {"enter", "publish", "notify"}, event : {"UNLOCK", "LOCK"},
                      result : Results, user : Users]
Servings == {Free} \cup [on : {TRUE}, result : {"SUCC", "CANCEL"}, user : Users,
                         todo : SUBSET UnlockReqs]
PartialLocks == UNION {[S -> BOOLEAN] : S \in SUBSET Users}

TypeOK ==
  /\ pc \in [Reqs -> {"idle", "half", "returned", "lost"}]
  /\ answer \in [Reqs -> Results \cup {"none"}]
  /\ called \in [Reqs -> Nat]
  /\ unlockVec \in SUBSET UnlockReqs
  /\ lockVec \in SUBSET LockReqs
  /\ unlockTasks \in [NotifyKinds -> Nat]
  /\ lockTasks \in [{"SUCC", "FAIL", "CANCEL"} -> Nat]
  /\ serving \in Servings
  /\ isScreenlockedMap \in PartialLocks
  /\ listener \in {"none", "live", "dead"}
  /\ inbox \in Seq({"UNLOCK", "LOCK"})
  /\ call \in [AppThreads -> Calls]
  /\ published \in [Users -> {"none", "LOCKED", "EXITING", "UNLOCKED"}]
  /\ unlockReported \in SUBSET Users /\ removed \in SUBSET Users
  /\ restarts \in Nat /\ deaths \in Nat

Init ==
  /\ pc = [r \in Reqs |-> "idle"]
  /\ answer = [r \in Reqs |-> "none"]
  /\ called = [r \in Reqs |-> 0]
  /\ unlockVec = {} /\ lockVec = {}
  /\ unlockTasks = [k \in NotifyKinds |-> 0]
  /\ lockTasks = [x \in {"SUCC", "FAIL", "CANCEL"} |-> 0]
  /\ serving = Free
  /\ isScreenlockedMap = [u \in {} |-> TRUE]
  /\ listener = "none"
  /\ inbox = <<>>
  /\ call = [t \in AppThreads |-> Idle]
  /\ published = [u \in Users |-> "none"]
  /\ unlockReported = {} /\ removed = {}
  /\ restarts = 0 /\ deaths = 0

-----------------------------------------------------------------------------
(* The service's tables.                                                   *)

\* A user with no entry counts as locked.
ScreenLocked(u) ==
  IF u \in DOMAIN isScreenlockedMap THEN isScreenlockedMap[u] ELSE TRUE

SetScreenlocked(locked, u) ==
  isScreenlockedMap' = [v \in DOMAIN isScreenlockedMap \cup {u} |->
                          IF v = u THEN locked ELSE isScreenlockedMap[v]]

\* SystemEventCallBack: without a listener the event is dropped, and the
\* one-way call to a dead app is lost.
SystemEventCallBack(event) ==
  inbox' = IF listener = "live" THEN Append(inbox, event) ELSE inbox

MutexFree == ~serving.on

-----------------------------------------------------------------------------
(* Client calls.  (Each Mut_ operator is a faulty variant of the           *)
(* definition that follows it; no action uses one.)                        *)

PushUnlock(r) ==
  /\ MutexFree
  /\ unlockVec' = unlockVec \cup {r}
  /\ UNCHANGED inbox

EventUnlock(r) ==
  /\ SystemEventCallBack("UNLOCK")
  /\ UNCHANGED unlockVec

Advance(r) ==
  \/ pc[r] = "idle" /\ pc' = [pc EXCEPT ![r] = "half"]
  \/ pc[r] = "half" /\ pc' = [pc EXCEPT ![r] = "returned"]

Mut_EventBeforePush(r) ==
  /\ Advance(r)
  /\ IF pc[r] = "idle" THEN EventUnlock(r) ELSE PushUnlock(r)
  /\ UNCHANGED <<answer, called, lockVec, taskVars, isScreenlockedMap, listener,
                 call, published, unlockReported, removed, restarts, deaths>>

\* UnlockInner: push under the mutex, then (outside it) tell the app.
UnlockInner(r) ==
  /\ Advance(r)
  /\ IF pc[r] = "idle" THEN PushUnlock(r) ELSE EventUnlock(r)
  /\ UNCHANGED <<answer, called, lockVec, taskVars, isScreenlockedMap, listener,
                 call, published, unlockReported, removed, restarts, deaths>>

\* Lock(listener).
LockWithListener(r) ==
  /\ Advance(r)
  /\ IF pc[r] = "idle"
     THEN lockVec' = lockVec \cup {r} /\ UNCHANGED inbox
     ELSE SystemEventCallBack("LOCK") /\ UNCHANGED lockVec
  /\ UNCHANGED <<answer, called, unlockVec, taskVars, isScreenlockedMap, listener,
                 call, published, unlockReported, removed, restarts, deaths>>

\* Lock(userId): no listener, and the user is not passed on.
LockUserId ==
  /\ Len(inbox) < MaxInbox
  /\ SystemEventCallBack("LOCK")
  /\ UNCHANGED <<reqVars, unlockVec, lockVec, taskVars, isScreenlockedMap, listener,
                 call, published, unlockReported, removed, restarts, deaths>>

-----------------------------------------------------------------------------
(* The screen lock app (external).  A thread of the app is inside the      *)
(* synchronous SendScreenLockEvent call until the handler returns.         *)

TaskRoom ==
  /\ \A k \in NotifyKinds : unlockTasks[k] < MaxTasks
  /\ \A x \in {"SUCC", "FAIL", "CANCEL"} : lockTasks[x] < MaxTasks

AppCalls(t, event, result, u) ==
  /\ listener # "dead"
  /\ call[t] = Idle
  /\ TaskRoom
  /\ call' = [call EXCEPT ![t] = Call(event, result, u)]
  /\ UNCHANGED <<reqVars, unlockVec, lockVec, taskVars, isScreenlockedMap, listener,
                 published, unlockReported, removed, restarts, deaths>>

\* The app takes an event and answers it, not always with a success.
AppAnswers(t, u, event, result) ==
  /\ inbox # <<>> /\ Head(inbox) = event
  /\ inbox' = Tail(inbox)
  /\ \/ result \in {"SUCC", "CANCEL"}
     \/ result = "ALREADY" /\ event = "UNLOCK"
     \/ result = "FAIL" /\ (event = "UNLOCK" => UnlockMayFail)
  /\ AppCalls(t, event, result, u)

\* The app locks or unlocks of its own accord: the user authenticates, the
\* screen goes off; EARLY_SUCCESS announces the end of the exit animation.
AppActs(t, u, event, result) ==
  /\ \/ result = "SUCC"
     \/ result = "EARLY" /\ event = "UNLOCK"
  /\ UNCHANGED inbox
  /\ AppCalls(t, event, result, u)

\* OnSystemEvent, its part on the listener.
OnSystemEvent ==
  /\ listener # "live"
  /\ listener' = "live"
  /\ UNCHANGED <<reqVars, unlockVec, lockVec, taskVars, isScreenlockedMap, appVars,
                 published, unlockReported, removed, restarts, deaths>>

\* The app dies: the service has no death recipient on systemEventListener_.
AppDies ==
  /\ listener = "live" /\ deaths < MaxDeaths
  /\ listener' = "dead"
  /\ inbox' = <<>>
  /\ deaths' = deaths + 1
  /\ UNCHANGED <<reqVars, unlockVec, lockVec, taskVars, isScreenlockedMap, call,
                 published, unlockReported, removed, restarts>>

-----------------------------------------------------------------------------
(* SendScreenLockEvent in the service.                                     *)

Step(t, where) ==
  call' = [call EXCEPT ![t] = IF where = "done" THEN Idle ELSE [@ EXCEPT !.pc = where]]

\* UnlockScreenEvent and LockScreenEvent up to the first lock they release:
\* the state of the user changes under screenLockMutex_.
SetState(t) ==
  LET c == call[t] IN
  /\ c # Idle /\ c.pc = "enter"
  /\ unlockReported' = IF c.event = "UNLOCK" /\ c.result \in {"SUCC", "EARLY", "ALREADY"}
                       THEN unlockReported \cup {c.user} ELSE unlockReported
  /\ IF c.result = "SUCC" \/ (c.event = "UNLOCK" /\ c.result = "EARLY")
     THEN SetScreenlocked(c.event = "LOCK", c.user)
     ELSE UNCHANGED isScreenlockedMap
  /\ Step(t, IF c.event = "LOCK" THEN "notify"
             ELSE IF c.result \in {"SUCC", "EARLY"} THEN "publish"
             ELSE IF c.result = "FAIL" THEN "done" ELSE "notify")
  /\ UNCHANGED <<reqVars, unlockVec, lockVec, taskVars, listener, inbox,
                 published, removed, restarts, deaths>>

\* PublishEvent of UnlockScreenEvent.
PublishUnlock(t) ==
  LET c == call[t] IN
  /\ c # Idle /\ c.pc = "publish"
  /\ published' = [published EXCEPT ![c.user] =
                     IF c.result = "EARLY" THEN "EXITING" ELSE "UNLOCKED"]
  /\ Step(t, IF c.result = "EARLY" THEN "done" ELSE "notify")
  /\ UNCHANGED <<reqVars, unlockVec, lockVec, taskVars, isScreenlockedMap, listener,
                 inbox, unlockReported, removed, restarts, deaths>>

\* NotifyUnlockListener: under unlockListenerMutex_ it only looks whether
\* the list is empty; the task sees the list as it is when it runs.
NotifyUnlockListener(t) ==
  LET c == call[t]
      k == [result |-> IF c.result = "ALREADY" THEN "SUCC" ELSE c.result, user |-> c.user]
  IN
  /\ c # Idle /\ c.event = "UNLOCK" /\ c.pc = "notify"
  /\ MutexFree
  /\ unlockTasks' = IF unlockVec # {} THEN [unlockTasks EXCEPT ![k] = @ + 1]
                    ELSE unlockTasks
  /\ Step(t, "done")
  /\ UNCHANGED <<reqVars, unlockVec, lockVec, lockTasks, serving, isScreenlockedMap,
                 listener, inbox, published, unlockReported, removed, restarts, deaths>>

\* The rest of LockScreenEvent: any result is passed on, and only a success
\* is published.
Mut_NotifyOnlySuccess(c) == lockVec # {} /\ c.result = "SUCC"

LockNotifies(c) == lockVec # {}

Mut_PublishIfAwaited(c) == c.result = "SUCC" /\ lockVec # {}

LockPublishes(c) == c.result = "SUCC"

NotifyLockListener(t) ==
  LET c == call[t] IN
  /\ c # Idle /\ c.event = "LOCK" /\ c.pc = "notify"
  /\ lockTasks' = IF LockNotifies(c) THEN [lockTasks EXCEPT ![c.result] = @ + 1]
                  ELSE lockTasks
  /\ published' = IF LockPublishes(c) THEN [published EXCEPT ![c.user] = "LOCKED"]
                  ELSE published
  /\ Step(t, "done")
  /\ UNCHANGED <<reqVars, unlockVec, lockVec, unlockTasks, serving, isScreenlockedMap,
                 listener, inbox, unlockReported, removed, restarts, deaths>>

-----------------------------------------------------------------------------
(* The tasks.                                                              *)

StartUnlockTask(k) ==
  /\ MutexFree /\ unlockTasks[k] > 0
  /\ unlockTasks' = [unlockTasks EXCEPT ![k] = @ - 1]
  /\ serving' = [on |-> TRUE, result |-> k.result, user |-> k.user, todo |-> unlockVec]
  /\ UNCHANGED <<reqVars, unlockVec, lockVec, lockTasks, isScreenlockedMap, listener,
                 appVars, published, unlockReported, removed, restarts, deaths>>

Mut_SameResultForAll(r) == serving.result

\* The result a listener on the list is called with: the task's own for a
\* caller of the same user, the state of its own user for any other.
UnlockResult(r) ==
  IF Owner[r] = serving.user THEN serving.result
  ELSE IF ScreenLocked(Owner[r]) THEN "FAIL" ELSE "SUCC"

CallbackUnlockListener(r) ==
  /\ serving.on /\ r \in serving.todo
  /\ answer' = [answer EXCEPT ![r] = UnlockResult(r)]
  /\ called' = [called EXCEPT ![r] = @ + 1]
  /\ serving' = [serving EXCEPT !.todo = @ \ {r}]
  /\ UNCHANGED <<pc, unlockVec, lockVec, unlockTasks, lockTasks, isScreenlockedMap,
                 listener, appVars, published, unlockReported, removed, restarts, deaths>>

Mut_ListKept == unlockVec

ClearedList == {}

EndUnlockTask ==
  /\ serving.on /\ serving.todo = {}
  /\ serving' = Free
  /\ unlockVec' = ClearedList
  /\ UNCHANGED <<reqVars, lockVec, unlockTasks, lockTasks, isScreenlockedMap, listener,
                 appVars, published, unlockReported, removed, restarts, deaths>>

\* The task of LockScreenEvent: one section of lockListenerMutex_.
RunLockTask(x) ==
  /\ lockTasks[x] > 0
  /\ lockTasks' = [lockTasks EXCEPT ![x] = @ - 1]
  /\ answer' = [r \in Reqs |-> IF r \in lockVec THEN x ELSE answer[r]]
  /\ called' = [r \in Reqs |-> IF r \in lockVec THEN called[r] + 1 ELSE called[r]]
  /\ lockVec' = {}
  /\ UNCHANGED <<pc, unlockVec, unlockTasks, serving, isScreenlockedMap, listener,
                 appVars, published, unlockReported, removed, restarts, deaths>>

-----------------------------------------------------------------------------
(* The life of the user accounts and of the process, as far as the request *)
(* flow sees them.                                                         *)

\* AuthStateInit, its section on isScreenlockedMap_.
AuthStateInit(u) ==
  /\ u \notin DOMAIN isScreenlockedMap
  /\ SetScreenlocked(TRUE, u)
  /\ UNCHANGED <<reqVars, unlockVec, lockVec, taskVars, listener, appVars, published,
                 unlockReported, removed, restarts, deaths>>

\* OnRemoveUser, its section on isScreenlockedMap_.
OnRemoveUser(u) ==
  /\ u \in DOMAIN isScreenlockedMap
  /\ isScreenlockedMap' = [v \in DOMAIN isScreenlockedMap \ {u} |-> isScreenlockedMap[v]]
  /\ removed' = removed \cup {u}
  /\ UNCHANGED <<reqVars, unlockVec, lockVec, taskVars, listener, appVars, published,
                 unlockReported, restarts, deaths>>

\* The process is killed and starts again: nothing of this state is stored.
\* A client blocked in its call sees the call fail.
Restart ==
  /\ restarts < MaxRestarts
  /\ restarts' = restarts + 1
  /\ pc' = [r \in Reqs |-> IF pc[r] = "idle" THEN "idle" ELSE "lost"]
  /\ unlockVec' = {} /\ lockVec' = {}
  /\ unlockTasks' = [k \in NotifyKinds |-> 0]
  /\ lockTasks' = [x \in {"SUCC", "FAIL", "CANCEL"} |-> 0]
  /\ serving' = Free
  /\ isScreenlockedMap' = [u \in {} |-> TRUE]
  /\ listener' = "none"
  /\ inbox' = <<>>
  /\ call' = [t \in AppThreads |-> Idle]
  /\ unlockReported' = {}
  /\ UNCHANGED <<answer, called, published, removed, deaths>>

-----------------------------------------------------------------------------
ClientStep ==
  \/ \E r \in UnlockReqs : UnlockInner(r)
  \/ \E r \in LockReqs : LockWithListener(r)
  \/ LockUserId

AppStep ==
  \/ \E t \in AppThreads, u \in Users, e \in {"UNLOCK", "LOCK"}, x \in Results :
       AppAnswers(t, u, e, x) \/ AppActs(t, u, e, x)
  \/ OnSystemEvent
  \/ AppDies

HandlerStep(t) ==
  SetState(t) \/ PublishUnlock(t) \/ NotifyUnlockListener(t) \/ NotifyLockListener(t)

TaskStep ==
  \/ \E k \in NotifyKinds : StartUnlockTask(k)
  \/ \E r \in UnlockReqs : CallbackUnlockListener(r)
  \/ EndUnlockTask
  \/ \E x \in {"SUCC", "FAIL", "CANCEL"} : RunLockTask(x)

AccountStep == \E u \in Users : AuthStateInit(u) \/ OnRemoveUser(u)

Next ==
  \/ ClientStep
  \/ AppStep
  \/ \E t \in AppThreads : HandlerStep(t)
  \/ TaskStep
  \/ AccountStep
  \/ Restart

Spec == Init /\ [][Next]_vars

\* A call that entered the service goes on, an ffrt task that was submitted
\* runs, and the app works through its queue (strong: its thread is often
\* busy with something else).
Fairness ==
  /\ \A r \in UnlockReqs : WF_vars(pc[r] = "half" /\ UnlockInner(r))
  /\ \A r \in LockReqs : WF_vars(pc[r] = "half" /\ LockWithListener(r))
  /\ \A t \in AppThreads : WF_vars(SetState(t)) /\ WF_vars(PublishUnlock(t))
                           /\ SF_vars(NotifyUnlockListener(t))
                           /\ WF_vars(NotifyLockListener(t))
  /\ SF_vars(\E t \in AppThreads, u \in Users, e \in {"UNLOCK", "LOCK"}, x \in Results :
               AppAnswers(t, u, e, x))
  /\ \A k \in NotifyKinds : SF_vars(StartUnlockTask(k))
  /\ WF_vars(\E r \in UnlockReqs : CallbackUnlockListener(r))
  /\ WF_vars(EndUnlockTask)
  /\ \A x \in {"SUCC", "FAIL", "CANCEL"} : WF_vars(RunLockTask(x))

FairSpec == Spec /\ Fairness

-----------------------------------------------------------------------------
(* Properties.                                                             *)

\* A listener is called at most once, whatever tasks pile up, late requests
\* join the list and accounts or the process come and go: the list is emptied
\* in the same section of the mutex that calls it
\* (NotifyUnlockListener, LockScreenEvent).
CalledAtMostOnce == \A r \in Reqs : called[r] <= 1

\* A client is told SCREEN_SUCC for an unlock request only if the app has
\* reported an unlocking of that client's own user to this process: an
\* unlocking of another user never makes its request succeed
\* (CallbackUnlockListener).
SuccessNeedsUnlock ==
  [][\A r \in UnlockReqs : answer[r] = "none" /\ answer'[r] = "SUCC"
       => Owner[r] \in unlockReported]_vars

\* The inductive form of CalledAtMostOnce: a listener that is still on a list
\* has not been called, except those the running task has passed.
OnceInv ==
  /\ CalledAtMostOnce
  /\ \A r \in Reqs : pc[r] = "idle" => r \notin unlockVec \cup lockVec /\ called[r] = 0
  /\ \A r \in unlockVec : (serving.on => r \in serving.todo) => called[r] = 0
  /\ \A r \in lockVec : called[r] = 0
  /\ serving.on => serving.todo \subseteq unlockVec

\* What the refinement needs besides: a request on a list is one that waits.
WaitingInv ==
  /\ \A r \in Reqs : called[r] = 0 <=> answer[r] = "none"
  /\ \A r \in unlockVec \cup lockVec : pc[r] \in {"half", "returned"}

\* The inductive form of SuccessNeedsUnlock: whatever may still make a request
\* of u succeed (the entry of u, a task, the task that runs, a handler on its
\* way to submit one) goes back to a report that u is unlocked.
ReportInv ==
  /\ \A u \in DOMAIN isScreenlockedMap : ~isScreenlockedMap[u] => u \in unlockReported
  /\ \A k \in NotifyKinds :
       k.result = "SUCC" /\ unlockTasks[k] > 0 => k.user \in unlockReported
  /\ serving.on /\ serving.result = "SUCC" => serving.user \in unlockReported
  /\ \A t \in AppThreads :
       call[t] # Idle /\ call[t].event = "UNLOCK" /\ call[t].pc # "enter"
         /\ call[t].result \in {"SUCC", "EARLY", "ALREADY"}
       => call[t].user \in unlockReported

\* What the app reports of one user it reports in one call after the other.
SerialCalls ==
  \A s, t \in AppThreads :
    s # t /\ call[s] # Idle /\ call[t] # Idle => call[s].user # call[t].user

\* The call changed the state of u and has not yet published it.
Publishing(t, u) ==
  /\ call[t] # Idle /\ call[t].user = u
  /\ \/ call[t].pc = "publish"
     \/ call[t].pc = "notify" /\ call[t].event = "LOCK" /\ call[t].result = "SUCC"

\* The published event and the stored state of a user differ only while a call
\* of that user is between the two, and then the state is the one it is about
\* to publish.
PublishedRight(u) ==
  /\ published[u] # "none" => u \in DOMAIN isScreenlockedMap
  /\ \A t \in AppThreads : Publishing(t, u) =>
       u \in DOMAIN isScreenlockedMap /\ isScreenlockedMap[u] = (call[t].event = "LOCK")
  /\ published[u] # "none" /\ (\A t \in AppThreads : ~Publishing(t, u)) =>
       isScreenlockedMap[u] = (published[u] = "LOCKED")

\* The inductive form of PublishedAgrees.
PublishedInv ==
  /\ \A t \in AppThreads :
       call[t] # Idle /\ call[t].pc = "publish" =>
         call[t].event = "UNLOCK" /\ call[t].result \in {"SUCC", "EARLY"}
  /\ restarts = 0 => \A u \in Users \ removed : PublishedRight(u)

\* The request flow keeps the promise of RequestPromise: what a client sees
\* of its request is new, waiting, lost or one answer that never changes.
Status(r) ==
  IF answer[r] # "none" THEN answer[r]
  ELSE IF pc[r] = "idle" THEN "new"
  ELSE IF pc[r] = "lost" THEN "lost"
  ELSE "waiting"

Promise == INSTANCE RequestPromise WITH
  status <- [r \in Reqs |-> Status(r)],
  unlocked <- unlockReported

KeepsPromise == Promise!Spec

\* An app that answers every event on one thread leaves, once its calls have
\* returned, the last published lock event of each user in agreement with
\* what IsScreenLocked answers, until the account is removed or the process
\* restarted.
PublishedAgrees ==
  (\A t \in AppThreads : call[t] = Idle) =>
    \A u \in DOMAIN isScreenlockedMap \ removed :
      published[u] # "none" /\ restarts = 0 =>
        (published[u] = "LOCKED") = isScreenlockedMap[u]

\* Every unlock request whose call begins while a live app is registered is
\* answered, if the app never answers SCREEN_FAIL, does not die and the
\* process is not restarted: also one that joins the list between the
\* submission of a task and its run.
UnlockAnswered ==
  \A r \in UnlockReqs : (pc[r] = "half" /\ listener = "live") ~> (answer[r] # "none")

\* The same for a lock request, even if the app answers SCREEN_FAIL.
LockAnswered ==
  \A r \in LockReqs : (pc[r] = "half" /\ listener = "live") ~> (answer[r] # "none")
=============================================================================
