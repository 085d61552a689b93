# Verification of the screen lock service

TLA+ models of `theme_screenlock_mgr`, the OpenHarmony system ability that
stands between applications, the screen lock app and the identity services:
it forwards lock and unlock requests, keeps the lock and authentication state
of every account, decides when the PIN is required, and tells listeners of all
of it. The models are checked with TLC on small instances and, for the
properties that matter most, proved with TLAPS for all values of the constants.

Paths below are relative to the repository; `ability.cpp` stands for
`services/src/screenlock_system_ability.cpp` and `client.cpp` for
`frameworks/native/src/screenlock_manager.cpp`.

## 1. The system

### 1.1 Processes, threads and channels

| process | role |
|---|---|
| service (SA 3704, in the `foundation` process) | `ScreenLockSystemAbility`, a singleton. IPC handlers run on binder threads, several at a time. `queue_` is a serial ffrt queue (display events, OnSystemReady, retries); `ffrt::submit` tasks run concurrently. Callbacks of the account, user-IDM, user-auth and time services arrive on threads of their own. |
| screen lock app | registers one `ScreenLockSystemAbilityInterface` (`systemEventListener_`); gets one-way `OnCallBack` events; reports by the synchronous `SendScreenLockEvent`. |
| clients | link `client.cpp` directly or through the NAPI and ANI layers. Calls are synchronous; callbacks to them (`OnCallBack`, `OnStateChanged`) are one-way. |
| external | SAMGR (death and start of abilities), accounts, user IDM and user auth (PIN events), time service (timers), display manager, common events. |

Each piece of shared state has its own mutex, and handlers take several of them
one after the other, never one for the whole operation. That is where the
difficulty lies: almost every operation is a *sequence of locked sections* which
interleaves with the sections of others.

### 1.2 Components

**Lock and unlock request flow** (`ability.cpp` 510-640, 1025-1230).
State: `unlockVecListeners_` with `unlockVecUserIds_`, `lockVecListeners_`,
`isScreenlockedMap_`, `systemEventListener_`, submitted ffrt tasks.
Operations: Unlock, UnlockScreen, Lock (two forms), SendScreenLockEvent with
five results, the two notifying tasks, PublishEvent. Hard: requests join a list
while a task that will answer the list is pending; two results are handled at a
time; the events to the app are one-way. Correct when each request is answered
at most once, is told of success only for its own user, is answered in the end,
and the published event agrees with the stored state.

**Strong-authentication manager** (`services/src/strongauthmanager.cpp`).
State: `strongAuthStateInfo` (user to reason), `strongAuthTimerInfo` (user to
timer id, period, stamp), the timers of the time service. Operations: the
answers and events of the identity services, the timer callback,
RequestStrongAuth, OnStop. Hard: the mutex is released between look-up, stop,
start and stamp of a timer; the query for a PIN is asynchronous. Correct when
no timer is lost or leaked, none is left stopped, the period table describes
the armed timer, the demand of a restart is not overridden, and listeners learn
of every change.

**Inner listener registry** (`services/src/innerlistenermanager.cpp`, `client.cpp`
293-343). State: `innerListenMap_`, `deathRecipientMap_` in the service, the
wrapper map of the library in each process. Operations: register, unregister,
notify, OnRemoteDied. Hard: client deaths handled in two sections, calls that
fail with the wrapper already recorded, a service that restarts empty. Correct
when both sides agree, and dead listeners are forgotten.

**Authentication state of the device lock** (`ability.cpp` 814-926). State:
`authStateInfo`. Operations: SetScreenLockAuthState, IsDeviceLocked,
GetScreenLockAuthState, AuthStateInit, removal of a user. Hard: notification
precedes the store, and is one-way while reading is a call. Correct when a
client that registers and then reads ends up with the current state.

**Disabled flag, unlock policy and preferences** (`ability.cpp` 764-812, 1316-1399,
`services/src/preferences_util.cpp`). State: keys of a preference file, in memory
and on disk. Operations: set and read the flag and the policy, their reset on
account and credential events. Hard: check and store are not one step; some
writes are not flushed. Correct when a disabled lock never coexists with a PIN
for good, and what was acknowledged survives a crash.

**Service lifecycle and readiness** (`ability.cpp` 181-394, 718-741). State:
`state_`, `queue_`, `instance_`, `systemReady_`. Operations: OnStart, Init and its
retry, the display registration and its 20 retries, OnSystemReady, OnStop. Hard:
polling on the queue that also carries the retry it waits for. Correct when
SYSTEM_READY reaches an app that registers.

**Display, user and credential events** (`ability.cpp` 60-180, 286-356,
`services/src/commeventsubscriber.cpp`). Stateless forwarding, in the order of
`queue_`.

**Watch app lock** (`watch/`). State: `unlockedRecord` of payment apps and its
observers, `isWearOn_`, `isWristUnlock_`, the registrations with sensor and
display. Operations: unlockScreen, IsScreenLocked, the wear, display, window and
setting events. Hard: they change, on other threads, what an unlockScreen has
read; one observer serves all apps; detached retry threads. Correct when an
unlocking ends with its window, the wearing or the setting, and each call returns.

**Client proxy and reconnection** (`client.cpp` 345-472). State: the cached proxy and
its death recipient, the listener of the app. Operations: GetProxy,
OnRemoteSaDied, OnSystemEvent. Hard: the system ability manager learns of a
death before or after the client does, so that a proxy may be fetched that is
dead already; a call that was given a proxy goes on with it. Correct when no
client keeps a dead proxy nobody will replace, and an app whose registration
died is told so.

**IPC marshalling** (`frameworks/native/src/screenlock_manager_proxy.cpp`,
`services/src/screenlock_manager_stub.cpp`). No state, but some twenty functions
whose arguments, codes and values must be read in the order they were written.

**NAPI and ANI bindings** (`frameworks/js/napi`, `frameworks/ets/ani`). State: the
promise or callback of each call, the work queued to the JavaScript loop. Operations:
the sixteen functions of the module, each in a synchronous, promise or callback
form, the listener callbacks, the hand-over to the JavaScript thread. Hard: a
request is answered by the return of the call or by a listener, on different
threads, whichever comes. Correct when every caller has one outcome, and it is
what the service decided, or what the app answered.

**Dump, system events, tests.** No protocol state.

### 1.3 Interactions

```
clients --Unlock/Lock--> request flow --one-way event--> screen lock app
   ^                          |  ^                             |
   +------ OnCallBack --------+  +---- SendScreenLockEvent ----+
clients --RegisterInnerListener--> registry <--notify-- strong auth, device lock
accounts, IDM, user auth, timers --> strong auth
accounts --> device lock, lock state, preferences

JavaScript --> NAPI / ANI --> library --> proxy ==parcel==> stub --> functions of the service
     ^--- loop <--- worker's return, listener's OnCallBack <===== callback tasks
SAMGR, binder --obituary--> library --serviceRestart--> app
```

## 2. Modules

| module | models | extends / uses |
|---|---|---|
| `RequestPromise` | what callers of Unlock and Lock are promised (abstract) | |
| `UnlockFlow` | request flow | implements `RequestPromise` |
| `StrongAuth` | strong-authentication manager | |
| `InnerListeners` | client library's wrapper map, registry, death recipients | |
| `DeviceLock` | authentication state and its notifications | composes with `InnerListeners` |
| `LockPreferences` | disabled flag, unlock policy, preference file | |
| `ServiceLifecycle` | start, stop, retries on the serial queue, SYSTEM_READY | |
| `WatchAppLock` | app lock of wearables | |
| `ClientProxy` | the library's proxy, its death recipient, the registration of the app | |
| `ScreenLockCommon` | the codes and results that travel | |
| `ScreenLockService` | what each function of the service answers and does, as an operator | `ScreenLockCommon` |
| `ScreenLockManagerProxy`, `ScreenLockManagerStub`, `ScreenLockManager` | parcels: writing a request, reading and executing it, reading the reply; the functions of the library | `ScreenLockService` |
| `NapiScreenLock`, `AniScreenLock` | the two bindings: what a function does with its arguments, the codes, the outcomes | `ScreenLockManager` |
| `CallPath` | a call from a binding to the service and back, while the service dies | composes the seven above over `ClientProxy` |
| `MC*` | instances for TLC | |
| `*_proofs` | theorems of `UnlockFlow`, `StrongAuth`, `InnerListeners`, `DeviceLock`, `LockPreferences`, `ServiceLifecycle`, `WatchAppLock`, and of `ClientProxy` and `CallPath` in `CallPath_proofs` | |

`Mut_` operators in the modules are faulty variants of the definition that
follows them. No action uses one; substituting one shows that the property it is
paired with in `PROJECT.json` depends on that piece of code.

### 2.1 UnlockFlow

| model | code |
|---|---|
| `UnlockInner(r)`: push, then event | `UnlockInner`; `pc[r] = "half"` is the point after the mutex is released |
| `LockWithListener(r)`, `LockUserId` | `Lock(listener)`, `Lock(userId)` |
| `SetState`, `PublishUnlock`, `NotifyUnlockListener`, `NotifyLockListener` | `SendScreenLockEvent`, split where it gives up a mutex: `UnlockScreenEvent`, `LockScreenEvent` |
| `StartUnlockTask`, `CallbackUnlockListener`, `EndUnlockTask` | the lambda of `NotifyUnlockListener`, which holds `unlockListenerMutex_`: one step per listener, because the lock state of other users may change in between |
| `RunLockTask` | the lambda of `LockScreenEvent` |
| `AuthStateInit`, `OnRemoveUser` | their sections on `isScreenlockedMap_` |
| `AppAnswers`, `AppActs`, `AppDies`, `OnSystemEvent` | the app (external) as the service sees it |
| `Restart` | the process dies; clients blocked in a call see it fail |

The two parallel vectors of listeners and users always change together under
one mutex and are a set of requests. `inbox` is the app's binder queue.
`unlockReported`, `removed`, `called`, `answer` and `published` are what
observers know.

### 2.2 StrongAuth

A callback is a *thread* with the list of sections still to run, `todo`; each
action named after a function of `strongauthmanager.cpp` is one locked section or
one call of the time service. `ResetStrongAuthTimer` therefore expands to look-up,
stop, arm and stamp, as in lines 253-283. One thread for each source (account,
credential, authentication, timer, query answer, client request), which is how
the services call back. `age` is the time since `credChangeTimerStamp`; `left` is
the time until a timer fires, `Off` for a stopped one. Time passes between
callbacks only: periods are hours, callbacks milliseconds.

### 2.3 InnerListeners and DeviceLock

A wrapper is a pair of listener and number, because each registration makes a new
`InnerListenerWrapper` and the service tells them apart as remote objects. A call
is sent and handled in different steps; the library's mutex allows one per
process. `OnRemoteDied` is two actions, as in lines 277-298 of
`innerlistenermanager.cpp`. `unsure` remembers the listeners one of whose calls was
lost: the code keeps the wrapper of a failed registration and never registers
again after a restart of the service, so that agreement can be claimed for the
others only.

`DeviceLock` adds the authentication states and a one-way queue per wrapper.
`SetScreenLockAuthState` notifies and `Store` stores, both inside
`authStateMutex_`; `IsDeviceLocked` is a reader's call; `Registration` is any step
of `InnerListeners`.

### 2.4 LockPreferences

As in `StrongAuth` a handler is a thread with the steps it still has to take; the
operators `FreshDisabledState`, `OnActiveUserSteps`, `OnReceiveEventSteps` and so on
are the bodies of the handlers, one entry per access to the preferences, the
accounts or the IDM. `disabled` and `policy` are the cache of the preferences
library, `file` what is on disk and `flushing` a Flush that is not carried out.
SaveBool is *put* and *flush*; the Refresh that follows it asks for the same and
is one with it. SetUnlockPolicy is a single action, because it holds
`authStateMutex_` from the look-up to the Flush. The PIN and the two events about
it (`OnNotifyCredChangeEvent`, `OnReceiveEvent`) belong to the IDM and the common
event service: the events arrive in any order, at any time, and not at all if the
service dies.

### 2.5 ServiceLifecycle

`main` is the thread of SAMGR in OnStart or OnStop, `call[a]` where the
OnSystemEvent call of registration `a` is, `queue_` and `running` the serial
queue. A poll is one task that takes a step for each of its tries, so that the
queue is occupied as long as the poll lasts; a delayed task becomes due at any
time after its submission. `attempts` and `overlap` are what an observer knows.

### 2.6 WatchAppLock

`elements`, `appStateObserver_` and `leaveWristSettingObserver_` change together
under the mutex of `unlockedRecord`; `isWearOn_` and `isWristUnlock_` are plain
members, and every read and write of one is a step. `unlock[a]` is where the
unlockScreen call of an app is: in the PIN dialog (`wait`, `waiting`, `woken`, which
tell a thread that sleeps on the condition variable from one that does not yet),
then about to add itself, to read the setting and the wear state and to store
the flag. `wear` and `onChange` are the positions of WearStateChange and
`LeaveWristSettingObserver::OnChange`. `tasks` counts the detached threads that
retry a registration. Two history variables name the cases in which the code
leaves something unlocked: `early`, apps hidden before they were on the record,
and `stale`, an unlocking on the wrist that an unlockScreen stored after the reset
it should have seen, or a setting turned off while nobody observed it.

### 2.7 ClientProxy

An incarnation of the service is a number, and a proxy is the incarnation it
refers to. What `managerProxyLock_` covers is one step: `GetProxy` looks up the
cached proxy and fetches one if there is none, `OnRemoteSaDied` fetches one and
tells the app. `running` is the truth, `samgr` what SAMGR hands out, which may be
behind (`SamgrNotices`) or ahead of the obituary. `pc[c]` is where a call is:
`fetched` a proxy, `stored` the listener (OnSystemEvent keeps it before it calls),
`sent`, `served` and `returned`. `AddDeathRecipient` ignores its own failure, as the
code does; `stale` remembers that it failed. The JS thread makes one synchronous
call at a time and takes `serviceRestart` events only in between (`JsBusy`).

### 2.8 CallPath and the modules of values

The bindings, parcels and functions of the service have no protocol state, so
they are operators. `NapiScreenLock!Init` and `AniScreenLock!BindMethods` give the
*plan* of a call: whether it throws at once, runs on the calling thread, on a
worker, or waits for a listener; who is told; and which function of the library it
calls. `ScreenLockManager` makes of this a request, `ScreenLockManagerStub!OnRemoteRequest`
reads the parcel, calls the operator of `ScreenLockService` and writes the reply,
and `ScreenLockManagerProxy!Result` reads it. A parcel is a sequence of numbers and
strings: a value written in another place than it is read, or a code read as a
value, is seen. `ScreenLockService` has the permission and system-app checks of
every handler; a function is one step of it, because the interleaving of its
sections is the subject of the other modules.

`CallPath` puts them on the steps of `ClientProxy`: `CallHandle` is `Handle` with what
the stub does, `CallFinish` is `Finish` with the outcome, or with what the worker
queues to the loop; `JsRuns` executes one entry of the loop. `RunTask` is a callback
task of ffrt, `AppAnswers` the app (external), `Dies` and `Starts` those of
`ClientProxy` with the state of the service, whose preferences survive. `direct`
is what the function the caller *meant* decides for the arguments it was given,
without the path; the properties compare the two. `told` is the answers the app has
given to a request, whether it reports them in `AppAnswers` or, when the caller is the
app, by a sendScreenLockEvent of its own (`Answered`).

## 3. Runs

| run | question | result |
|---|---|---|
| `unlock_flow` | Can another account's unlocking make my request succeed? Does the published event agree with the state? With an app that dies and a service that restarts: is a request answered once, with an answer that stays? (`KeepsPromise`, refinement) | no; yes; yes |
| `requests_live` | Is an unlock request that joins between submission and run of a task answered? Is a lock request, even if the lock failed? | yes; yes |
| `strong_auth` | Any callbacks interleave at every release of the mutex, OnStop included: timers exact, armed, AFTER_BOOT kept? Does a timer demand the PIN in the end? | yes |
| `strong_auth_serial` | With the documented periods 1, 3, 8, 24 and 72 hours: stored period describes the timer, stages advance only when over, NONE reaches listeners, 1 h after a change? | yes, if the callbacks of a user do not overlap |
| `strong_auth_overlap` | The 1 h after a change, if callbacks do overlap? | **no**, finding 1 |
| `strong_auth_boot` | Has the state of a restart the highest priority? | **no**, finding 2 |
| `device_lock` | Do library and service agree about listeners, is every registration watched, are dead ones forgotten? Does a client that registers and then reads know the current state, and is it never told the same twice? | yes; yes |
| `lock_preferences` | Does every flag reach the file, and can a policy outlive its user? Can a user with a PIN keep a disabled lock screen? Does a switch of users enable it again? | yes, no; no and no, until two handlers of the user overlap |
| `service_lifecycle` | Is the current user that of the registered app, do retries end, can a stopped service start? Is an app that registers with a ready service told? | yes |
| `service_readiness` | Is an app told that registers while the display registration is retried? | **no**, finding 3 |
| `watch_app_lock` | Is every unlocked app observed? Does an unlocking on the wrist end with the wearing and the setting? Is there one retry thread, and does every unlockScreen return? | yes, but for the named races; yes |
| `call_path` | For every function of both bindings and callers of every standing: is the caller told what the service decided, does the request do what was meant, is success claimed only when the app said so? One outcome for a call, and one in the end? No dead proxy that nobody replaces, no app left believing it is registered? | yes, but for an accepted request that a death, a missing app or an answer SCREEN_FAIL leaves unanswered |

### 3.1 Bounds, and why they are enough

* `UnlockFlow`: in `requests_live` two unlock requests and a lock request, which is
  what a race between requests and the tasks that answer them needs. In
  `unlock_flow` two accounts, since a result concerns one account and only "same
  or another" matters, one request, which every task may meet, one death of the
  app and one restart: nothing is stored across either. `MaxTasks = 1` allows one
  pending task for *each* result and user, so several different tasks still pile
  up. One app thread, because with two the published events of two results may
  come in either order, as `PublishedAgrees` says; the theorems hold for any number.
* `StrongAuth`: one account, because tables are indexed by user and no section
  looks at two. Three or four events overlap at most six sources; timers up to
  the number of events. `strong_auth_serial` uses the real periods, four events and
  no stops; the interleaved runs use shorter stages since they do not depend on
  the lengths.
* `InnerListeners` and `DeviceLock`: two processes, three listeners of both types, for
  user 0, the current user and all users, two registrations at most, one death, one
  restart. A behaviour starts in one of two ways (`Bounds` of `MCDeviceLock`): the
  listeners register and unregister and the states stay as they are, or two
  threads make three changes and the listener of strong authentication is done.
  The first is what agreement is about, the second what the current state is about;
  the theorems are about any mixture.
* `LockPreferences`: two users, because the active one and another are treated
  differently; one policy beside the default. Four calls, switches, removals and
  changes of the PIN, and one death of the service: the races are between two
  handlers and a PIN change. `overlapped` remembers whose handlers overlapped.
* `ServiceLifecycle`: two registrations, for two users; three tries and two retries
  stand for fifty and twenty, and the failures (`MaxFails`) go beyond the retries
  in `service_lifecycle`. One stop and one more start. In `service_readiness` a single
  failure is enough.
* `WatchAppLock`: two apps, because the observer they share goes with the last;
  five calls and changes outside, enough for an unlocking on the wrist that is
  ended by the sensor or the setting while the other app unlocks; two failures and
  two retries, so that a registration can give up and be taken up again.
* `CallPath`: at most two calls at once, because a call meets others only in the
  lists of listeners, the loop and the proxy, a registration of the app beside
  a request, and the app's report of a result beside a request. Two deaths: one with a call under way, another while its obituary is
  on its way. The scenarios combine binding, caller (the app, a system app with one
  permission, a third-party app, a native service), state (one that was used,
  with and without an app; one just started) and function with arguments of
  three accounts: present, foreground or not, and absent.

`CHECK_DEADLOCK FALSE` appears in the runs of the listeners, the preferences, the
lifecycle, the watch and the call path: there the bounded clients may all be dead or
finished, and a service at rest waits for calls.

### 3.2 Fairness

* `UnlockFlow`: a call or handler that has begun goes on (weak), an ffrt task that
  was submitted runs, listeners are called. Strong fairness where the step waits
  for a mutex others keep taking (`NotifyUnlockListener`, `StartUnlockTask`) and for
  the app's queue, whose thread is often busy with something else; C++ and ffrt
  mutexes do not starve a waiter for ever. No client is obliged to call, no user
  to act. The liveness instances exclude an app that dies or, for unlock, answers
  SCREEN_FAIL: the code then keeps the request on its list on purpose until the
  next result.
* `StrongAuth`: time passes, a timer that is due fires, callbacks run to their end.
* `InnerListeners`: binder delivers its obituaries. Nothing is asked of clients.
* `CallPath`: the thread of a call that has begun goes on, the JavaScript loop executes
  what was queued to it, a callback task that was submitted runs, and the app takes
  its events and answers requests. The service need not come back, and no
  obituary need arrive for a call to end.
* `ServiceLifecycle`: SAMGR starts the service and reports the display manager, the
  serial queue works through its tasks, a call that has begun ends. No app is
  obliged to register, and failures are bounded.
* `WatchAppLock`: the PIN dialog ends, with success or failure, as the user-auth
  service promises its caller; a call that has begun goes on.

## 4. Findings

1. *The first period after a change of the PIN.* `strongauthmanager.h:37` says the
   first strong authentication after a change is due after 1 h. When the change
   is reported while the answer to the credential query is between
   `InitStrongAuthStat` and `StartStrongAuthTimer`, `ResetStrongAuthTimer` finds no
   timer and calls `StartStrongAuthTimer`, which finds the one of 72 h that was
   meanwhile created and leaves it. Run `strong_auth_overlap`.
2. *The state of a restart.* `strongauthmanager.cpp:365` says that it has the highest
   priority. `InitStrongAuthStat` enters it only for an unknown user, so that a
   `RequestStrongAuth` before the query is answered keeps it out. Run
   `strong_auth_boot`.
3. *The readiness callback.* `README.md:5` promises a "screenlock manager service
   running status callback". When the first registration with the display manager
   fails, its retry waits on `queue_`. An app that registers meanwhile makes
   OnSystemReady poll on the same queue for fifty seconds for that registration to
   succeed. The retry runs when the poll has given up, `systemReady_` becomes
   true, and nobody sends SYSTEM_READY. Run `service_readiness`.

## 5. Proofs

Assumptions are those of the modules: bounds are naturals, `Owner` is a function,
`Stages` is an ascending nonempty sequence below `Default`, listeners have an
owner, a type and a user. Beyond that, `PublishedInAgreement`,
`PublishedByOneThread` and the theorems from `SerialInvariant` on state their own
hypotheses. Nothing is assumed about the number of accounts,
requests, threads, processes or about the bounds, which may be taken as large as
one likes.

| theorem | of | inductive invariant and why |
|---|---|---|
| `TypeCorrect` | `UnlockFlow` | itself |
| `CalledOnce` | `CalledAtMostOnce` | `OnceInv`: that a listener was called once at most does not say whether it will be called again; the invariant says that one on a list has not been called, except those the running task has passed, which leave the list before the mutex is free |
| `SuccessReported` | `SuccessNeedsUnlock` | `ReportInv`: what may still make a request succeed (stored state, pending task, running task, handler under way) goes back to a report of that user |
| `FlowKeepsPromise` | `KeepsPromise` | the two above with `WaitingInv`: a request on a list is one that waits. Every action is shown to be a step of the promise or a stutter |
| `PublishedInAgreement`, `PublishedByOneThread` | `PublishedAgrees` | `PublishedInv`: what was published of a user agrees with the stored state *or one call is about to publish* (`Publishing`), one for a user at a time. The first theorem assumes of the behaviour that the app reports the results of one user one after the other (`SerialCalls`, on any number of threads); the second derives that from a single app thread. With two threads reporting on one user at once the events may be published in the other order than the states were stored |
| `TypeCorrect` | `StrongAuth` | itself |
| `BootDemandKept` | `AfterBootSticky` | only types; a case per section |
| `NoTimerLeaks` | `TimerTableExact` | `TableInv`: with `FreshIds`, a new id is of no other timer and of no thread |
| `ArmedWhenQuiet` | `QuietMeansArmed` | `ArmedInv`: a stopped timer has a thread *about to arm it* (`OffMeansResetting`), which needs that a stop is always followed by an arm and that the id a thread carries is still its user's timer or gone (`StopThenArm`) |
| `SerialInvariant` | `StrongAuth` with `Serial` | `SerialInv`, on top of `ArmedInv`: of each user one callback at most is under way, at one of 21 places (`Todos`); outside a reset, stored period and stamp describe the timer (`PeriodInv`); a reset carries the first period or the stored one and the id of its user's timer (`ResetInv`); a NONE not yet told has its announcement to come, also across the unlocking of the account (`ToldInv`); after a change of the PIN the timer has the first period, or one callback is still on its way to give it and no other is in a position to take it away (`ChangedInv`). `Together` reduces the step of a callback to a statement about its own user, and the statements of the other users to those sections that touch no table of theirs |
| `TimerAsStored`, `NoneIsTold`, `FirstPeriodGiven`, `PeriodGrowsLate` | `PeriodMatchesTimer`, `NoneReachesListeners`, `FirstPeriodAfterChange`, `StageAdvance` | the above at rest, when no callback of the user is left; the last is an action property: only two sections write a period, and one of them writes one that is not longer (`PeriodWriters`). `FirstPeriodGiven` is about a service that was not stopped (`stops = 0`): OnStop destroys the timers. Without `Serial` the first-period statement is false, finding 1 |
| `ListenersTyped`, `AlwaysWatched`, `MapsInAgreement` | `InnerListeners` | `ListenersInv`: agreement also during a call (`AgreeAlways`), one user and type for a wrapper (`OnePerWrapper`, without which removing the first user leaves others), and that the library has the last wrapper made (`LastMade`, without which an obituary could remove a later registration) |
| `TypeCorrect` | `LockPreferences` | itself, with the order of the steps of each thread |
| `FlagsReachFile`, `PoliciesGo` | `FlagsWritten`, `NoPolicyOfRemoved` | `PreferencesInv`: a flag that is not in the file has a Flush outstanding or a thread with *only the Flush left*, which needs that a store is always the last step but one (`StepsOK`); a policy without its user has OnRemoveUser with *only its deletion left* |
| `FlagInvariant`, `PinRevokes`, `GrantLasts` | `NoDisabledWithPin`, `GrantKept` | `FlagInv`: each thread is at a place of its own handler (`InHandler`); a user with a PIN whose flag is on, *or is about to be stored*, has the event that revokes it still to come or in hand (`RevokeInv`); while a flag is granted, no handler that takes flags away is under way for the user (`GrantInv`). All of it is claimed of users whose handlers have not overlapped, which `overlapped` remembers, so that the step of one thread has one thread to look at |
| `DeviceTypeCorrect`, `ViewIsCurrent`, `NotificationsAlternate` | `DeviceLock` | `DeviceInv`, with `ListenersInv`: a wrong state a client has, or is about to be told, is followed in its queue by the right one (`AllCorrected`), which is what makes the next change differ from the last notification; of a user absent since the start nobody was told; a wrapper starts with an empty queue and is registered once (`FreshUntold`). That the mutex covers notification and store is `OneSetter` |
| `LifecycleTypeCorrect`, `CurrentUserRight`, `AttemptsEnd`, `StoppedCanStart` | `ServiceLifecycle` | `LifecycleInv`: there is one display retry at most, waiting or running, it carries the number of attempts made, and there is none once the service is RUNNING (`DisplayRetries`), so that none can set RUNNING after a stop; nobody can be registered while an Init that will reset the user goes on (`InitRetries`, `Registrations`). The tasks of the queue may be started in any order: the theorems do not use its order |
| `ClientTypeCorrect`, `ProxyIsAttended`, `AppIsInformed` | `ClientProxy` | `ClientInv`: incarnations not yet born are in no variable (`Known`); whatever refers to the running service comes with a death recipient (`Watched`), so that a death leaves an obituary; a registration that was accepted is followed until the app hears of it (`Informed`) |
| `PathUsesClient`, `PathConnection` | `CallPath` implements `ClientSpec`; `ProxyAttended`, `AppInformed` of `CallPath` | none beyond `ClientInv`: every step of a call with its arguments, of the loop, the tasks and the app is a step of the connection or leaves it alone |
| `EffectIsIntended` | `EffectIntended` | `Carried`: what is sent is the request of a call that makes one. The rest is about values: every plan of the two bindings and the library is computed for arbitrary arguments (`NapiPlans`, `AniPlans`, `NativePlans`), the stub's switch is shown to be a table of the functions of the service with their arguments in place (`StubTable`), and writing, serving and reading back a request to be the function meant (`ServesSent`) |
| `ReturnInvariant` | `CallPath` | `ReturnInv`, on top of `ClientInv`: until the service has handled a call nothing was decided on it; from then on the library's result agrees with the decision (`Agrees`), or a death has made both a failure, and a listener is held exactly when the result is OK |
| `OutcomesAreRight` | `OutcomeRight` | the above with `QueuesInv`: the loop has completions of calls that are *done*, whose result no step changes any more, and answers to *requests*, which is why the listeners in the service's lists must be known to be those of requests (`Waiters`), through every function of the service, the tasks and the app's reports; `GivenInv`: only a call that is done has given anything. `NapiRight` and `AniRight` then compare the codes and values of the bindings with those promised |
| `SettlesOnce` | `SettledOnce` | the above with `OnceInv`. A request may be answered before its own call returns, and its worker posts a refusal of its own, so the outcomes are counted where they may come from. `HeldInv`: the service holds the listener once, and while the one that accepted it runs nothing of the call is in the loop or given; `EarlyInv`: a call that was answered before it returned was accepted, so that its worker posts nothing, *or was cut off by a death* (`Outlived`), which is the one way to two outcomes; `Once`: otherwise one outcome, in the loop or given |
| `AnswersAreTrue` | `AnswerTrue` | `TasksTrue` (in `OnceInv`): a task passes on what the app told *each* call that waits for it, also one that came after the app spoke; `AnswersInv`: what is in the loop says so too (`Faithful`), and what the worker posts cannot be read as an answer, since no refusal has the number of one (`PostedIsNoAnswer`). It is about callers of the app's own user, as all the run's callers through a binding are: `CallbackUnlockListener` answers another user's request from that user's lock state, which `UnlockFlow` follows with several users |
| `WatchTypeCorrect`, `RegistrationAlwaysHeld`, `HiddenAreRelocked`, `WristUnlockEnds`, `SettingOffEnds` | `WatchAppLock` | `WatchInv`: a retry thread at work has an attempt left (`RetriesLeft`); who waits for the dialog is visible or was hidden early (`WaitingSeen`); a call *about to store* the flag saw the watch worn and the setting on, or the flag is excused (`AboutToStore`) |

Each invariant was first checked by TLC. Proving `PublishedInv` corrected the model: the
cases of `SetState` (`UnlockScreenEvent`, `LockScreenEvent`) overlapped, and a CASE may
take either where the code tests one result after the other; it is a chain of IFs now.
Proving `OutcomesAreRight` found that `told` left out what the app answers by a call
through its binding, and that `Shown` and `Unnamed` took a value below the named ones for
a named one; both follow the code now. `CallPathAssumption` says what a scenario is: its
calls are of functions its binding has, and the service holds no listener of an earlier
call. Of the invariants of `CallPath`, `QueuesInv`, `GivenInv`, `OnceInv` and `AnswersInv` were
checked on the scenarios of the run, and `ReturnInv` on its own, being slow to evaluate.
Every safety property of the passing runs is stated by a theorem.
The type invariants of `UnlockFlow`, `StrongAuth`,
`InnerListeners`, `LockPreferences`, `ServiceLifecycle`, `WatchAppLock` and `ClientProxy`
are stated by theorems and left out of the runs. Not proved, and only model-checked:

* the liveness properties `UnlockAnswered`, `LockAnswered`, `TimeoutDemands`,
  `DeadForgotten`, `ReadyTold`, `UnlockReturns`, `PromiseSettles` (the proof system has
  no `ENABLED` or fairness);
* the three refuted statements, which of course have no proof.

No module has a RECURSIVE operator; there is no algorithm in this code that
calls for one.

## 6. Not modelled

* The parcels that register and unregister an inner listener: the call is in
  `InnerListeners`, its marshalling is not.
* Display events (`ability.cpp` 417-523): each is a task on `queue_` that forwards one
  event; the only state they write, `screenState_` and its like, is read by dump alone.
  Their order is that of the queue by construction.
* The second service object: `OnStop` clears `instance_`, and a callback that calls
  `GetInstance` afterwards creates an object whose maps are empty and whose `queue_` is
  null, and Init would publish it. It would give every module that keeps the state of the
  service an object identity; `ServiceLifecycle` has one object.
* What a stop leaves of the strong-authentication state: `OnStop` destroys timers and
  keeps the table (hazard at `strongauthmanager.cpp:321`); `StrongAuth` has the stop, not
  the second start.
* The PRE_AUTH_RESULT event in `DeviceLock`: fire and forget; `CallPath` has it.
* Strings and tokens inside a parcel: a name is a member of a small set, a token is
  nothing.
* Parsing of preferences files, dump, system events, logging, tests, fuzzers.

Worth knowing, though no document says otherwise: SetUnlockPolicy stores any
number, which NAPI's getUnlockPolicy then refuses to name (`Unnamed`), and ANI's gives
null for every policy; UnlockWatch drops the refusal of UnlockScreen, so that its
caller is told OK and waits (`ScreenLockService!UnlockWatch`).

## 7. Plan

Done: all the modules of section 2, with the theorems of section 5. Left, in this order:

1. The second service object: an `instance` in `ServiceLifecycle`, and `UnlockFlow`
   composed with it in place of `Restart`, so that a stop meets requests under way.
2. The second start of `StrongAuth` in the same process.
