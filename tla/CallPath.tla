------------------------------ MODULE CallPath ------------------------------
(***************************************************************************)
(* A call from a JS or native program to the service and back: the binding   *)
(* (NapiScreenLock, AniScreenLock), the library (ScreenLockManager), the      *)
(* proxy and the stub, the functions of the service, the callback of the      *)
(* listener and the JS loop, over the connection of ClientProxy, whose calls  *)
(* fail and whose service dies and starts again.                            *)
(***************************************************************************)
EXTENDS ClientProxy, ScreenLockCommon, Sequences, SequencesExt

CONSTANTS Scenarios,  \* [binding, caller, store, asks : one ask per call]
          App,        \* the screen lock app, as a caller
          Results     \* what it answers to a request

Napi == INSTANCE NapiScreenLock
Ani == INSTANCE AniScreenLock
Manager == INSTANCE ScreenLockManager
Parcel == INSTANCE ScreenLockManagerProxy
Stub == INSTANCE ScreenLockManagerStub
Service == INSTANCE ScreenLockService

\* A call nobody makes.
NoAsk == [name |-> "none", args |-> <<>>]

\* The functions of the bindings, and those that only the library offers.
JsFunctions ==
  {"isScreenLocked", "isLocked", "isSecureMode", "lock", "unlock", "unlockScreen", "onSystemEvent",
   "sendScreenLockEvent", "isScreenLockDisabled", "setScreenLockDisabled", "setScreenLockAuthState",
   "getScreenLockAuthState", "requestStrongAuth", "getStrongAuth", "isDeviceLocked", "getUnlockPolicy"}
NativeFunctions == {"lockUser", "isLockedWithUserId", "setUnlockPolicy", "isLockedWatch", "unlockWatch"}

StoreFields ==
  {"locked", "auth", "strong", "disabled", "policy", "current", "listener", "unlocks", "locks", "tasks",
   "toApp", "appLocked", "widget", "active", "pins", "verified"}

\* A call is of a function its binding has, a listener is not null, and the
\* service holds no listener of an earlier call.
ASSUME CallPathAssumption ==
  /\ Parcel!NoListener \notin Calls
  /\ \A s \in Scenarios :
       /\ s.binding \in {"napi", "ani", "native"}
       /\ \A c \in Calls :
            \/ s.asks[c] = NoAsk
            \/ s.asks[c].name \in (IF s.binding = "native" THEN NativeFunctions ELSE JsFunctions)
       /\ s.store = [field \in StoreFields |-> s.store[field]]
       /\ s.store.unlocks = <<>> /\ s.store.locks = <<>> /\ s.store.tasks = <<>>

VARIABLES scenario,  \* who calls what; constant
          store,     \* the state of the service
          result,    \* what the library returns to each call
          loop,      \* what the JS loop has yet to execute
          outcome,   \* the outcomes each call was given
          direct,    \* history: what the service decided on each call
          told       \* history: the app's answers a call may be given

dataVars == <<scenario, store, result, loop, outcome, direct, told>>
vars == <<clientVars, dataVars>>

Ask(c) == scenario.asks[c]
Arg(c, i) == Ask(c).args[i].value

\* Functions that only the library offers.
NativeCall(c) ==
  CASE Ask(c).name = "lockUser"           -> Manager!LockUser(Arg(c, 1))
    [] Ask(c).name = "isLockedWithUserId" -> Manager!IsLockedWithUserId(Arg(c, 1))
    [] Ask(c).name = "setUnlockPolicy"    -> Manager!SetUnlockPolicy(Arg(c, 1), Arg(c, 2))
    [] Ask(c).name = "isLockedWatch"      -> Manager!IsLockedWatch
    [] Ask(c).name = "unlockWatch"        -> Manager!UnlockWatch(Arg(c, 1))

\* What a call will do.  The listener of a call is the call.
Plan(c) ==
  CASE Ask(c) = NoAsk -> [mode |-> "none"]
    [] Ask(c) # NoAsk /\ scenario.binding = "napi" -> Napi!Init(Ask(c).name, Ask(c).args, c)
    [] Ask(c) # NoAsk /\ scenario.binding = "ani" -> Ani!BindMethods(Ask(c).name, Ask(c).args, c)
    [] Ask(c) # NoAsk /\ scenario.binding = "native" ->
         [mode |-> "sync", to |-> "caller", gives |-> "raw", call |-> NativeCall(c)]

KindOf(c) ==
  IF Ask(c).name = "onSystemEvent" THEN "register"
  ELSE IF Plan(c).mode = "sync" THEN "sync" ELSE "async"

Request(c) == Plan(c).call.request

Unserved == [code |-> E_SCREENLOCK.SENDREQUEST_FAILED, value |-> 0]

Init ==
  /\ ClientInit
  /\ scenario \in Scenarios
  /\ kind = [c \in Calls |-> KindOf(c)]
  /\ store = scenario.store
  /\ result = [c \in Calls |-> Unserved]
  /\ loop = <<>>
  /\ outcome = [c \in Calls |-> <<>>]
  /\ direct = [c \in Calls |-> Unserved]
  /\ told = [c \in Calls |-> {}]

-----------------------------------------------------------------------------
(* Outcomes.                                                               *)

\* What the library's return makes of a synchronous call.
Returns(c) ==
  CASE scenario.binding = "napi"   -> Napi!Return(Plan(c), result[c])
    [] scenario.binding = "ani"    -> Ani!Returned(Plan(c), result[c])
    [] scenario.binding = "native" ->
         [to |-> "caller", ok |-> result[c].code = E_SCREENLOCK.OK,
          value |-> IF result[c].code = E_SCREENLOCK.OK THEN result[c].value ELSE result[c].code]

\* The worker's return: a completion, or the refusal of a request.
Completion(c) == [call |-> c, kind |-> "complete", event |-> [result |-> 0, code |-> 0]]
Callbacks(c, answers) ==
  [i \in DOMAIN answers |-> [call |-> c, kind |-> "callback", event |-> answers[i]]]

Posted(c) ==
  CASE Plan(c).mode = "async" -> <<Completion(c)>>
    [] Plan(c).mode = "listener" /\ scenario.binding = "napi" ->
         Callbacks(c, Napi!AsyncCallFunc(result[c].code))
    [] Plan(c).mode = "listener" /\ scenario.binding = "ani" ->
         Callbacks(c, Ani!ScreenLockRequest(result[c].code))

\* What the JS loop makes of it.
Settled(entry) ==
  LET plan == Plan(entry.call) IN
  CASE scenario.binding = "napi" /\ entry.kind = "complete" -> Napi!OnComplete(plan, result[entry.call])
    [] scenario.binding = "napi" /\ entry.kind = "callback" -> Napi!UvWorkOnCallBack(plan, entry.event)
    [] scenario.binding = "ani" /\ entry.kind = "complete" -> Ani!Returned(plan, result[entry.call])
    [] scenario.binding = "ani" /\ entry.kind = "callback" -> Ani!SendCallBackEvent(plan, entry.event)

Give(c, given) == outcome' = [outcome EXCEPT ![c] = Append(@, given)]

-----------------------------------------------------------------------------
(* Steps of a call.                                                        *)

\* The arguments were refused, or ask for nothing.
EndAtOnce(c) ==
  /\ Plan(c).mode = "ends" /\ outcome[c] = <<>>
  /\ ~JsBusy
  /\ Give(c, Plan(c).outcome)
  /\ UNCHANGED <<clientVars, scenario, store, result, loop, direct, told>>

CallBegin(c) ==
  /\ Plan(c).mode \notin {"none", "ends"}
  /\ Begin(c)
  /\ UNCHANGED dataVars

CallGetProxy(c) ==
  /\ GetProxy(c)
  /\ result' = IF proxy' = 0 THEN [result EXCEPT ![c] = Plan(c).call.absent] ELSE result
  /\ UNCHANGED <<scenario, store, loop, outcome, direct, told>>

Fails(c) == result' = [result EXCEPT ![c] = Parcel!Failed(Request(c))]

CallWithhold(c) ==
  /\ Withhold(c) /\ Request(c) = Parcel!NotSent
  /\ Fails(c)
  /\ UNCHANGED <<scenario, store, loop, outcome, direct, told>>

CallStoreListener(c) == StoreListener(c) /\ UNCHANGED dataVars

CallTransact(c) ==
  /\ Transact(c) /\ Request(c) # Parcel!NotSent
  /\ IF via[c] = running THEN UNCHANGED result ELSE Fails(c)
  /\ UNCHANGED <<scenario, store, loop, outcome, direct, told>>

\* What the function of the service that the caller meant decides.
Decides(c) ==
  LET caller == scenario.caller
      name == Ask(c).name
  IN CASE name = "isScreenLocked"         -> Service!Ok(Service!IsScreenLocked(caller, store), store)
       [] name = "isLocked"               -> Service!IsLocked(caller, store)
       [] name = "isSecureMode"           -> Service!Ok(Service!GetSecure(caller, store), store)
       [] name = "lock"                   -> Service!Lock(caller, store, c)
       [] name = "unlock"                 -> Service!Unlock(caller, store, c)
       [] name = "unlockScreen"           -> Service!UnlockScreen(caller, store, c)
       [] name = "onSystemEvent"          -> Service!OnSystemEvent(caller, store)
       [] name = "sendScreenLockEvent"    -> Service!SendScreenLockEvent(caller, store, Arg(c, 1), Arg(c, 2))
       [] name = "isScreenLockDisabled"   -> Service!IsScreenLockDisabled(caller, store, Arg(c, 1))
       [] name = "setScreenLockDisabled"  -> Service!SetScreenLockDisabled(caller, store, Arg(c, 1), Arg(c, 2))
       [] name = "setScreenLockAuthState" -> Service!SetScreenLockAuthState(caller, store, Arg(c, 1), Arg(c, 2), "")
       [] name = "getScreenLockAuthState" -> Service!GetScreenLockAuthState(caller, store, Arg(c, 1))
       [] name = "requestStrongAuth"      -> Service!RequestStrongAuth(caller, store, Arg(c, 1), Arg(c, 2))
       [] name = "getStrongAuth"          -> Service!GetStrongAuth(caller, store, Arg(c, 1))
       [] name = "isDeviceLocked"         -> Service!IsDeviceLocked(caller, store, Arg(c, 1))
       [] name = "getUnlockPolicy"        -> Service!GetUnlockPolicy(caller, store, Arg(c, 1))
       [] name = "lockUser"               -> Service!LockScreen(caller, store, Arg(c, 1))
       [] name = "isLockedWithUserId"     -> Service!IsLockedWithUserId(caller, store, Arg(c, 1))
       [] name = "setUnlockPolicy"        -> Service!SetUnlockPolicy(caller, store, Arg(c, 1), Arg(c, 2))
       [] name = "isLockedWatch"          -> Service!IsLockedWatch(caller, store)
       [] name = "unlockWatch"            -> Service!UnlockWatch(caller, store, Arg(c, 1))

\* Answers of the app that no task has passed on: they reach a call that comes now.
Unpassed(c) ==
  {task.result : task \in {x \in ToSet(store.tasks) : (x.kind = "lock") = (Ask(c).name = "lock")}}

\* The requests whose answer of the app it is, when the caller is the app.
Waiting(event) ==
  IF event = "lockScreen" THEN ToSet(store.locks)
  ELSE {store.unlocks[i].listener : i \in DOMAIN store.unlocks}

Answered(c) ==
  IF Ask(c).name # "sendScreenLockEvent" \/ Decides(c).code # E_SCREENLOCK.OK THEN {}
  ELSE CASE Arg(c, 1) = "lockScreenResult"   -> Waiting("lockScreen")
         [] Arg(c, 1) = "unlockScreenResult" -> Waiting("unlockScreen")
         [] OTHER                            -> {}

CallHandle(c) ==
  LET handled == Stub!OnRemoteRequest(Request(c).command, scenario.caller, store, Request(c).data)
  IN /\ Handle(c, Parcel!Read(handled.reply, 1) = E_SCREENLOCK.OK)
     /\ store' = handled.store
     /\ result' = [result EXCEPT ![c] = Parcel!Result(Request(c), handled.reply)]
     /\ direct' = [direct EXCEPT ![c] = [code |-> Decides(c).code, value |-> Decides(c).value]]
     /\ told' = [d \in Calls |-> IF d = c THEN Unpassed(c)
                                ELSE told[d] \cup (IF d \in Answered(c) THEN {Arg(c, 2)} ELSE {})]
     /\ UNCHANGED <<scenario, loop, outcome>>

CallReply(c) == Reply(c) /\ UNCHANGED dataVars

CallFinish(c) ==
  /\ Finish(c)
  /\ IF Plan(c).mode = "sync" THEN Give(c, Returns(c)) /\ UNCHANGED loop
     ELSE loop' = loop \o Posted(c) /\ UNCHANGED outcome
  /\ UNCHANGED <<scenario, store, result, direct, told>>

\* The JS loop takes what was queued to it; the task pool of uv does not keep
\* the order, the main runner of ANI does.
JsRuns(i) ==
  /\ ~JsBusy
  /\ scenario.binding = "ani" => \A j \in 1..(i - 1) : loop[j].kind # "callback"
  /\ Give(loop[i].call, Settled(loop[i]))
  /\ loop' = RemoveAt(loop, i)
  /\ UNCHANGED <<clientVars, scenario, store, result, direct, told>>

-----------------------------------------------------------------------------
(* The service and the app.                                                *)

\* A callback task of ffrt calls the listeners; a native one has no loop.
RunTask ==
  /\ running # 0 /\ store.tasks # <<>>
  /\ store' = Service!AfterTask(store)
  /\ LET called == Service!Called(store)
         event(result_) == IF scenario.binding = "napi" THEN Napi!OnCallBack(result_)
                           ELSE Ani!OnCallBack(result_)
     IN loop' = IF scenario.binding = "native" THEN loop
                ELSE loop \o [i \in DOMAIN called |->
                                [call |-> called[i].listener, kind |-> "callback",
                                 event |-> event(called[i].result)]]
  /\ UNCHANGED <<clientVars, scenario, result, outcome, direct, told>>

\* The app takes an event, and answers a request.
Answer(event) == IF event = "lockScreen" THEN "lockScreenResult" ELSE "unlockScreenResult"

AppAnswers ==
  /\ running # 0 /\ store.toApp # <<>>
  /\ LET event == Head(store.toApp)
         taken == [store EXCEPT !.toApp = Tail(@)]
     IN IF event \in {"lockScreen", "unlockScreen"}
        THEN \E answer \in Results :
               /\ store' = Service!SendScreenLockEvent(App, taken, Answer(event), answer).store
               /\ told' = [c \in Calls |-> told[c] \cup (IF c \in Waiting(event) THEN {answer} ELSE {})]
        ELSE store' = taken /\ UNCHANGED told
  /\ UNCHANGED <<clientVars, scenario, result, loop, outcome, direct>>

Dies ==
  /\ ServiceDies
  /\ LET cut == {c \in Calls : pc[c] \in {"sent", "served"}} IN
     /\ result' = [c \in Calls |-> IF c \in cut THEN Parcel!Failed(Request(c)) ELSE result[c]]
     /\ direct' = [c \in Calls |-> IF c \in cut THEN Unserved ELSE direct[c]]
  /\ UNCHANGED <<scenario, store, loop, outcome, told>>

Starts ==
  /\ ServiceStarts
  /\ store' = Service!Started(store)
  /\ UNCHANGED <<scenario, result, loop, outcome, direct, told>>

Connection ==
  /\ SamgrNotices \/ ServiceRestart \/ \E i \in obituaries : OnRemoteSaDied(i)
  /\ UNCHANGED dataVars

Next ==
  \/ \E c \in Calls : \/ EndAtOnce(c) \/ CallBegin(c) \/ CallGetProxy(c) \/ CallWithhold(c)
                      \/ CallStoreListener(c) \/ CallTransact(c) \/ CallHandle(c)
                      \/ CallReply(c) \/ CallFinish(c)
  \/ \E i \in DOMAIN loop : JsRuns(i)
  \/ RunTask \/ AppAnswers \/ Dies \/ Starts \/ Connection

\* Threads run, the app takes its events.
Fairness ==
  /\ \A c \in Calls : WF_vars(CallGetProxy(c) \/ CallWithhold(c) \/ CallStoreListener(c)
                              \/ CallTransact(c) \/ CallHandle(c) \/ CallReply(c) \/ CallFinish(c))
  /\ WF_vars(\E i \in DOMAIN loop : JsRuns(i))
  /\ WF_vars(RunTask) /\ WF_vars(AppAnswers)

Spec == Init /\ [][Next]_vars /\ Fairness

-----------------------------------------------------------------------------
(* Properties.                                                             *)

\* Codes a caller is promised for a refusal; another is given as it is.
Promised(code) ==
  CASE code = E_SCREENLOCK.NO_PERMISSION      -> 201
    [] code = E_SCREENLOCK.NOT_SYSTEM_APP     -> 202
    [] code = E_SCREENLOCK.NOT_FOCUS_APP      -> 13200003
    [] code = E_SCREENLOCK.USER_ID_INVALID    -> 13200004
    [] code = E_SCREENLOCK.SENDREQUEST_FAILED -> 13200002
    [] OTHER                                  -> code

Requests == {"onSystemEvent", "sendScreenLockEvent", "setScreenLockDisabled", "setScreenLockAuthState",
             "requestStrongAuth"}
Guesses == {"isScreenLocked", "isSecureMode"}

\* The value a JS caller is given for what the service decided.
Shown(c, value) ==
  CASE Ask(c).name \in Requests -> Bit(scenario.binding = "napi" \/ Ask(c).name # "requestStrongAuth")
    [] scenario.binding = "ani" /\ Ask(c).name = "getUnlockPolicy" -> -1
    [] scenario.binding = "ani" /\ Ask(c).name = "getScreenLockAuthState" /\ value \notin 0..6 -> -1
    [] OTHER -> value

\* SetUnlockPolicy takes any policy, and NAPI refuses to give one it has no name for.
Unnamed(c, value) == scenario.binding = "napi" /\ Ask(c).name = "getUnlockPolicy" /\ value \notin 0..2

Expected(c) ==
  LET decided == direct[c] IN
  IF decided.code = E_SCREENLOCK.OK /\ Unnamed(c, decided.value) THEN [ok |-> FALSE, value |-> 401]
  ELSE IF decided.code = E_SCREENLOCK.OK THEN [ok |-> TRUE, value |-> Shown(c, decided.value)]
  ELSE IF Ask(c).name \in Guesses THEN [ok |-> TRUE, value |-> 0]
  ELSE [ok |-> FALSE, value |-> Promised(decided.code)]

(* Whatever way a call takes, its caller is told what the function of the    *)
(* service it meant decided for the arguments it gave, or that the service   *)
(* is abnormal when no reply came: arguments, codes and values keep their    *)
(* places and meaning through both parcels and the binding.  A boolean        *)
(* question that cannot be asked is answered false.                         *)
OutcomeRight ==
  \A c \in Calls : Plan(c).mode \in {"sync", "async"} /\ scenario.binding # "native" =>
    \A given \in ToSet(outcome[c]) :
      /\ given.to = Plan(c).to
      /\ [ok |-> given.ok, value |-> given.value] = Expected(c)

(* What a request does to the service is what the function that the caller   *)
(* meant does to it for the arguments it gave.                              *)
EffectIntended ==
  [][\A c \in Calls : pc[c] = "sent" /\ pc'[c] = "served" => store' = Decides(c).store]_vars

(* A caller is told that the screen was locked or unlocked only when the app  *)
(* said so while the call was pending, or just before and its answer had not  *)
(* been passed on; and that the user gave up only when the user did.  It is   *)
(* about callers of the app's own user: another user's request is answered    *)
(* with that user's lock state, which is UnlockFlow's subject.              *)
AnswerTrue ==
  \A c \in Calls : Plan(c).mode = "listener" /\ scenario.caller.user = App.user =>
    \A given \in ToSet(outcome[c]) : given.ok =>
      told[c] \cap (IF Plan(c).gives = "UNLOCK" /\ given.value = 0 THEN {SCREEN.CANCEL}
                    ELSE {SCREEN.SUCC, SCREEN.ALREADY_UNLOCKED}) # {}

(* A call has one outcome: a promise is settled once and a callback, whose    *)
(* reference goes with the first call, is called once.  The one way to two   *)
(* is a service that answers the listener and dies before it replies.        *)
SettledOnce == \A c \in Calls : Len(outcome[c]) > 1 => via[c] # running /\ ~won[c] /\ told[c] # {}

\* An accepted request nobody will answer: the service died, it had no app to
\* tell, or the app gave an answer that ends nothing.
Dropped(c) ==
  /\ Plan(c).mode = "listener" /\ won[c]
  /\ \/ via[c] # running
     \/ told[c] \cap {SCREEN.FAIL, SCREEN.EARLY_SUCCESS} # {}
     \/ ~store.listener

(* A call that was begun has an outcome in the end, unless it is a request to *)
(* lock or unlock that the service accepted and then forgot.                *)
PromiseSettles == \A c \in Calls : pc[c] = "begun" ~> (outcome[c] # <<>> \/ Dropped(c))

-----------------------------------------------------------------------------
(* The inductive strengthening.                                            *)

\* A call that makes a request of the library.
Makes(c) == Plan(c).mode \notin {"none", "ends"}

Shapes ==
  /\ scenario \in Scenarios
  /\ result = [c \in Calls |-> result[c]] /\ direct = [c \in Calls |-> direct[c]]
  /\ outcome = [c \in Calls |-> outcome[c]] /\ told = [c \in Calls |-> told[c]]

\* Calls that were begun are made, and what is sent is a request.
Carried ==
  \A c \in Calls :
    /\ pc[c] # "idle" => Makes(c)
    /\ pc[c] \in {"sent", "served"} => Request(c) # Parcel!NotSent

\* What the functions of the service refuse with.
Codes ==
  {E_SCREENLOCK.NO_PERMISSION, E_SCREENLOCK.NOT_SYSTEM_APP, E_SCREENLOCK.NOT_FOCUS_APP,
   E_SCREENLOCK.USER_ID_INVALID, SCREEN.FAIL}

Valued(c) == Ask(c).name \notin Requests \cup {"lock", "unlock", "unlockScreen"}

\* What the library returns is what the service decided, or that it did not.
Agrees(c) ==
  IF direct[c] = Unserved
  THEN IF Ask(c).name \in Guesses THEN result[c] = [code |-> E_SCREENLOCK.OK, value |-> 0]
       ELSE result[c].code \in {E_SCREENLOCK.NULLPTR, E_SCREENLOCK.SENDREQUEST_FAILED}
  ELSE /\ result[c].code = direct[c].code /\ direct[c].code \in Codes \cup {E_SCREENLOCK.OK}
       /\ Ask(c).name \in Guesses => direct[c].code = E_SCREENLOCK.OK
       /\ direct[c].code = E_SCREENLOCK.OK /\ Valued(c) => result[c].value = direct[c].value

ResultInv(c) ==
  /\ pc[c] \in {"idle", "begun", "fetched", "stored", "sent"} => direct[c] = Unserved
  /\ pc[c] \in {"served", "returned", "done"} /\ scenario.binding # "native" =>
       /\ Agrees(c)
       /\ Plan(c).mode = "listener" => (won[c] <=> result[c].code = E_SCREENLOCK.OK)

ReturnInv == Shapes /\ Carried /\ \A c \in Calls : ResultInv(c)

Pending == {c \in Calls : Plan(c).mode = "listener"}

Listed(s) == s \in Seq(ToSet(s))
HasFields(s) == s = [field \in StoreFields |-> s[field]]

\* The listeners the service holds are those of requests.
Waiters(s) ==
  /\ HasFields(s) /\ Listed(s.unlocks) /\ Listed(s.locks) /\ Listed(s.tasks)
  /\ \A i \in DOMAIN s.unlocks : s.unlocks[i].listener \in Pending
  /\ \A i \in DOMAIN s.locks : s.locks[i] \in Pending

\* What is queued to the JS loop is the completion of a call that is done, or
\* an answer to a request.
Finished == {c \in Calls : pc[c] = "done"}
Completes(entry, finished) ==
  entry.kind = "complete" /\ entry.call \in finished /\ Plan(entry.call).mode = "async"
Queued(entries, finished) ==
  /\ Listed(entries)
  /\ \A i \in DOMAIN entries :
       Completes(entries[i], finished) \/ (entries[i].kind = "callback" /\ entries[i].call \in Pending)

QueuesInv ==
  /\ scenario.binding # "native" => Waiters(store)
  /\ scenario.binding = "native" => loop = <<>>
  /\ Queued(loop, Finished)

\* Outcomes of a call that gives what the library returned.
GivenInv ==
  \A c \in Calls :
    /\ Listed(outcome[c])
    /\ Plan(c).mode \in {"sync", "async"} /\ outcome[c] # <<>> => pc[c] = "done"

\* Where the service holds the listener of a call, and the loop an outcome of it.
Unlocking(s, c) == {i \in DOMAIN s.unlocks : s.unlocks[i].listener = c}
Locking(s, c) == {i \in DOMAIN s.locks : s.locks[i] = c}
Waits(s, c) == Unlocking(s, c) # {} \/ Locking(s, c) # {}
Coming(entries, c) == {i \in DOMAIN entries : entries[i].call = c}

Single(places) == \A i, j \in places : i = j

Reached == {"served", "returned", "done"}

\* A listener is held once, by the service that accepted it, until it is called.
HeldInv(c) ==
  /\ Single(Unlocking(store, c)) /\ Single(Locking(store, c))
  /\ IF Ask(c).name = "lock" THEN Unlocking(store, c) = {} ELSE Locking(store, c) = {}
  /\ Waits(store, c) => pc[c] \in Reached
  /\ Waits(store, c) /\ running # 0 => won[c] /\ Coming(loop, c) = {} /\ outcome[c] = <<>>

\* A call that is answered before it returns was accepted, or is cut off by then.
Outlived(c) == via[c] \notin {0, running} /\ ~won[c]
EarlyInv(c) ==
  Coming(loop, c) # {} \/ outcome[c] # <<>> =>
    /\ pc[c] \in Reached
    /\ pc[c] # "done" => told[c] # {} /\ (won[c] \/ (pc[c] = "returned" /\ Outlived(c)))

\* One outcome, given or in the loop.
Once(c) == Single(Coming(loop, c)) /\ Len(outcome[c]) <= 1 /\ (Coming(loop, c) # {} => outcome[c] = <<>>)

CallInv(c) == HeldInv(c) /\ EarlyInv(c) /\ (Once(c) \/ (Outlived(c) /\ told[c] # {}))

\* The app said so.
Means(answer) == IF answer = SCREEN.SUCC THEN {SCREEN.SUCC, SCREEN.ALREADY_UNLOCKED} ELSE {answer}
Truthful(c, answer) == told[c] \cap Means(answer) # {}

\* A task passes on what the app said to those who wait for it.
TasksTrue(c) ==
  \A i \in DOMAIN store.tasks :
    Waits(store, c) /\ (store.tasks[i].kind = "lock") = (Ask(c).name = "lock") =>
      Truthful(c, store.tasks[i].result)

OnceInv ==
  /\ scenario.binding # "native" => \A i \in DOMAIN store.tasks : store.tasks[i].kind \in {"unlock", "lock"}
  /\ \A c \in Calls \ Pending : Once(c)
  /\ \A c \in Pending : CallInv(c) /\ TasksTrue(c)

\* An answer that the loop is to give is one of the app's.
Faithful(entry) ==
  entry.kind = "callback" /\ entry.event.result \in {SCREEN.SUCC, SCREEN.CANCEL} =>
    Truthful(entry.call, entry.event.result)

\* What the service and the loop hold when the caller is a user of the app.
OwnAnswers == scenario.binding # "native" /\ scenario.caller.user = App.user
AnswersInv ==
  OwnAnswers =>
    /\ \A i \in DOMAIN store.unlocks : store.unlocks[i].user = App.user
    /\ \A i \in DOMAIN store.tasks : store.tasks[i].user = App.user
    /\ \A i \in DOMAIN loop : Faithful(loop[i])
=============================================================================
