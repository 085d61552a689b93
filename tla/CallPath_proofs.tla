--------------------------- MODULE CallPath_proofs ---------------------------
(***************************************************************************)
(* Calls from a binding to the service and back, for any programs of calls, *)
(* any number of them and any deaths of the service.                       *)
(*                                                                         *)
(* The connection.  The inductive invariant is ClientInv.  Known keeps       *)
(* incarnations that are not born yet out of every variable, so that a       *)
(* start makes nothing current; Watched gives every reference to the         *)
(* running service a death recipient, from which ServiceDies makes the       *)
(* obituary that ProxyAttended and AppInformed need; Informed carries        *)
(* AppInformed from the moment the service accepts the registration to the   *)
(* one the app hears of it.                                                *)
(*                                                                         *)
(* The request.  Carried says that what is sent is the request of a call     *)
(* that makes one; StubTable and ServesSent, that the stub's switch, with    *)
(* the parcel written in the order it is read, is the function meant.        *)
(*                                                                         *)
(* The answer.  ReturnInv carries what the service decided through the       *)
(* reply to the library's result, a death making it a failure instead.       *)
(* QueuesInv keeps the loop to completions of calls that are done and        *)
(* answers to requests, for which it follows the listeners through the       *)
(* service's lists; a completion then gives a result that no step changes    *)
(* any more.  GivenInv says that only calls that are done gave anything.     *)
(*                                                                         *)
(* The listener.  A request may be answered before its own call returns, and *)
(* its worker posts a refusal of its own, so that one outcome is not seen in *)
(* any one place.  HeldInv counts where the listener is: the service that    *)
(* accepted it holds it once, and as long as it does nothing of it is in the *)
(* loop.  EarlyInv says of an answer that came before the return that the    *)
(* call was accepted, so that its worker posts nothing, or that the service  *)
(* died before it replied, the one way to two outcomes (Outlived).  TasksTrue *)
(* follows what the app said through the task to those it is passed on to,   *)
(* and AnswersInv from there through the loop.                              *)
(***************************************************************************)
EXTENDS CallPath, TLAPS

-----------------------------------------------------------------------------
(* Incarnations.                                                           *)

\* Incarnations are numbers.
LEMMA IncarnationsAreNumbers == \A i \in Incarnations : i \in Nat /\ i <= MaxDeaths + 1
BY ClientAssumption DEF Incarnations

\* The state in which the library was loaded.
LEMMA InitKeeps == ClientInit => ClientInv
<1> SUFFICES ASSUME ClientInit PROVE ClientInv
  OBVIOUS
<1>1. ClientTypeOK
  <2>1. 0 \in Incarnations /\ 1 \in Incarnations
    BY ClientAssumption DEF Incarnations
  <2>2. pc \in [Calls -> Places]
    BY DEF ClientInit, Places
  <2>3. via \in [Calls -> Incarnations] /\ won \in [Calls -> BOOLEAN]
    BY <2>1 DEF ClientInit
  <2> QED
    BY <2>1, <2>2, <2>3 DEF ClientInit, ClientTypeOK
<1>2. Known /\ Watched /\ Underway /\ Informed /\ ProxyAttended /\ AppInformed
  BY ClientAssumption DEF ClientInit, Known, Watched, Underway, Informed, ProxyAttended, AppInformed
<1> QED
  BY <1>1, <1>2 DEF ClientInv

-----------------------------------------------------------------------------
(* One lemma per action.                                                   *)

\* A call begins.
LEMMA BeginKeeps ==
  ASSUME ClientInv, NEW c \in Calls, Begin(c)
  PROVE  ClientInv'
<1> USE DEF Begin, Goto, service, binder, app
<1>1. ClientTypeOK'
  BY DEF ClientInv, ClientTypeOK, Known, Incarnations, Places
<1>2. Known'
  BY DEF ClientInv, Known
<1>3. Watched'
  BY DEF ClientInv, Watched
<1>4. Underway'
  BY DEF ClientInv, Underway
<1>5. Informed'
  BY DEF ClientInv, Informed
<1>6. ProxyAttended'
  BY DEF ClientInv, ProxyAttended
<1>7. AppInformed'
  BY DEF ClientInv, AppInformed
<1> QED
  BY <1>1, <1>2, <1>3, <1>4, <1>5, <1>6, <1>7 DEF ClientInv

\* A call takes the proxy, or fetches one.
LEMMA GetProxyKeeps ==
  ASSUME ClientInv, NEW c \in Calls, GetProxy(c)
  PROVE  ClientInv'
<1> USE DEF GetProxy, GetScreenLockManagerProxy, AddDeathRecipient, Goto, service, app
<1>1. ClientTypeOK'
  <2>1. proxy' \in Incarnations /\ recipients' \subseteq Incarnations /\ stale' \subseteq Incarnations
    BY DEF ClientInv, ClientTypeOK
  <2>2. via' \in [Calls -> Incarnations]
    BY <2>1 DEF ClientInv, ClientTypeOK
  <2>3. pc' \in [Calls -> Places]
    BY DEF ClientInv, ClientTypeOK, Places
  <2> QED
    BY <2>1, <2>2, <2>3 DEF ClientInv, ClientTypeOK
<1>2. Known'
  BY DEF ClientInv, Known
<1>3. Watched'
  BY DEF ClientInv, Watched
<1>4. Underway'
  BY DEF ClientInv, ClientTypeOK, Underway
<1>5. Informed'
  BY DEF ClientInv, ClientTypeOK, Known, Watched, Underway, Informed
<1>6. ProxyAttended'
  BY DEF ClientInv, ProxyAttended
<1>7. AppInformed'
  BY DEF ClientInv, AppInformed
<1> QED
  BY <1>1, <1>2, <1>3, <1>4, <1>5, <1>6, <1>7 DEF ClientInv

\* A call without a listener.
LEMMA WithholdKeeps ==
  ASSUME ClientInv, NEW c \in Calls, Withhold(c)
  PROVE  ClientInv'
<1> USE DEF Withhold, Goto, service, binder, app
<1>1. ClientTypeOK'
  BY DEF ClientInv, ClientTypeOK, Known, Incarnations, Places
<1>2. Known'
  BY DEF ClientInv, Known
<1>3. Watched'
  BY DEF ClientInv, Watched
<1>4. Underway'
  BY DEF ClientInv, Underway
<1>5. Informed'
  BY DEF ClientInv, ClientTypeOK, Known, Watched, Underway, Informed
<1>6. ProxyAttended'
  BY DEF ClientInv, ProxyAttended
<1>7. AppInformed'
  BY DEF ClientInv, AppInformed
<1> QED
  BY <1>1, <1>2, <1>3, <1>4, <1>5, <1>6, <1>7 DEF ClientInv

\* OnSystemEvent keeps the listener.
LEMMA StoreListenerKeeps ==
  ASSUME ClientInv, NEW c \in Calls, StoreListener(c)
  PROVE  ClientInv'
<1> USE DEF StoreListener, Goto, service, binder
<1>1. ClientTypeOK'
  BY DEF ClientInv, ClientTypeOK, Known, Incarnations, Places
<1>2. Known'
  BY DEF ClientInv, Known
<1>3. Watched'
  BY DEF ClientInv, Watched
<1>4. Underway'
  BY DEF ClientInv, Underway
<1>5. Informed'
  BY DEF ClientInv, Informed
<1>6. ProxyAttended'
  BY DEF ClientInv, ProxyAttended
<1>7. AppInformed'
  BY DEF ClientInv, AppInformed
<1> QED
  BY <1>1, <1>2, <1>3, <1>4, <1>5, <1>6, <1>7 DEF ClientInv

\* A request is sent, or fails.
LEMMA TransactKeeps ==
  ASSUME ClientInv, NEW c \in Calls, Transact(c)
  PROVE  ClientInv'
<1> USE DEF Transact, Goto, service, binder, app
<1>1. ClientTypeOK'
  BY DEF ClientInv, ClientTypeOK, Known, Incarnations, Places
<1>2. Known'
  BY DEF ClientInv, Known
<1>3. Watched'
  BY DEF ClientInv, Watched
<1>4. Underway'
  BY DEF ClientInv, Underway
<1>5. Informed'
  BY DEF ClientInv, ClientTypeOK, Known, Watched, Underway, Informed
<1>6. ProxyAttended'
  BY DEF ClientInv, ProxyAttended
<1>7. AppInformed'
  BY DEF ClientInv, AppInformed
<1> QED
  BY <1>1, <1>2, <1>3, <1>4, <1>5, <1>6, <1>7 DEF ClientInv

\* The service executes a call.
LEMMA HandleKeeps ==
  ASSUME ClientInv, NEW c \in Calls, NEW accepts \in BOOLEAN, Handle(c, accepts)
  PROVE  ClientInv'
<1> USE DEF Handle, Goto, service, binder
<1>1. ClientTypeOK'
  BY DEF ClientInv, ClientTypeOK, Known, Incarnations, Places
<1>2. Known'
  BY DEF ClientInv, Known
<1>3. Watched'
  BY DEF ClientInv, Watched
<1>4. Underway'
  BY DEF ClientInv, ClientTypeOK, Underway
<1>5. Informed'
  BY DEF ClientInv, ClientTypeOK, Known, Watched, Underway, Informed
<1>6. ProxyAttended'
  BY DEF ClientInv, ProxyAttended
<1>7. AppInformed'
  BY DEF ClientInv, ClientTypeOK, Known, Watched, Underway, Informed, AppInformed
<1> QED
  BY <1>1, <1>2, <1>3, <1>4, <1>5, <1>6, <1>7 DEF ClientInv

\* The reply arrives.
LEMMA ReplyKeeps ==
  ASSUME ClientInv, NEW c \in Calls, Reply(c)
  PROVE  ClientInv'
<1> USE DEF Reply, Goto, service, binder, app
<1>1. ClientTypeOK'
  BY DEF ClientInv, ClientTypeOK, Known, Incarnations, Places
<1>2. Known'
  BY DEF ClientInv, Known
<1>3. Watched'
  BY DEF ClientInv, Watched
<1>4. Underway'
  BY DEF ClientInv, Underway
<1>5. Informed'
  BY DEF ClientInv, Informed
<1>6. ProxyAttended'
  BY DEF ClientInv, ProxyAttended
<1>7. AppInformed'
  BY DEF ClientInv, AppInformed
<1> QED
  BY <1>1, <1>2, <1>3, <1>4, <1>5, <1>6, <1>7 DEF ClientInv

\* A call returns to the app.
LEMMA FinishKeeps ==
  ASSUME ClientInv, NEW c \in Calls, Finish(c)
  PROVE  ClientInv'
<1> USE DEF Finish, Goto, service, binder
<1>1. ClientTypeOK'
  BY DEF ClientInv, ClientTypeOK, Known, Incarnations, Places
<1>2. Known'
  BY DEF ClientInv, Known
<1>3. Watched'
  BY DEF ClientInv, Watched
<1>4. Underway'
  BY DEF ClientInv, Underway
<1>5. Informed'
  BY DEF ClientInv, ClientTypeOK, Informed
<1>6. ProxyAttended'
  BY DEF ClientInv, ProxyAttended
<1>7. AppInformed'
  BY DEF ClientInv, ClientTypeOK, Known, Watched, Underway, Informed, AppInformed
<1> QED
  BY <1>1, <1>2, <1>3, <1>4, <1>5, <1>6, <1>7 DEF ClientInv

\* The service dies: what referred to it is among the recipients.
LEMMA ServiceDiesKeeps ==
  ASSUME ClientInv, ServiceDies
  PROVE  ClientInv'
<1> USE DEF ServiceDies, app
<1>1. ClientTypeOK'
  BY IncarnationsAreNumbers, ClientAssumption DEF ClientInv, ClientTypeOK, Known, Incarnations, Places
<1>2. Known'
  BY DEF ClientInv, Known
<1>3. Watched'
  BY DEF ClientInv, Watched
<1>4. Underway'
  BY DEF ClientInv, Underway
<1>5. Informed'
  BY DEF ClientInv, ClientTypeOK, Known, Watched, Underway, Informed
<1>6. ProxyAttended'
  BY DEF ClientInv, ClientTypeOK, Known, Watched, ProxyAttended
<1>7. AppInformed'
  BY DEF ClientInv, ClientTypeOK, Known, Watched, Underway, Informed, AppInformed
<1> QED
  BY <1>1, <1>2, <1>3, <1>4, <1>5, <1>6, <1>7 DEF ClientInv

\* It starts: nothing refers to the new incarnation yet.
LEMMA ServiceStartsKeeps ==
  ASSUME ClientInv, ServiceStarts
  PROVE  ClientInv'
<1> USE DEF ServiceStarts, binder, app
<1>1. ClientTypeOK'
  BY IncarnationsAreNumbers, ClientAssumption DEF ClientInv, ClientTypeOK, Known, Incarnations, Places
<1>2. Known'
  <2>1. born \in Nat /\ samgr \in Nat /\ proxy \in Nat /\ registered \in Nat
    BY IncarnationsAreNumbers DEF ClientInv, ClientTypeOK
  <2>2. \A c \in Calls : via[c] \in Nat /\ via[c] <= born
    BY IncarnationsAreNumbers DEF ClientInv, ClientTypeOK, Known
  <2>3. \A c \in Calls : via'[c] <= born'
    BY <2>1, <2>2
  <2> QED
    BY <2>1, <2>3 DEF ClientInv, Known
<1>3. Watched'
  BY DEF ClientInv, ClientTypeOK, Known, Watched, Underway
<1>4. Underway'
  BY DEF ClientInv, Underway
<1>5. Informed'
  BY DEF ClientInv, Informed
<1>6. ProxyAttended'
  BY DEF ClientInv, ProxyAttended
<1>7. AppInformed'
  BY DEF ClientInv, ClientTypeOK, Known, Watched, Underway, Informed, AppInformed
<1> QED
  BY <1>1, <1>2, <1>3, <1>4, <1>5, <1>6, <1>7 DEF ClientInv

\* The manager forgets the dead.
LEMMA SamgrNoticesKeeps ==
  ASSUME ClientInv, SamgrNotices
  PROVE  ClientInv'
<1> USE DEF SamgrNotices, binder, app
<1>1. ClientTypeOK'
  BY IncarnationsAreNumbers, ClientAssumption DEF ClientInv, ClientTypeOK, Known, Incarnations, Places
<1>2. Known'
  BY DEF ClientInv, ClientTypeOK, Known
<1>3. Watched'
  BY DEF ClientInv, Watched
<1>4. Underway'
  BY DEF ClientInv, Underway
<1>5. Informed'
  BY DEF ClientInv, Informed
<1>6. ProxyAttended'
  BY DEF ClientInv, ProxyAttended
<1>7. AppInformed'
  BY DEF ClientInv, AppInformed
<1> QED
  BY <1>1, <1>2, <1>3, <1>4, <1>5, <1>6, <1>7 DEF ClientInv

\* An obituary: the proxy is fetched again and the app is told.
LEMMA OnRemoteSaDiedKeeps ==
  ASSUME ClientInv, NEW i \in obituaries, OnRemoteSaDied(i)
  PROVE  ClientInv'
<1> USE DEF OnRemoteSaDied, GetScreenLockManagerProxy, AddDeathRecipient, Informs, service
<1>1. ClientTypeOK'
  BY DEF ClientInv, ClientTypeOK
<1>2. Known'
  BY DEF ClientInv, Known
<1>3. Watched'
  BY DEF ClientInv, Watched
<1>4. Underway'
  BY DEF ClientInv, Underway
<1>5. Informed'
  BY DEF ClientInv, ClientTypeOK, Informed
<1>6. ProxyAttended'
  BY DEF ClientInv, ProxyAttended
<1>7. AppInformed'
  BY DEF ClientInv, ClientTypeOK, Known, Watched, Underway, Informed, AppInformed
<1> QED
  BY <1>1, <1>2, <1>3, <1>4, <1>5, <1>6, <1>7 DEF ClientInv

\* The app hears of a restart.
LEMMA ServiceRestartKeeps ==
  ASSUME ClientInv, ServiceRestart
  PROVE  ClientInv'
<1> USE DEF ServiceRestart, JsBusy, service, binder
<1>1. ClientTypeOK'
  <2>1. events \in Nat /\ events > 0 /\ events' = events - 1
    BY DEF ClientInv, ClientTypeOK
  <2>2. events' \in Nat
    BY <2>1
  <2>3. believes' \in BOOLEAN
    OBVIOUS
  <2> QED
    BY <2>2, <2>3 DEF ClientInv, ClientTypeOK
<1>2. Known'
  BY DEF ClientInv, Known
<1>3. Watched'
  BY DEF ClientInv, Watched
<1>4. Underway'
  BY DEF ClientInv, Underway
<1>5. Informed'
  BY DEF ClientInv, Informed
<1>6. ProxyAttended'
  BY DEF ClientInv, ProxyAttended
<1>7. AppInformed'
  BY DEF ClientInv, AppInformed
<1> QED
  BY <1>1, <1>2, <1>3, <1>4, <1>5, <1>6, <1>7 DEF ClientInv

\* A step that changes nothing.
LEMMA StutterKeeps ==
  ASSUME ClientInv, UNCHANGED clientVars
  PROVE  ClientInv'
BY DEF clientVars, ClientInv, ClientTypeOK, Known, Watched, Underway, Informed, ProxyAttended, AppInformed

\* Any step.
LEMMA NextKeeps == ClientInv /\ [ClientNext]_clientVars => ClientInv'
<1> SUFFICES ASSUME ClientInv, [ClientNext]_clientVars PROVE ClientInv'
  OBVIOUS
<1>1. CASE UNCHANGED clientVars
  BY <1>1, StutterKeeps
<1>2. CASE ClientNext
  <2>1. ASSUME NEW c \in Calls, Begin(c) PROVE ClientInv'
    BY <2>1, BeginKeeps
  <2>2. ASSUME NEW c \in Calls, GetProxy(c) PROVE ClientInv'
    BY <2>2, GetProxyKeeps
  <2>3. ASSUME NEW c \in Calls, Withhold(c) PROVE ClientInv'
    BY <2>3, WithholdKeeps
  <2>4. ASSUME NEW c \in Calls, StoreListener(c) PROVE ClientInv'
    BY <2>4, StoreListenerKeeps
  <2>5. ASSUME NEW c \in Calls, Transact(c) PROVE ClientInv'
    BY <2>5, TransactKeeps
  <2>6. ASSUME NEW c \in Calls, NEW accepts \in BOOLEAN, Handle(c, accepts) PROVE ClientInv'
    BY <2>6, HandleKeeps
  <2>7. ASSUME NEW c \in Calls, Reply(c) PROVE ClientInv'
    BY <2>7, ReplyKeeps
  <2>8. ASSUME NEW c \in Calls, Finish(c) PROVE ClientInv'
    BY <2>8, FinishKeeps
  <2>9. CASE ServiceDies \/ ServiceStarts \/ SamgrNotices \/ ServiceRestart
    BY <2>9, ServiceDiesKeeps, ServiceStartsKeeps, SamgrNoticesKeeps, ServiceRestartKeeps
  <2>10. ASSUME NEW i \in obituaries, OnRemoteSaDied(i) PROVE ClientInv'
    BY <2>10, OnRemoteSaDiedKeeps
  <2> QED
    BY <1>2, <2>1, <2>2, <2>3, <2>4, <2>5, <2>6, <2>7, <2>8, <2>9, <2>10 DEF ClientNext
<1> QED
  BY <1>1, <1>2

-----------------------------------------------------------------------------
(* The theorems.                                                           *)

\* The inductive invariant of the library's connection.
THEOREM ClientInvariant == ClientSpec => []ClientInv
<1>1. ClientInit => ClientInv
  BY InitKeeps
<1>2. ClientInv /\ [ClientNext]_clientVars => ClientInv'
  BY NextKeeps
<1> QED
  BY <1>1, <1>2, PTL DEF ClientSpec

\* Incarnations, places and kinds are what they are called.
THEOREM ClientTypeCorrect == ClientSpec => []ClientTypeOK
<1>1. ClientInv => ClientTypeOK
  BY DEF ClientInv
<1> QED
  BY <1>1, ClientInvariant, PTL

\* The proxy GetProxy hands out is that of the running service, is about to
\* be replaced by OnRemoteSaDied, or was fetched dead.
THEOREM ProxyIsAttended == ClientSpec => []ProxyAttended
<1>1. ClientInv => ProxyAttended
  BY DEF ClientInv
<1> QED
  BY <1>1, ClientInvariant, PTL

\* The serviceRestart event of OnRemoteSaDied reaches every app that was told
\* it is registered and no longer is.
THEOREM AppIsInformed == ClientSpec => []AppInformed
<1>1. ClientInv => AppInformed
  BY DEF ClientInv
<1> QED
  BY <1>1, ClientInvariant, PTL

-----------------------------------------------------------------------------
(* The calls of CallPath.                                                  *)

\* A call is one of the kinds of the connection.
LEMMA PathInit == Init => ClientInit
<1>1. \A c \in Calls : KindOf(c) \in Kinds
  BY DEF KindOf, Kinds
<1>2. Init => kind \in [Calls -> Kinds]
  BY <1>1 DEF Init
<1> QED
  BY <1>2 DEF Init, ClientInit

\* Whatever a call carries, its step on the connection is one of ClientProxy,
\* with the acceptance the service decided; the loop, the tasks and the app
\* leave the connection alone.
LEMMA PathStep == [Next]_vars => [ClientNext]_clientVars
<1> SUFFICES ASSUME [Next]_vars PROVE [ClientNext]_clientVars
  OBVIOUS
<1>1. ASSUME NEW c \in Calls, CallHandle(c) PROVE \E accepts \in BOOLEAN : Handle(c, accepts)
  <2> DEFINE handled == Stub!OnRemoteRequest(Request(c).command, scenario.caller, store, Request(c).data)
             accepted == Parcel!Read(handled.reply, 1) = E_SCREENLOCK.OK
  <2>1. Handle(c, accepted) /\ accepted \in BOOLEAN
    BY <1>1 DEF CallHandle
  <2> QED
    BY <2>1
<1>2. ASSUME NEW c \in Calls,
             \/ CallBegin(c) \/ CallGetProxy(c) \/ CallWithhold(c) \/ CallStoreListener(c)
             \/ CallTransact(c) \/ CallReply(c) \/ CallFinish(c)
      PROVE  \/ Begin(c) \/ GetProxy(c) \/ Withhold(c) \/ StoreListener(c) \/ Transact(c)
             \/ Reply(c) \/ Finish(c)
  BY <1>2, Zenon DEF CallBegin, CallGetProxy, CallWithhold, CallStoreListener, CallTransact,
     CallReply, CallFinish
<1>3. ASSUME NEW c \in Calls, EndAtOnce(c) PROVE UNCHANGED clientVars
  BY <1>3, Zenon DEF EndAtOnce
<1>4. ASSUME NEW i \in DOMAIN loop, JsRuns(i) PROVE UNCHANGED clientVars
  BY <1>4, Zenon DEF JsRuns
<1>5. CASE RunTask \/ AppAnswers
  BY <1>5, Zenon DEF RunTask, AppAnswers
<1>6. CASE Dies \/ Starts \/ Connection
  BY <1>6, Zenon DEF Dies, Starts, Connection, ClientNext
<1>7. CASE UNCHANGED vars
  BY <1>7, Zenon DEF vars
<1> QED
  BY <1>1, <1>2, <1>3, <1>4, <1>5, <1>6, <1>7, Zenon DEF Next, ClientNext

\* A program that calls through NAPI, ANI or the native library uses the
\* connection as ClientProxy has it: CallPath implements ClientProxy.
THEOREM PathUsesClient == Spec => ClientSpec
BY PathInit, PathStep, PTL DEF Spec, ClientSpec

\* The proxy of OnRemoteSaDied and the serviceRestart event do for real calls,
\* with their arguments and answers, what they do for any.
THEOREM PathConnection == Spec => [](ProxyAttended /\ AppInformed)
<1>1. ClientInv => ProxyAttended /\ AppInformed
  BY DEF ClientInv
<1> QED
  BY <1>1, PathUsesClient, ClientInvariant, PTL

-----------------------------------------------------------------------------
(* The stub and the service.                                               *)

\* The stub's copy of the service and the module's own are one: its codes,
LEMMA SameCodes ==
  /\ Stub!Service!E_SCREENLOCK = Service!E_SCREENLOCK
  /\ Stub!Service!SCREEN = Service!SCREEN
  /\ Stub!Service!USER_NULL = Service!USER_NULL
BY DEF Stub!Service!E_SCREENLOCK, Service!E_SCREENLOCK, Stub!Service!SCREENLOCK_ERR_OFFSET,
   Service!SCREENLOCK_ERR_OFFSET, Stub!Service!SCREEN, Service!SCREEN, Stub!Service!USER_NULL, Service!USER_NULL

\* its helpers,
LEMMA SameHelpers ==
  /\ \A code, value, s : Stub!Service!Reply(code, value, s) = Service!Reply(code, value, s)
  /\ \A code, s : Stub!Service!Refuse(code, s) = Service!Refuse(code, s)
  /\ \A value, s : Stub!Service!Ok(value, s) = Service!Ok(value, s)
  /\ \A f, x, default : Stub!Service!Lookup(f, x, default) = Service!Lookup(f, x, default)
  /\ \A f, x, v : Stub!Service!Put(f, x, v) = Service!Put(f, x, v)
  /\ \A c, permission : Stub!Service!CheckPermission(c, permission) = Service!CheckPermission(c, permission)
  /\ \A c : Stub!Service!IsNativeAccess(c) = Service!IsNativeAccess(c)
  /\ \A c : Stub!Service!CheckSystemPermission(c) = Service!CheckSystemPermission(c)
  /\ \A c : Stub!Service!IsAppInForeground(c) = Service!IsAppInForeground(c)
  /\ \A s, event : Stub!Service!SystemEventCallBack(s, event) = Service!SystemEventCallBack(s, event)
  /\ \A b : Stub!Service!Bit(b) = Service!Bit(b)
  /\ \A s, pending, task : Stub!Service!Submit(s, pending, task) = Service!Submit(s, pending, task)
  /\ Stub!Service!AUTHED = Service!AUTHED
  /\ Stub!Service!PRE_AUTHED_RESULT = Service!PRE_AUTHED_RESULT
<1>1. \A code, value, s : Stub!Service!Reply(code, value, s) = Service!Reply(code, value, s)
  BY SameCodes, Zenon DEF Stub!Service!Reply, Service!Reply
<1>2. \A code, s : Stub!Service!Refuse(code, s) = Service!Refuse(code, s)
  BY SameCodes, Zenon DEF Stub!Service!Refuse, Service!Refuse, Stub!Service!Reply, Service!Reply
<1>3. \A value, s : Stub!Service!Ok(value, s) = Service!Ok(value, s)
  BY SameCodes, Zenon DEF Stub!Service!Ok, Service!Ok, Stub!Service!Reply, Service!Reply
<1>4. \A f, x, default : Stub!Service!Lookup(f, x, default) = Service!Lookup(f, x, default)
  BY SameCodes, Zenon DEF Stub!Service!Lookup, Service!Lookup
<1>5. \A f, x, v : Stub!Service!Put(f, x, v) = Service!Put(f, x, v)
  BY SameCodes, Zenon DEF Stub!Service!Put, Service!Put
<1>6. \A c, permission : Stub!Service!CheckPermission(c, permission) = Service!CheckPermission(c, permission)
  BY SameCodes, Zenon DEF Stub!Service!CheckPermission, Service!CheckPermission
<1>7. \A c : Stub!Service!IsNativeAccess(c) = Service!IsNativeAccess(c)
  BY SameCodes, Zenon DEF Stub!Service!IsNativeAccess, Service!IsNativeAccess
<1>8. \A c : Stub!Service!CheckSystemPermission(c) = Service!CheckSystemPermission(c)
  BY SameCodes, Zenon DEF Stub!Service!CheckSystemPermission, Service!CheckSystemPermission,
     Stub!Service!IsNativeAccess, Service!IsNativeAccess
<1>9. \A c : Stub!Service!IsAppInForeground(c) = Service!IsAppInForeground(c)
  BY SameCodes, Zenon DEF Stub!Service!IsAppInForeground, Service!IsAppInForeground
<1>10. \A s, event : Stub!Service!SystemEventCallBack(s, event) = Service!SystemEventCallBack(s, event)
  BY SameCodes, Zenon DEF Stub!Service!SystemEventCallBack, Service!SystemEventCallBack
<1>11. \A b : Stub!Service!Bit(b) = Service!Bit(b)
  BY SameCodes, Zenon DEF Stub!Service!Bit, Service!Bit
<1>12. \A s, pending, task : Stub!Service!Submit(s, pending, task) = Service!Submit(s, pending, task)
  BY SameCodes, Zenon DEF Stub!Service!Submit, Service!Submit
<1>13. Stub!Service!AUTHED = Service!AUTHED
  BY SameCodes, Zenon DEF Stub!Service!AUTHED, Service!AUTHED
<1>14. Stub!Service!PRE_AUTHED_RESULT = Service!PRE_AUTHED_RESULT
  BY SameCodes, Zenon DEF Stub!Service!PRE_AUTHED_RESULT, Service!PRE_AUTHED_RESULT
<1> QED
  BY <1>1, <1>2, <1>3, <1>4, <1>5, <1>6, <1>7, <1>8, <1>9, <1>10, <1>11, <1>12, <1>13, <1>14

\* and each function of ScreenLockSystemAbility that a command reaches.
LEMMA SameIsScreenLocked == \A c, s : Stub!Service!IsScreenLocked(c, s) = Service!IsScreenLocked(c, s)
BY SameCodes, SameHelpers, Zenon DEF Stub!Service!IsScreenLocked, Service!IsScreenLocked

LEMMA SameIsLocked == \A c, s : Stub!Service!IsLocked(c, s) = Service!IsLocked(c, s)
BY SameCodes, SameHelpers, Zenon DEF Stub!Service!IsLocked, Service!IsLocked, Stub!Service!IsScreenLocked,
   Service!IsScreenLocked

LEMMA SameIsLockedWithUserId == \A c, s, userId : Stub!Service!IsLockedWithUserId(c, s, userId) =
  Service!IsLockedWithUserId(c, s, userId)
BY SameCodes, SameHelpers, Zenon DEF Stub!Service!IsLockedWithUserId, Service!IsLockedWithUserId

LEMMA SameGetSecure == \A c, s : Stub!Service!GetSecure(c, s) = Service!GetSecure(c, s)
BY SameCodes, SameHelpers, Zenon DEF Stub!Service!GetSecure, Service!GetSecure

LEMMA SameIsScreenLockDisabled == \A c, s, userId : Stub!Service!IsScreenLockDisabled(c, s, userId) =
  Service!IsScreenLockDisabled(c, s, userId)
BY SameCodes, SameHelpers, Zenon DEF Stub!Service!IsScreenLockDisabled, Service!IsScreenLockDisabled

LEMMA SameGetScreenLockAuthState == \A c, s, userId : Stub!Service!GetScreenLockAuthState(c, s, userId) =
  Service!GetScreenLockAuthState(c, s, userId)
BY SameCodes, SameHelpers, Zenon DEF Stub!Service!GetScreenLockAuthState, Service!GetScreenLockAuthState

LEMMA SameGetStrongAuth ==
  \A c, s, userId : Stub!Service!GetStrongAuth(c, s, userId) = Service!GetStrongAuth(c, s, userId)
BY SameCodes, SameHelpers, Zenon DEF Stub!Service!GetStrongAuth, Service!GetStrongAuth

LEMMA SameIsDeviceLocked ==
  \A c, s, userId : Stub!Service!IsDeviceLocked(c, s, userId) = Service!IsDeviceLocked(c, s, userId)
BY SameCodes, SameHelpers, Zenon DEF Stub!Service!IsDeviceLocked, Service!IsDeviceLocked,
   Stub!Service!GetDeviceLockedStateByAuth, Service!GetDeviceLockedStateByAuth

LEMMA SameGetUnlockPolicy ==
  \A c, s, userId : Stub!Service!GetUnlockPolicy(c, s, userId) = Service!GetUnlockPolicy(c, s, userId)
BY SameCodes, SameHelpers, Zenon DEF Stub!Service!GetUnlockPolicy, Service!GetUnlockPolicy

LEMMA SameIsLockedWatch == \A c, s : Stub!Service!IsLockedWatch(c, s) = Service!IsLockedWatch(c, s)
BY SameCodes, SameHelpers, Zenon DEF Stub!Service!IsLockedWatch, Service!IsLockedWatch,
   Stub!Service!IsScreenLocked, Service!IsScreenLocked

LEMMA SameUnlockScreen ==
  \A c, s, listener : Stub!Service!UnlockScreen(c, s, listener) = Service!UnlockScreen(c, s, listener)
BY SameCodes, SameHelpers, Zenon DEF Stub!Service!UnlockScreen, Service!UnlockScreen, Stub!Service!UnlockInner,
   Service!UnlockInner

LEMMA SameUnlock == \A c, s, listener : Stub!Service!Unlock(c, s, listener) = Service!Unlock(c, s, listener)
BY SameCodes, SameHelpers, Zenon DEF Stub!Service!Unlock, Service!Unlock, Stub!Service!UnlockInner,
   Service!UnlockInner

LEMMA SameLock == \A c, s, listener : Stub!Service!Lock(c, s, listener) = Service!Lock(c, s, listener)
BY SameCodes, SameHelpers, Zenon DEF Stub!Service!Lock, Service!Lock

LEMMA SameLockScreen == \A c, s, userId : Stub!Service!LockScreen(c, s, userId) = Service!LockScreen(c, s, userId)
BY SameCodes, SameHelpers, Zenon DEF Stub!Service!LockScreen, Service!LockScreen

LEMMA SameOnSystemEvent == \A c, s : Stub!Service!OnSystemEvent(c, s) = Service!OnSystemEvent(c, s)
BY SameCodes, SameHelpers, Zenon DEF Stub!Service!OnSystemEvent, Service!OnSystemEvent

LEMMA SameSetUnlockPolicy == \A c, s, userId, policy : Stub!Service!SetUnlockPolicy(c, s, userId, policy) =
  Service!SetUnlockPolicy(c, s, userId, policy)
<1> SUFFICES ASSUME NEW c, NEW s, NEW userId, NEW policy
             PROVE  Stub!Service!SetUnlockPolicy(c, s, userId, policy) =
                      Service!SetUnlockPolicy(c, s, userId, policy)
  OBVIOUS
<1> DEFINE changed == [s EXCEPT !.policy = Service!Put(@, userId, policy)]
           told_ == Service!SystemEventCallBack(changed, "unlockPolicyChanged")
<1>1. [s EXCEPT !.policy = Stub!Service!Put(@, userId, policy)] = changed
  BY SameHelpers, Zenon
<1> HIDE DEF changed
<1>2. Stub!Service!SystemEventCallBack(changed, "unlockPolicyChanged") = told_
  BY SameHelpers, Zenon
<1> HIDE DEF told_
<1>3. /\ Stub!Service!CheckPermission(c, "ACCESS_SCREEN_LOCK") = Service!CheckPermission(c, "ACCESS_SCREEN_LOCK")
      /\ Stub!Service!IsNativeAccess(c) = Service!IsNativeAccess(c)
      /\ Stub!Service!Lookup(s.policy, userId, 0) = Service!Lookup(s.policy, userId, 0)
  BY SameHelpers, Zenon
<1>4. /\ Stub!Service!Refuse(Stub!Service!E_SCREENLOCK.NO_PERMISSION, s) =
           Service!Refuse(Service!E_SCREENLOCK.NO_PERMISSION, s)
      /\ Stub!Service!Refuse(Stub!Service!E_SCREENLOCK.USER_ID_INVALID, s) =
           Service!Refuse(Service!E_SCREENLOCK.USER_ID_INVALID, s)
      /\ Stub!Service!Ok(0, s) = Service!Ok(0, s)
      /\ Stub!Service!Ok(0, told_) = Service!Ok(0, told_)
  BY SameCodes, SameHelpers, Zenon
<1> QED
  BY <1>1, <1>2, <1>3, <1>4, Zenon DEF Stub!Service!SetUnlockPolicy, Service!SetUnlockPolicy, changed, told_

LEMMA SameUnlockWatch ==
  \A c, s, listener : Stub!Service!UnlockWatch(c, s, listener) = Service!UnlockWatch(c, s, listener)
<1> SUFFICES ASSUME NEW c, NEW s, NEW listener
             PROVE  Stub!Service!UnlockWatch(c, s, listener) = Service!UnlockWatch(c, s, listener)
  OBVIOUS
<1>1. /\ Stub!Service!IsScreenLocked(c, s) = Service!IsScreenLocked(c, s)
      /\ Stub!Service!UnlockScreen(c, s, listener) = Service!UnlockScreen(c, s, listener)
  BY SameIsScreenLocked, SameUnlockScreen, Zenon
<1> DEFINE shown == Service!Ok(0, [s EXCEPT !.widget = s.appLocked])
           store_ == Service!UnlockScreen(c, s, listener).store
<1>2. /\ Stub!Service!Refuse(Stub!Service!E_SCREENLOCK.NOT_SYSTEM_APP, s) =
           Service!Refuse(Service!E_SCREENLOCK.NOT_SYSTEM_APP, s)
      /\ Stub!Service!Ok(0, store_) = Service!Ok(0, store_)
      /\ Stub!Service!Ok(0, [s EXCEPT !.widget = s.appLocked]) = shown
  BY SameCodes, SameHelpers, Zenon
<1> HIDE DEF shown, store_
<1> QED
  BY <1>1, <1>2, Zenon DEF Stub!Service!UnlockWatch, Service!UnlockWatch, shown, store_

LEMMA SameFreshDisabledState == \A s, disable, userId : Stub!Service!FreshDisabledState(s, disable, userId) =
  Service!FreshDisabledState(s, disable, userId)
BY SameHelpers DEF Stub!Service!FreshDisabledState, Service!FreshDisabledState

LEMMA SameSetScreenLockDisabled ==
  \A c, s, disable, userId :
    Stub!Service!SetScreenLockDisabled(c, s, disable, userId) =
      Service!SetScreenLockDisabled(c, s, disable, userId)
<1> SUFFICES ASSUME NEW c, NEW s, NEW disable, NEW userId
             PROVE  Stub!Service!SetScreenLockDisabled(c, s, disable, userId) =
                      Service!SetScreenLockDisabled(c, s, disable, userId)
  OBVIOUS
<1> DEFINE fresh == Service!FreshDisabledState(s, disable, userId)
<1>1. /\ Stub!Service!FreshDisabledState(s, disable, userId) = fresh
      /\ Stub!Service!GetSecure(c, s) = Service!GetSecure(c, s)
      /\ Stub!Service!CheckPermission(c, "ACCESS_SCREEN_LOCK") = Service!CheckPermission(c, "ACCESS_SCREEN_LOCK")
  BY SameFreshDisabledState, SameGetSecure, SameHelpers, Zenon
<1> HIDE DEF fresh
<1>2. /\ Stub!Service!Refuse(Stub!Service!SCREEN.FAIL, s) = Service!Refuse(Service!SCREEN.FAIL, s)
      /\ Stub!Service!Refuse(Stub!Service!E_SCREENLOCK.NO_PERMISSION, s) =
           Service!Refuse(Service!E_SCREENLOCK.NO_PERMISSION, s)
      /\ Stub!Service!Ok(0, fresh) = Service!Ok(0, fresh)
  BY SameCodes, SameHelpers, Zenon
<1> QED
  BY <1>1, <1>2, Zenon DEF Stub!Service!SetScreenLockDisabled, Service!SetScreenLockDisabled, fresh

LEMMA SamePreAuthStateNotify == \A s, authState, userId : Stub!Service!PreAuthStateNotify(s, userId, authState) =
  Service!PreAuthStateNotify(s, userId, authState)
BY SameHelpers, Zenon DEF Stub!Service!PreAuthStateNotify, Service!PreAuthStateNotify

LEMMA SameSetScreenLockAuthState ==
  \A c, s, authState, userId, authToken :
    Stub!Service!SetScreenLockAuthState(c, s, authState, userId, authToken) =
      Service!SetScreenLockAuthState(c, s, authState, userId, authToken)
<1> SUFFICES ASSUME NEW c, NEW s, NEW authState, NEW userId, NEW authToken
             PROVE  Stub!Service!SetScreenLockAuthState(c, s, authState, userId, authToken) =
                      Service!SetScreenLockAuthState(c, s, authState, userId, authToken)
  OBVIOUS
<1> DEFINE a == [s EXCEPT !.auth = Service!Put(@, userId, authState)]
<1>1. [s EXCEPT !.auth = Stub!Service!Put(@, userId, authState)] = a
  BY SameHelpers
<1> HIDE DEF a
<1> QED
BY <1>1, SamePreAuthStateNotify, SameCodes, SameHelpers, SMT DEF Stub!Service!SetScreenLockAuthState,
   Service!SetScreenLockAuthState, a

LEMMA SameStrongAuthChanged ==
  \A s, userId : Stub!Service!StrongAuthChanged(s, userId) = Service!StrongAuthChanged(s, userId)
BY SameHelpers, Zenon DEF Stub!Service!StrongAuthChanged, Service!StrongAuthChanged

LEMMA SameRequestStrongAuth ==
  \A c, s, reasonFlag, userId :
    Stub!Service!RequestStrongAuth(c, s, reasonFlag, userId) =
      Service!RequestStrongAuth(c, s, reasonFlag, userId)
BY SameStrongAuthChanged, SameCodes, SameHelpers, SMT DEF Stub!Service!RequestStrongAuth,
   Service!RequestStrongAuth

LEMMA SameNotifyUnlockListener == \A c, s, result_ : Stub!Service!NotifyUnlockListener(c, s, result_) =
  Service!NotifyUnlockListener(c, s, result_)
BY SameHelpers, Zenon DEF Stub!Service!NotifyUnlockListener, Service!NotifyUnlockListener

LEMMA SameUnlockScreenEvent == \A c, s, result_ : Stub!Service!UnlockScreenEvent(c, s, result_) =
  Service!UnlockScreenEvent(c, s, result_)
BY SameNotifyUnlockListener, SameCodes, SameHelpers, SMT DEF Stub!Service!UnlockScreenEvent,
   Service!UnlockScreenEvent

LEMMA SameLockScreenEvent == \A c, s, result_ : Stub!Service!LockScreenEvent(c, s, result_) =
  Service!LockScreenEvent(c, s, result_)
BY SameCodes, SameHelpers, SMT DEF Stub!Service!LockScreenEvent, Service!LockScreenEvent

LEMMA SameSendScreenLockEvent == \A c, s, event, param : Stub!Service!SendScreenLockEvent(c, s, event, param) =
  Service!SendScreenLockEvent(c, s, event, param)
<1> SUFFICES ASSUME NEW c, NEW s, NEW event, NEW param
             PROVE  Stub!Service!SendScreenLockEvent(c, s, event, param) =
                      Service!SendScreenLockEvent(c, s, event, param)
  OBVIOUS
<1> DEFINE unlocked == Service!UnlockScreenEvent(c, s, param)
           locked == Service!LockScreenEvent(c, s, param)
<1>1. /\ Stub!Service!UnlockScreenEvent(c, s, param) = unlocked
      /\ Stub!Service!LockScreenEvent(c, s, param) = locked
      /\ Stub!Service!CheckPermission(c, "ACCESS_SCREEN_LOCK_INNER") =
           Service!CheckPermission(c, "ACCESS_SCREEN_LOCK_INNER")
  BY SameUnlockScreenEvent, SameLockScreenEvent, SameHelpers, Zenon
<1> HIDE DEF unlocked, locked
<1>2. /\ Stub!Service!Refuse(Stub!Service!E_SCREENLOCK.NOT_SYSTEM_APP, s) =
           Service!Refuse(Service!E_SCREENLOCK.NOT_SYSTEM_APP, s)
      /\ Stub!Service!Refuse(Stub!Service!E_SCREENLOCK.NO_PERMISSION, s) =
           Service!Refuse(Service!E_SCREENLOCK.NO_PERMISSION, s)
      /\ \A after : Stub!Service!Ok(0, after) = Service!Ok(0, after)
  BY SameCodes, SameHelpers, Zenon
<1> QED
  BY <1>1, <1>2, Zenon DEF Stub!Service!SendScreenLockEvent, Service!SendScreenLockEvent, unlocked, locked

\* Serving a request is what the function that decided meant: the stub leaves the
\* store the function leaves, and the proxy reads from the reply its code and value.
Serves(request, k, s, decided) ==
  LET handled == Stub!OnRemoteRequest(request.command, k, s, request.data)
      got == Parcel!Result(request, handled.reply)
  IN /\ handled.store = decided.store
     /\ request.reads = "bool" => got = [code |-> E_SCREENLOCK.OK, value |-> decided.value]
     /\ request.reads # "bool" =>
          /\ got.code = decided.code /\ Parcel!Read(handled.reply, 1) = decided.code
          /\ decided.code = E_SCREENLOCK.OK /\ request.reads # "code" => got.value = decided.value

\* ScreenLockCommon's codes are the same in every module: in the service's,
LEMMA ServiceErrors == 
  /\ Parcel!E_SCREENLOCK = E_SCREENLOCK /\ Stub!E_SCREENLOCK = E_SCREENLOCK /\ Service!E_SCREENLOCK = E_SCREENLOCK
BY DEF Parcel!E_SCREENLOCK, Stub!E_SCREENLOCK, Service!E_SCREENLOCK, E_SCREENLOCK, Parcel!SCREENLOCK_ERR_OFFSET,
   Stub!SCREENLOCK_ERR_OFFSET, Service!SCREENLOCK_ERR_OFFSET, SCREENLOCK_ERR_OFFSET

\* and in the bindings'.
LEMMA BindingErrors ==
  /\ Napi!E_SCREENLOCK = E_SCREENLOCK /\ Ani!E_SCREENLOCK = E_SCREENLOCK /\ Manager!E_SCREENLOCK = E_SCREENLOCK
BY DEF Napi!E_SCREENLOCK, Ani!E_SCREENLOCK, Manager!E_SCREENLOCK, E_SCREENLOCK, Napi!SCREENLOCK_ERR_OFFSET,
   Ani!SCREENLOCK_ERR_OFFSET, Manager!SCREENLOCK_ERR_OFFSET, SCREENLOCK_ERR_OFFSET

\* What is read at the places of a short parcel.
LEMMA ReadAt == \A x, y : /\ Parcel!Read(<<x>>, 1) = x /\ Parcel!Read(<<x, y>>, 1) = x /\ Parcel!Read(<<x, y>>, 2) = y
   /\ Stub!Parcel!Read(<<x>>, 1) = x /\ Stub!Parcel!Read(<<x, y>>, 1) = x /\ Stub!Parcel!Read(<<x, y>>, 2) = y
   /\ Parcel!Read(<<>>, 1) = 0 /\ Stub!Parcel!Read(<<>>, 1) = 0
   /\ <<x>> # <<>> /\ <<x, y>> # <<>>
BY DEF Parcel!Read, Stub!Parcel!Read

\* A reply that carries a code alone: GetServiceResult of the requests.
LEMMA ReadsCode == ASSUME NEW request, NEW k, NEW s, NEW decided, request.reads = "code",
   Stub!OnRemoteRequest(request.command, k, s, request.data) = [reply |-> <<decided.code>>, store |-> decided.store]
   PROVE Serves(request, k, s, decided)
BY ReadAt DEF Serves, Parcel!Result

\* A reply that carries a boolean alone, of IsScreenLocked and GetSecure.
LEMMA ReadsBool == ASSUME NEW request, NEW k, NEW s, NEW decided, request.reads = "bool",
   Stub!OnRemoteRequest(request.command, k, s, request.data) = [reply |-> <<decided.value>>, store |-> decided.store]
   PROVE Serves(request, k, s, decided)
BY ReadAt, ServiceErrors DEF Serves, Parcel!Result

\* A reply that carries the code and the value whatever the code is.
LEMMA ReadsBoth == ASSUME NEW request, NEW k, NEW s, NEW decided, request.reads = "both",
   Stub!OnRemoteRequest(request.command, k, s, request.data) =
     [reply |-> <<decided.code, decided.value>>, store |-> decided.store]
   PROVE Serves(request, k, s, decided)
BY ReadAt, ServiceErrors DEF Serves, Parcel!Result

\* Each command of the stub's switch calls the function of the service it is named
\* after, with the arguments read in the order they were written.
StubRows(k, s, a, b) ==
  /\ Stub!OnRemoteRequest("IS_LOCKED", k, s, <<>>) = Stub!WriteValueIfOk(Service!IsLocked(k, s))
  /\ Stub!OnRemoteRequest("IS_SCREEN_LOCKED", k, s, <<>>) =
       [reply |-> <<Service!Ok(Service!IsScreenLocked(k, s), s).value>>, store |-> s]
  /\ Stub!OnRemoteRequest("IS_SECURE_MODE", k, s, <<>>) =
       [reply |-> <<Service!Ok(Service!GetSecure(k, s), s).value>>, store |-> s]
  /\ a # Parcel!NoListener => Stub!OnRemoteRequest("UNLOCK", k, s, <<a>>) = Stub!WriteCode(Service!Unlock(k, s, a))
  /\ a # Parcel!NoListener =>
       Stub!OnRemoteRequest("UNLOCK_SCREEN", k, s, <<a>>) = Stub!WriteCode(Service!UnlockScreen(k, s, a))
  /\ a # Parcel!NoListener => Stub!OnRemoteRequest("LOCK", k, s, <<a>>) = Stub!WriteCode(Service!Lock(k, s, a))
  /\ a # Parcel!NoListener =>
       Stub!OnRemoteRequest("ONSYSTEMEVENT", k, s, <<a>>) = Stub!WriteCode(Service!OnSystemEvent(k, s))
  /\ a # Parcel!NoListener =>
       Stub!OnRemoteRequest("UNLOCK_WATCH", k, s, <<a>>) = Stub!WriteCode(Service!UnlockWatch(k, s, a))
  /\ a \in {"unlockScreenResult", "lockScreenResult", "screenDrawDone"} =>
       Stub!OnRemoteRequest("SEND_SCREENLOCK_EVENT", k, s, <<a, b>>) =
         Stub!WriteCode(Service!SendScreenLockEvent(k, s, a, b))
  /\ Stub!OnRemoteRequest("IS_SCREENLOCK_DISABLED", k, s, <<a>>) =
       Stub!WriteValueIfOk(Service!IsScreenLockDisabled(k, s, a))
  /\ Stub!OnRemoteRequest("SET_SCREENLOCK_DISABLED", k, s, <<a, b>>) =
       Stub!WriteCode(Service!SetScreenLockDisabled(k, s, a, b))
  /\ Stub!OnRemoteRequest("SET_SCREENLOCK_AUTHSTATE", k, s, <<a, b, "">>) =
       Stub!WriteCode(Service!SetScreenLockAuthState(k, s, a, b, ""))
  /\ Stub!OnRemoteRequest("GET_SCREENLOCK_AUTHSTATE", k, s, <<a>>) =
       Stub!WriteBoth(Service!GetScreenLockAuthState(k, s, a))
  /\ Stub!OnRemoteRequest("REQUEST_STRONG_AUTHSTATE", k, s, <<a, b>>) =
       Stub!WriteCode(Service!RequestStrongAuth(k, s, a, b))
  /\ Stub!OnRemoteRequest("GET_STRONG_AUTHSTATE", k, s, <<a>>) = Stub!WriteBoth(Service!GetStrongAuth(k, s, a))
  /\ Stub!OnRemoteRequest("IS_DEVICE_LOCKED", k, s, <<a>>) = Stub!WriteBoth(Service!IsDeviceLocked(k, s, a))
  /\ Stub!OnRemoteRequest("GET_UNLOCK_POLICY", k, s, <<a>>) = Stub!WriteBoth(Service!GetUnlockPolicy(k, s, a))
  /\ Stub!OnRemoteRequest("LOCK_SCREEN", k, s, <<a>>) = Stub!WriteCode(Service!LockScreen(k, s, a))
  /\ Stub!OnRemoteRequest("IS_USER_SCREEN_LOCKED", k, s, <<a>>) = Stub!WriteBoth(Service!IsLockedWithUserId(k, s, a))
  /\ Stub!OnRemoteRequest("SET_UNLOCK_POLICY", k, s, <<a, b>>) = Stub!WriteCode(Service!SetUnlockPolicy(k, s, a, b))
  /\ Stub!OnRemoteRequest("IS_LOCKED_WATCH", k, s, <<>>) = Stub!WriteValueIfOk(Service!IsLockedWatch(k, s))

\* The switch of OnRemoteRequest does so for every caller, store and argument.
LEMMA StubTable == ASSUME NEW k, NEW s, NEW a, NEW b PROVE StubRows(k, s, a, b)
<1>1. Stub!OnRemoteRequest("IS_LOCKED", k, s, <<>>) = Stub!WriteValueIfOk(Service!IsLocked(k, s))
  BY SameIsLocked DEF Stub!OnRemoteRequest, Stub!OnIsLocked, Stub!Parcel!Read
<1>2. Stub!OnRemoteRequest("IS_SCREEN_LOCKED", k, s, <<>>) =
        [reply |-> <<Service!Ok(Service!IsScreenLocked(k, s), s).value>>, store |-> s]
  BY SameIsScreenLocked DEF Stub!OnRemoteRequest, Stub!OnIsScreenLocked, Stub!Parcel!Read, Service!Ok,
     Service!Reply
<1>3. Stub!OnRemoteRequest("IS_SECURE_MODE", k, s, <<>>) =
        [reply |-> <<Service!Ok(Service!GetSecure(k, s), s).value>>, store |-> s]
  BY SameGetSecure DEF Stub!OnRemoteRequest, Stub!OnGetSecure, Stub!Parcel!Read, Service!Ok, Service!Reply
<1>4. a # Parcel!NoListener => Stub!OnRemoteRequest("UNLOCK", k, s, <<a>>) = Stub!WriteCode(Service!Unlock(k, s, a))
  BY SameUnlock DEF Stub!OnRemoteRequest, Stub!OnUnlock, Stub!Parcel!Read, Stub!Parcel!NoListener,
     Parcel!NoListener
<1>5. a # Parcel!NoListener =>
        Stub!OnRemoteRequest("UNLOCK_SCREEN", k, s, <<a>>) = Stub!WriteCode(Service!UnlockScreen(k, s, a))
  BY SameUnlockScreen DEF Stub!OnRemoteRequest, Stub!OnUnlockScreen, Stub!Parcel!Read, Stub!Parcel!NoListener,
     Parcel!NoListener
<1>6. a # Parcel!NoListener => Stub!OnRemoteRequest("LOCK", k, s, <<a>>) = Stub!WriteCode(Service!Lock(k, s, a))
  BY SameLock DEF Stub!OnRemoteRequest, Stub!OnLock, Stub!Parcel!Read, Stub!Parcel!NoListener, Parcel!NoListener
<1>7. a # Parcel!NoListener =>
        Stub!OnRemoteRequest("ONSYSTEMEVENT", k, s, <<a>>) = Stub!WriteCode(Service!OnSystemEvent(k, s))
  BY SameOnSystemEvent DEF Stub!OnRemoteRequest, Stub!OnScreenLockOn, Stub!Parcel!Read, Stub!Parcel!NoListener,
     Parcel!NoListener
<1>8. a # Parcel!NoListener =>
        Stub!OnRemoteRequest("UNLOCK_WATCH", k, s, <<a>>) = Stub!WriteCode(Service!UnlockWatch(k, s, a))
  BY SameUnlockWatch DEF Stub!OnRemoteRequest, Stub!OnUnlockWatch, Stub!Parcel!Read, Stub!Parcel!NoListener,
     Parcel!NoListener
<1>9. a \in {"unlockScreenResult", "lockScreenResult", "screenDrawDone"} =>
        Stub!OnRemoteRequest("SEND_SCREENLOCK_EVENT", k, s, <<a, b>>) =
          Stub!WriteCode(Service!SendScreenLockEvent(k, s, a, b))
  BY SameSendScreenLockEvent DEF Stub!OnRemoteRequest, Stub!OnSendScreenLockEvent, Stub!Parcel!Read
<1>10. Stub!OnRemoteRequest("IS_SCREENLOCK_DISABLED", k, s, <<a>>) =
         Stub!WriteValueIfOk(Service!IsScreenLockDisabled(k, s, a))
  BY SameIsScreenLockDisabled DEF Stub!OnRemoteRequest, Stub!OnIsScreenLockDisabled, Stub!Parcel!Read
<1>11. Stub!OnRemoteRequest("SET_SCREENLOCK_DISABLED", k, s, <<a, b>>) =
         Stub!WriteCode(Service!SetScreenLockDisabled(k, s, a, b))
  BY SameSetScreenLockDisabled DEF Stub!OnRemoteRequest, Stub!OnSetScreenLockDisabled, Stub!Parcel!Read
<1>12. Stub!OnRemoteRequest("SET_SCREENLOCK_AUTHSTATE", k, s, <<a, b, "">>) =
         Stub!WriteCode(Service!SetScreenLockAuthState(k, s, a, b, ""))
  <2> DEFINE d == <<a, b, "">>
  <2>1. Len(d) = 3 /\ d[1] = a /\ d[2] = b /\ d[3] = ""
    OBVIOUS
  <2>2. ~(Len(d) < 3)
    BY <2>1
  <2> HIDE DEF d
  <2>3. Stub!OnRemoteRequest("SET_SCREENLOCK_AUTHSTATE", k, s, d) = Stub!OnSetScreenLockAuthState(k, s, d)
    BY DEF Stub!OnRemoteRequest
  <2>4. Stub!OnSetScreenLockAuthState(k, s, d) = Stub!WriteCode(Stub!Service!SetScreenLockAuthState(k, s, a, b, ""))
    BY <2>1, <2>2, Zenon DEF Stub!OnSetScreenLockAuthState
  <2> QED
    BY <2>3, <2>4, SameSetScreenLockAuthState DEF d
<1>13. Stub!OnRemoteRequest("GET_SCREENLOCK_AUTHSTATE", k, s, <<a>>) =
         Stub!WriteBoth(Service!GetScreenLockAuthState(k, s, a))
  BY SameGetScreenLockAuthState DEF Stub!OnRemoteRequest, Stub!OnGetScreenLockAuthState, Stub!Parcel!Read
<1>14. Stub!OnRemoteRequest("REQUEST_STRONG_AUTHSTATE", k, s, <<a, b>>) =
         Stub!WriteCode(Service!RequestStrongAuth(k, s, a, b))
  BY SameRequestStrongAuth DEF Stub!OnRemoteRequest, Stub!OnRequestStrongAuth, Stub!Parcel!Read
<1>15. Stub!OnRemoteRequest("GET_STRONG_AUTHSTATE", k, s, <<a>>) = Stub!WriteBoth(Service!GetStrongAuth(k, s, a))
  BY SameGetStrongAuth DEF Stub!OnRemoteRequest, Stub!OnGetStrongAuth, Stub!Parcel!Read
<1>16. Stub!OnRemoteRequest("IS_DEVICE_LOCKED", k, s, <<a>>) = Stub!WriteBoth(Service!IsDeviceLocked(k, s, a))
  BY SameIsDeviceLocked DEF Stub!OnRemoteRequest, Stub!OnIsDeviceLocked, Stub!Parcel!Read
<1>17. Stub!OnRemoteRequest("GET_UNLOCK_POLICY", k, s, <<a>>) = Stub!WriteBoth(Service!GetUnlockPolicy(k, s, a))
  BY SameGetUnlockPolicy DEF Stub!OnRemoteRequest, Stub!OnGetUnlockPolicy, Stub!Parcel!Read
<1>18. Stub!OnRemoteRequest("LOCK_SCREEN", k, s, <<a>>) = Stub!WriteCode(Service!LockScreen(k, s, a))
  BY SameLockScreen DEF Stub!OnRemoteRequest, Stub!OnLockScreen, Stub!Parcel!Read
<1>19. Stub!OnRemoteRequest("IS_USER_SCREEN_LOCKED", k, s, <<a>>) =
         Stub!WriteBoth(Service!IsLockedWithUserId(k, s, a))
  BY SameIsLockedWithUserId DEF Stub!OnRemoteRequest, Stub!OnIsLockedWithUserId, Stub!Parcel!Read
<1>20. Stub!OnRemoteRequest("SET_UNLOCK_POLICY", k, s, <<a, b>>) = Stub!WriteCode(Service!SetUnlockPolicy(k, s, a, b))
  BY SameSetUnlockPolicy DEF Stub!OnRemoteRequest, Stub!OnSetUnlockPolicy, Stub!Parcel!Read
<1>21. Stub!OnRemoteRequest("IS_LOCKED_WATCH", k, s, <<>>) = Stub!WriteValueIfOk(Service!IsLockedWatch(k, s))
  BY SameIsLockedWatch DEF Stub!OnRemoteRequest, Stub!OnIsLockedWatch, Stub!Parcel!Read
<1> QED
  BY <1>1, <1>2, <1>3, <1>4, <1>5, <1>6, <1>7, <1>8, <1>9, <1>10, <1>11, <1>12, <1>13, <1>14, <1>15, <1>16,
     <1>17, <1>18, <1>19, <1>20, <1>21 DEF StubRows

-----------------------------------------------------------------------------
(* The bindings and the requests.                                          *)

\* The request a function makes of the service.
Sent(c) ==
  LET name == Ask(c).name IN
  CASE name = "isScreenLocked" -> Parcel!IsScreenLocked
    [] name = "isLocked" -> Parcel!IsLocked
    [] name = "isSecureMode" -> Parcel!GetSecure
    [] name = "lock" -> Parcel!Lock(c)
    [] name = "unlock" -> Parcel!Unlock(c)
    [] name = "unlockScreen" -> Parcel!UnlockScreen(c)
    [] name = "onSystemEvent" -> Parcel!OnSystemEvent(c)
    [] name = "sendScreenLockEvent" -> Parcel!SendScreenLockEvent(Arg(c, 1), Arg(c, 2))
    [] name = "isScreenLockDisabled" -> Parcel!IsScreenLockDisabled(Arg(c, 1))
    [] name = "setScreenLockDisabled" -> Parcel!SetScreenLockDisabled(Arg(c, 1), Arg(c, 2))
    [] name = "setScreenLockAuthState" -> Parcel!SetScreenLockAuthState(Arg(c, 1), Arg(c, 2), "")
    [] name = "getScreenLockAuthState" -> Parcel!GetScreenLockAuthState(Arg(c, 1))
    [] name = "requestStrongAuth" -> Parcel!RequestStrongAuth(Arg(c, 1), Arg(c, 2))
    [] name = "getStrongAuth" -> Parcel!GetStrongAuth(Arg(c, 1))
    [] name = "isDeviceLocked" -> Parcel!IsDeviceLocked(Arg(c, 1))
    [] name = "getUnlockPolicy" -> Parcel!GetUnlockPolicy(Arg(c, 1))
    [] name = "lockUser" -> Parcel!LockUser(Arg(c, 1))
    [] name = "isLockedWithUserId" -> Parcel!IsLockedWithUserId(Arg(c, 1))
    [] name = "setUnlockPolicy" -> Parcel!SetUnlockPolicy(Arg(c, 1), Arg(c, 2))
    [] name = "isLockedWatch" -> Parcel!IsLockedWatch
    [] name = "unlockWatch" -> Parcel!UnlockWatch(Arg(c, 1))

\* What the binding does with a call: the mode, what it gives of the value, the
\* request it sends and the code it uses when it has no proxy.
PlanIs(c, mode, gives, absent) ==
  /\ Plan(c).mode = mode /\ Plan(c).gives = gives
  /\ Plan(c).call = [request |-> Sent(c), absent |-> [code |-> absent, value |-> 0]]
  /\ mode = "sync" => Plan(c).to = "caller"

\* What each NAPI function does, whatever its arguments, when it gets as far as a
\* request.
LEMMA NapiPlans ==
  ASSUME NEW c \in Calls, scenario.binding = "napi", Makes(c), Ask(c).name \in JsFunctions
  PROVE
    /\ Ask(c).name = "isScreenLocked" => PlanIs(c, "async", "value", E_SCREENLOCK.OK)
    /\ Ask(c).name = "isLocked" => PlanIs(c, "sync", "value", E_SCREENLOCK.SENDREQUEST_FAILED)
    /\ Ask(c).name = "isSecureMode" => PlanIs(c, "async", "value", E_SCREENLOCK.OK)
    /\ Ask(c).name = "lock" => PlanIs(c, "listener", "LOCK", E_SCREENLOCK.NULLPTR)
    /\ Ask(c).name = "unlock" => PlanIs(c, "listener", "UNLOCK", E_SCREENLOCK.NULLPTR)
    /\ Ask(c).name = "unlockScreen" => PlanIs(c, "listener", "UNLOCKSCREEN", E_SCREENLOCK.NULLPTR)
    /\ Ask(c).name = "onSystemEvent" => PlanIs(c, "sync", "true", E_SCREENLOCK.NULLPTR)
    /\ Ask(c).name = "sendScreenLockEvent" => PlanIs(c, "async", "allowed", E_SCREENLOCK.NULLPTR)
    /\ Ask(c).name = "isScreenLockDisabled" => PlanIs(c, "sync", "value", E_SCREENLOCK.NULLPTR)
    /\ Ask(c).name = "setScreenLockDisabled" => PlanIs(c, "async", "allowed", E_SCREENLOCK.NULLPTR)
    /\ Ask(c).name = "setScreenLockAuthState" => PlanIs(c, "async", "allowed", E_SCREENLOCK.NULLPTR)
    /\ Ask(c).name = "getScreenLockAuthState" => PlanIs(c, "sync", "value", E_SCREENLOCK.NULLPTR)
    /\ Ask(c).name = "requestStrongAuth" => PlanIs(c, "async", "allowed", E_SCREENLOCK.NULLPTR)
    /\ Ask(c).name = "getStrongAuth" => PlanIs(c, "sync", "value", E_SCREENLOCK.NULLPTR)
    /\ Ask(c).name = "isDeviceLocked" => PlanIs(c, "sync", "value", E_SCREENLOCK.NULLPTR)
    /\ Ask(c).name = "getUnlockPolicy" => PlanIs(c, "sync", "policy", E_SCREENLOCK.NULLPTR)
<1> DEFINE args == Ask(c).args
<1> USE BindingErrors DEF Plan, Makes, Sent, Arg, JsFunctions, NoAsk, Napi!Init, Napi!Plan, Napi!Throw,
   Napi!Ends, Napi!Proxy!Request, Parcel!Request, Napi!Without, PlanIs
<1>1. Ask(c).name = "isScreenLocked" => PlanIs(c, "async", "value", E_SCREENLOCK.OK)
  BY DEF Napi!NAPI_IsScreenLocked, Napi!IsScreenLocked, Napi!Proxy!IsScreenLocked, Parcel!IsScreenLocked,
     Napi!Call
<1>2. Ask(c).name = "isLocked" => PlanIs(c, "sync", "value", E_SCREENLOCK.SENDREQUEST_FAILED)
  BY DEF Napi!NAPI_IsLocked, Napi!IsLocked, Napi!Proxy!IsLocked, Parcel!IsLocked, Napi!OnJsThread
<1>3. Ask(c).name = "isSecureMode" => PlanIs(c, "async", "value", E_SCREENLOCK.OK)
  BY DEF Napi!NAPI_IsSecureMode, Napi!GetSecure, Napi!Proxy!GetSecure, Parcel!GetSecure, Napi!Call
<1>4. Ask(c).name = "lock" => PlanIs(c, "listener", "LOCK", E_SCREENLOCK.NULLPTR)
  BY DEF Napi!NAPI_Lock, Napi!Lock, Napi!Proxy!Lock, Parcel!Lock, Napi!Ask, Napi!Listened,
     Napi!Proxy!WithListener, Parcel!WithListener, Napi!Proxy!NoListener, Parcel!NoListener, Napi!Proxy!NotSent,
     Parcel!NotSent
<1>5. Ask(c).name = "unlock" => PlanIs(c, "listener", "UNLOCK", E_SCREENLOCK.NULLPTR)
  BY DEF Napi!NAPI_Unlock, Napi!Unlock, Napi!Proxy!Unlock, Parcel!Unlock, Napi!Ask, Napi!Listened,
     Napi!Proxy!UnlockInner, Parcel!UnlockInner, Napi!Proxy!UnlockScreen, Napi!Proxy!WithListener,
     Parcel!WithListener, Napi!Proxy!NoListener, Parcel!NoListener, Napi!Proxy!NotSent, Parcel!NotSent
<1>6. Ask(c).name = "unlockScreen" => PlanIs(c, "listener", "UNLOCKSCREEN", E_SCREENLOCK.NULLPTR)
  BY DEF Napi!NAPI_UnlockScreen, Napi!Unlock, Napi!Proxy!UnlockScreen, Parcel!UnlockScreen, Napi!Ask,
     Napi!Listened, Napi!Proxy!UnlockInner, Parcel!UnlockInner, Napi!Proxy!Unlock, Napi!Proxy!WithListener,
     Parcel!WithListener, Napi!Proxy!NoListener, Parcel!NoListener, Napi!Proxy!NotSent, Parcel!NotSent
<1>7. Ask(c).name = "onSystemEvent" => PlanIs(c, "sync", "true", E_SCREENLOCK.NULLPTR)
  BY DEF Napi!NAPI_OnSystemEvent, Napi!OnSystemEvent, Napi!Proxy!OnSystemEvent, Parcel!OnSystemEvent, Napi!Ask,
     Napi!OnJsThread, Napi!Proxy!WithListener, Parcel!WithListener, Napi!Proxy!NoListener, Parcel!NoListener,
     Napi!Proxy!NotSent, Parcel!NotSent
<1>8. Ask(c).name = "sendScreenLockEvent" => PlanIs(c, "async", "allowed", E_SCREENLOCK.NULLPTR)
  BY DEF Napi!NAPI_ScreenLockSendEvent, Napi!SendScreenLockEvent, Napi!Proxy!SendScreenLockEvent,
     Parcel!SendScreenLockEvent, Napi!Ask, Napi!Call
<1>9. Ask(c).name = "isScreenLockDisabled" => PlanIs(c, "sync", "value", E_SCREENLOCK.NULLPTR)
  BY DEF Napi!NAPI_IsScreenLockDisabled, Napi!IsScreenLockDisabled, Napi!Proxy!IsScreenLockDisabled,
     Parcel!IsScreenLockDisabled, Napi!Ask, Napi!OnJsThread
<1>10. Ask(c).name = "setScreenLockDisabled" => PlanIs(c, "async", "allowed", E_SCREENLOCK.NULLPTR)
  BY DEF Napi!NAPI_SetScreenLockDisabled, Napi!SetScreenLockDisabled, Napi!Proxy!SetScreenLockDisabled,
     Parcel!SetScreenLockDisabled, Napi!Ask, Napi!Call
<1>11. Ask(c).name = "setScreenLockAuthState" => PlanIs(c, "async", "allowed", E_SCREENLOCK.NULLPTR)
  BY DEF Napi!NAPI_SetScreenLockAuthState, Napi!SetScreenLockAuthState, Napi!Proxy!SetScreenLockAuthState,
     Parcel!SetScreenLockAuthState, Napi!Ask, Napi!Call
<1>12. Ask(c).name = "getScreenLockAuthState" => PlanIs(c, "sync", "value", E_SCREENLOCK.NULLPTR)
  BY DEF Napi!NAPI_GetScreenLockAuthState, Napi!GetScreenLockAuthState, Napi!Proxy!GetScreenLockAuthState,
     Parcel!GetScreenLockAuthState, Napi!Ask, Napi!OnJsThread
<1>13. Ask(c).name = "requestStrongAuth" => PlanIs(c, "async", "allowed", E_SCREENLOCK.NULLPTR)
  BY DEF Napi!NAPI_RequestStrongAuth, Napi!RequestStrongAuth, Napi!Proxy!RequestStrongAuth,
     Parcel!RequestStrongAuth, Napi!Ask, Napi!Call
<1>14. Ask(c).name = "getStrongAuth" => PlanIs(c, "sync", "value", E_SCREENLOCK.NULLPTR)
  BY DEF Napi!NAPI_GetStrongAuth, Napi!GetStrongAuth, Napi!Proxy!GetStrongAuth, Parcel!GetStrongAuth, Napi!Ask,
     Napi!OnJsThread
<1>15. Ask(c).name = "isDeviceLocked" => PlanIs(c, "sync", "value", E_SCREENLOCK.NULLPTR)
  BY DEF Napi!NAPI_IsDeviceLocked, Napi!IsDeviceLocked, Napi!Proxy!IsDeviceLocked, Parcel!IsDeviceLocked,
     Napi!Ask, Napi!OnJsThread
<1>16. Ask(c).name = "getUnlockPolicy" => PlanIs(c, "sync", "policy", E_SCREENLOCK.NULLPTR)
  BY DEF Napi!NAPI_GetUnlockPolicy, Napi!GetUnlockPolicy, Napi!Proxy!GetUnlockPolicy, Parcel!GetUnlockPolicy,
     Napi!Ask, Napi!OnJsThread
<1> QED
  BY <1>1, <1>2, <1>3, <1>4, <1>5, <1>6, <1>7, <1>8, <1>9, <1>10, <1>11, <1>12, <1>13, <1>14, <1>15, <1>16

\* What each ANI function does.
LEMMA AniPlans ==
  ASSUME NEW c \in Calls, scenario.binding = "ani", Makes(c), Ask(c).name \in JsFunctions
  PROVE
    /\ Ask(c).name = "isScreenLocked" => PlanIs(c, "async", "value", E_SCREENLOCK.OK)
    /\ Ask(c).name = "isLocked" => PlanIs(c, "sync", "value", E_SCREENLOCK.SENDREQUEST_FAILED)
    /\ Ask(c).name = "isSecureMode" => PlanIs(c, "async", "value", E_SCREENLOCK.OK)
    /\ Ask(c).name = "lock" => PlanIs(c, "listener", "LOCK", E_SCREENLOCK.NULLPTR)
    /\ Ask(c).name = "unlock" => PlanIs(c, "listener", "UNLOCK", E_SCREENLOCK.NULLPTR)
    /\ Ask(c).name = "unlockScreen" => PlanIs(c, "listener", "UNLOCKSCREEN", E_SCREENLOCK.NULLPTR)
    /\ Ask(c).name = "onSystemEvent" => PlanIs(c, "sync", "true", E_SCREENLOCK.NULLPTR)
    /\ Ask(c).name = "sendScreenLockEvent" => PlanIs(c, "async", "true", E_SCREENLOCK.NULLPTR)
    /\ Ask(c).name = "isScreenLockDisabled" => PlanIs(c, "sync", "value", E_SCREENLOCK.NULLPTR)
    /\ Ask(c).name = "setScreenLockDisabled" => PlanIs(c, "async", "true", E_SCREENLOCK.NULLPTR)
    /\ Ask(c).name = "setScreenLockAuthState" => PlanIs(c, "async", "true", E_SCREENLOCK.NULLPTR)
    /\ Ask(c).name = "getScreenLockAuthState" => PlanIs(c, "sync", "authState", E_SCREENLOCK.NULLPTR)
    /\ Ask(c).name = "requestStrongAuth" => PlanIs(c, "async", "undefined", E_SCREENLOCK.NULLPTR)
    /\ Ask(c).name = "getStrongAuth" => PlanIs(c, "sync", "value", E_SCREENLOCK.NULLPTR)
    /\ Ask(c).name = "isDeviceLocked" => PlanIs(c, "sync", "value", E_SCREENLOCK.NULLPTR)
    /\ Ask(c).name = "getUnlockPolicy" => PlanIs(c, "sync", "policy", E_SCREENLOCK.NULLPTR)
<1> USE BindingErrors DEF Plan, Makes, Sent, Arg, JsFunctions, NoAsk, Ani!BindMethods, Ani!Plan,
   Ani!Proxy!Request, Parcel!Request, Ani!Without, PlanIs
<1>1. Ask(c).name = "isScreenLocked" => PlanIs(c, "async", "value", E_SCREENLOCK.OK)
  BY DEF Ani!ANI_IsScreenLocked, Ani!IsScreenLocked, Ani!Proxy!IsScreenLocked, Parcel!IsScreenLocked,
     Ani!InTaskPool
<1>2. Ask(c).name = "isLocked" => PlanIs(c, "sync", "value", E_SCREENLOCK.SENDREQUEST_FAILED)
  BY DEF Ani!ANI_IsLocked, Ani!IsLocked, Ani!Proxy!IsLocked, Parcel!IsLocked, Ani!OnThread
<1>3. Ask(c).name = "isSecureMode" => PlanIs(c, "async", "value", E_SCREENLOCK.OK)
  BY DEF Ani!ANI_IsSecureMode, Ani!GetSecure, Ani!Proxy!GetSecure, Parcel!GetSecure, Ani!InTaskPool
<1>4. Ask(c).name = "lock" => PlanIs(c, "listener", "LOCK", E_SCREENLOCK.NULLPTR)
  BY DEF Ani!ANI_Lock, Ani!Lock, Ani!Proxy!Lock, Parcel!Lock, Ani!Ask, Ani!Awaiting, Ani!Proxy!WithListener,
     Parcel!WithListener, Ani!Proxy!NoListener, Parcel!NoListener, Ani!Proxy!NotSent, Parcel!NotSent
<1>5. Ask(c).name = "unlock" => PlanIs(c, "listener", "UNLOCK", E_SCREENLOCK.NULLPTR)
  BY DEF Ani!ANI_Unlock, Ani!Unlock, Ani!Proxy!Unlock, Parcel!Unlock, Ani!Ask, Ani!Awaiting,
     Ani!Proxy!UnlockInner, Parcel!UnlockInner, Ani!Proxy!UnlockScreen, Ani!Proxy!WithListener,
     Parcel!WithListener, Ani!Proxy!NoListener, Parcel!NoListener, Ani!Proxy!NotSent, Parcel!NotSent
<1>6. Ask(c).name = "unlockScreen" => PlanIs(c, "listener", "UNLOCKSCREEN", E_SCREENLOCK.NULLPTR)
  BY DEF Ani!ANI_UnlockScreen, Ani!Unlock, Ani!Proxy!UnlockScreen, Parcel!UnlockScreen, Ani!Ask, Ani!Awaiting,
     Ani!Proxy!UnlockInner, Parcel!UnlockInner, Ani!Proxy!Unlock, Ani!Proxy!WithListener, Parcel!WithListener,
     Ani!Proxy!NoListener, Parcel!NoListener, Ani!Proxy!NotSent, Parcel!NotSent
<1>7. Ask(c).name = "onSystemEvent" => PlanIs(c, "sync", "true", E_SCREENLOCK.NULLPTR)
  BY DEF Ani!ANI_OnSystemEvent, Ani!OnSystemEvent, Ani!Proxy!OnSystemEvent, Parcel!OnSystemEvent, Ani!Ask,
     Ani!OnThread, Ani!Proxy!WithListener, Parcel!WithListener, Ani!Proxy!NoListener, Parcel!NoListener,
     Ani!Proxy!NotSent, Parcel!NotSent
<1>8. Ask(c).name = "sendScreenLockEvent" => PlanIs(c, "async", "true", E_SCREENLOCK.NULLPTR)
  BY DEF Ani!ANI_SendScreenLockEvent, Ani!SendScreenLockEvent, Ani!Proxy!SendScreenLockEvent,
     Parcel!SendScreenLockEvent, Ani!Ask, Ani!InTaskPool
<1>9. Ask(c).name = "isScreenLockDisabled" => PlanIs(c, "sync", "value", E_SCREENLOCK.NULLPTR)
  BY DEF Ani!ANI_IsScreenLockDisabled, Ani!IsScreenLockDisabled, Ani!Proxy!IsScreenLockDisabled,
     Parcel!IsScreenLockDisabled, Ani!Ask, Ani!OnThread
<1>10. Ask(c).name = "setScreenLockDisabled" => PlanIs(c, "async", "true", E_SCREENLOCK.NULLPTR)
  BY DEF Ani!ANI_SetScreenLockDisabled, Ani!SetScreenLockDisabled, Ani!Proxy!SetScreenLockDisabled,
     Parcel!SetScreenLockDisabled, Ani!Ask, Ani!InTaskPool
<1>11. Ask(c).name = "setScreenLockAuthState" => PlanIs(c, "async", "true", E_SCREENLOCK.NULLPTR)
  BY DEF Ani!ANI_SetScreenLockAuthState, Ani!SetScreenLockAuthState, Ani!Proxy!SetScreenLockAuthState,
     Parcel!SetScreenLockAuthState, Ani!Ask, Ani!InTaskPool
<1>12. Ask(c).name = "getScreenLockAuthState" => PlanIs(c, "sync", "authState", E_SCREENLOCK.NULLPTR)
  BY DEF Ani!ANI_GetScreenLockAuthState, Ani!GetScreenLockAuthState, Ani!Proxy!GetScreenLockAuthState,
     Parcel!GetScreenLockAuthState, Ani!Ask, Ani!OnThread
<1>13. Ask(c).name = "requestStrongAuth" => PlanIs(c, "async", "undefined", E_SCREENLOCK.NULLPTR)
  BY DEF Ani!ANI_RequestStrongAuth, Ani!RequestStrongAuth, Ani!Proxy!RequestStrongAuth,
     Parcel!RequestStrongAuth, Ani!Ask, Ani!InTaskPool
<1>14. Ask(c).name = "getStrongAuth" => PlanIs(c, "sync", "value", E_SCREENLOCK.NULLPTR)
  BY DEF Ani!ANI_GetStrongAuth, Ani!GetStrongAuth, Ani!Proxy!GetStrongAuth, Parcel!GetStrongAuth, Ani!Ask,
     Ani!OnThread
<1>15. Ask(c).name = "isDeviceLocked" => PlanIs(c, "sync", "value", E_SCREENLOCK.NULLPTR)
  BY DEF Ani!ANI_IsDeviceLocked, Ani!IsDeviceLocked, Ani!Proxy!IsDeviceLocked, Parcel!IsDeviceLocked, Ani!Ask,
     Ani!OnThread
<1>16. Ask(c).name = "getUnlockPolicy" => PlanIs(c, "sync", "policy", E_SCREENLOCK.NULLPTR)
  BY DEF Ani!ANI_GetUnlockPolicy, Ani!GetUnlockPolicy, Ani!Proxy!GetUnlockPolicy, Parcel!GetUnlockPolicy,
     Ani!Ask, Ani!OnThread
<1> QED
  BY <1>1, <1>2, <1>3, <1>4, <1>5, <1>6, <1>7, <1>8, <1>9, <1>10, <1>11, <1>12, <1>13, <1>14, <1>15, <1>16

\* A function of the library returns what the proxy returns.
LEMMA NativePlans ==
  ASSUME NEW c \in Calls, scenario.binding = "native", Makes(c), Ask(c).name \in NativeFunctions
  PROVE  PlanIs(c, "sync", "raw", E_SCREENLOCK.NULLPTR)
<1>1. CASE Ask(c).name = "lockUser"
  BY <1>1, BindingErrors DEF Plan, Makes, Sent, NativeCall, NoAsk, Manager!LockUser, Manager!Proxy!LockUser,
     Manager!Proxy!Request, Parcel!LockUser, Parcel!Request, Manager!Without, Manager!Ask, PlanIs
<1>2. CASE Ask(c).name = "isLockedWithUserId"
  BY <1>2, BindingErrors DEF Plan, Makes, Sent, NativeCall, NoAsk, Manager!IsLockedWithUserId,
     Manager!Proxy!IsLockedWithUserId, Manager!Proxy!Request, Parcel!IsLockedWithUserId, Parcel!Request,
     Manager!Without, Manager!Ask, PlanIs
<1>3. CASE Ask(c).name = "setUnlockPolicy"
  BY <1>3, BindingErrors DEF Plan, Makes, Sent, NativeCall, NoAsk, Manager!SetUnlockPolicy,
     Manager!Proxy!SetUnlockPolicy, Manager!Proxy!Request, Parcel!SetUnlockPolicy, Parcel!Request,
     Manager!Without, Manager!Ask, PlanIs
<1>4. CASE Ask(c).name = "isLockedWatch"
  BY <1>4, BindingErrors DEF Plan, Makes, Sent, NativeCall, NoAsk, Manager!IsLockedWatch,
     Manager!Proxy!IsLockedWatch, Manager!Proxy!Request, Parcel!IsLockedWatch, Parcel!Request, Manager!Without,
     Manager!Ask, PlanIs
<1>5. CASE Ask(c).name = "unlockWatch"
  BY <1>5, BindingErrors DEF Plan, Makes, Sent, NativeCall, NoAsk, Manager!UnlockWatch,
     Manager!Proxy!UnlockWatch, Manager!Proxy!Request, Parcel!UnlockWatch, Parcel!Request, Manager!Without,
     Manager!Ask, PlanIs, Manager!Proxy!WithListener, Parcel!WithListener, Manager!Proxy!NoListener,
     Parcel!NoListener, Manager!Proxy!NotSent, Parcel!NotSent
<1> QED
  BY <1>1, <1>2, <1>3, <1>4, <1>5 DEF NativeFunctions

\* The bindings let no event through that the service does not know.
LEMMA EventKnown ==
  ASSUME NEW c \in Calls, Makes(c), Ask(c).name = "sendScreenLockEvent", scenario.binding \in {"napi", "ani"}
  PROVE  Arg(c, 1) \in {"unlockScreenResult", "lockScreenResult", "screenDrawDone"}
<1>1. CASE scenario.binding = "napi"
  BY <1>1 DEF Plan, Makes, Arg, NoAsk, Napi!Init, Napi!NAPI_ScreenLockSendEvent, Napi!Call, Napi!Throw,
     Napi!Ends, Napi!IsValidEvent
<1>2. CASE scenario.binding = "ani"
  BY <1>2 DEF Plan, Makes, Arg, NoAsk, Ani!BindMethods, Ani!ANI_SendScreenLockEvent
<1> QED
  BY <1>1, <1>2

\* A reply that carries a value only when the code is OK.
LEMMA ReadsValueOk == ASSUME NEW request, NEW k, NEW s, NEW decided, request.reads = "value_ok",
   Stub!OnRemoteRequest(request.command, k, s, request.data) = Stub!WriteValueIfOk(decided)
   PROVE Serves(request, k, s, decided)
<1>1. CASE decided.code = E_SCREENLOCK.OK
  BY <1>1, ReadAt, ServiceErrors DEF Serves, Parcel!Result, Stub!WriteValueIfOk, Stub!WriteBoth
<1>2. CASE decided.code # E_SCREENLOCK.OK
  BY <1>2, ReadAt, ServiceErrors DEF Serves, Parcel!Result, Stub!WriteValueIfOk, Stub!WriteCode
<1> QED
  BY <1>1, <1>2

\* A reply whose value the proxy reads when the code is OK.
LEMMA ReadsChecked == ASSUME NEW request, NEW k, NEW s, NEW decided, request.reads = "checked",
   \/ Stub!OnRemoteRequest(request.command, k, s, request.data) = Stub!WriteBoth(decided)
   \/ Stub!OnRemoteRequest(request.command, k, s, request.data) = Stub!WriteCode(decided) /\ decided.value = 0
   PROVE Serves(request, k, s, decided)
<1>0. \A x : Parcel!Read(<<x>>, 2) = 0
  BY DEF Parcel!Read
<1>1. CASE Stub!OnRemoteRequest(request.command, k, s, request.data) = Stub!WriteBoth(decided)
  BY <1>1, ReadAt, ServiceErrors DEF Serves, Parcel!Result, Stub!WriteBoth
<1>2. CASE Stub!OnRemoteRequest(request.command, k, s, request.data) = Stub!WriteCode(decided) /\ decided.value = 0
  BY <1>0, <1>2, ReadAt, ServiceErrors DEF Serves, Parcel!Result, Stub!WriteCode
<1> QED
  BY <1>1, <1>2

\* SetUnlockPolicy replies no value.
LEMMA PolicyValue == \A k, s, a, b : Service!SetUnlockPolicy(k, s, a, b).value = 0
BY DEF Service!SetUnlockPolicy, Service!Refuse, Service!Reply, Service!Ok

-----------------------------------------------------------------------------
(* A request is served as its function meant.                              *)

\* A call is of a function its binding has.
WellAsked(c) ==
  IF scenario.binding = "native" THEN Ask(c).name \in NativeFunctions
  ELSE scenario.binding \in {"napi", "ani"} /\ Ask(c).name \in JsFunctions

\* A request is served as its function meant: the command reaches that function,
\* its arguments arrive in their places, and the reply is read back.
LEMMA ServesSent ==
  ASSUME NEW c \in Calls, WellAsked(c), Makes(c), Sent(c) # Parcel!NotSent, Parcel!NoListener \notin Calls
  PROVE  Serves(Sent(c), scenario.caller, store, Decides(c))
<1> DEFINE k == scenario.caller
           x == Arg(c, 1)
           y == Arg(c, 2)
<1>0. StubRows(k, store, x, y) /\ StubRows(k, store, c, y)
  BY StubTable
<1>1. CASE Ask(c).name = "isScreenLocked"
  <2>1. Sent(c) = [command |-> "IS_SCREEN_LOCKED", data |-> <<>>, reads |-> "bool"]
    BY <1>1 DEF Sent, Parcel!IsScreenLocked, Parcel!Request
  <2>2. Decides(c) = Service!Ok(Service!IsScreenLocked(k, store), store)
    BY <1>1 DEF Decides
  <2>4. Decides(c).store = store
    BY <2>2 DEF Service!Ok, Service!Reply
  <2>3. Stub!OnRemoteRequest("IS_SCREEN_LOCKED", k, store, <<>>) =
          [reply |-> <<Decides(c).value>>, store |-> Decides(c).store]
    BY <2>2, <2>4, <1>0 DEF StubRows
  <2> QED
    BY <2>1, <2>3, ReadsBool
<1>2. CASE Ask(c).name = "isLocked"
  <2>1. Sent(c) = [command |-> "IS_LOCKED", data |-> <<>>, reads |-> "value_ok"]
    BY <1>2 DEF Sent, Parcel!IsLocked, Parcel!Request
  <2>2. Decides(c) = Service!IsLocked(k, store)
    BY <1>2 DEF Decides
  <2>3. Stub!OnRemoteRequest("IS_LOCKED", k, store, <<>>) = Stub!WriteValueIfOk(Decides(c))
    BY <2>2, <1>0 DEF StubRows
  <2> QED
    BY <2>1, <2>3, ReadsValueOk
<1>3. CASE Ask(c).name = "isSecureMode"
  <2>1. Sent(c) = [command |-> "IS_SECURE_MODE", data |-> <<>>, reads |-> "bool"]
    BY <1>3 DEF Sent, Parcel!GetSecure, Parcel!Request
  <2>2. Decides(c) = Service!Ok(Service!GetSecure(k, store), store)
    BY <1>3 DEF Decides
  <2>4. Decides(c).store = store
    BY <2>2 DEF Service!Ok, Service!Reply
  <2>3. Stub!OnRemoteRequest("IS_SECURE_MODE", k, store, <<>>) =
          [reply |-> <<Decides(c).value>>, store |-> Decides(c).store]
    BY <2>2, <2>4, <1>0 DEF StubRows
  <2> QED
    BY <2>1, <2>3, ReadsBool
<1>4. CASE Ask(c).name = "lock"
  <2>1. Sent(c) = [command |-> "LOCK", data |-> <<c>>, reads |-> "code"]
    BY <1>4 DEF Sent, Parcel!Lock, Parcel!Request, Parcel!WithListener
  <2>2. Decides(c) = Service!Lock(k, store, c)
    BY <1>4 DEF Decides
  <2>3. Stub!OnRemoteRequest("LOCK", k, store, <<c>>) = Stub!WriteCode(Decides(c))
    BY <2>2, <1>0 DEF StubRows
  <2> QED
    BY <2>1, <2>3, ReadsCode DEF Stub!WriteCode
<1>5. CASE Ask(c).name = "unlock"
  <2>1. Sent(c) = [command |-> "UNLOCK", data |-> <<c>>, reads |-> "code"]
    BY <1>5 DEF Sent, Parcel!Unlock, Parcel!Request, Parcel!WithListener, Parcel!UnlockInner
  <2>2. Decides(c) = Service!Unlock(k, store, c)
    BY <1>5 DEF Decides
  <2>3. Stub!OnRemoteRequest("UNLOCK", k, store, <<c>>) = Stub!WriteCode(Decides(c))
    BY <2>2, <1>0 DEF StubRows
  <2> QED
    BY <2>1, <2>3, ReadsCode DEF Stub!WriteCode
<1>6. CASE Ask(c).name = "unlockScreen"
  <2>1. Sent(c) = [command |-> "UNLOCK_SCREEN", data |-> <<c>>, reads |-> "code"]
    BY <1>6 DEF Sent, Parcel!UnlockScreen, Parcel!Request, Parcel!WithListener, Parcel!UnlockInner
  <2>2. Decides(c) = Service!UnlockScreen(k, store, c)
    BY <1>6 DEF Decides
  <2>3. Stub!OnRemoteRequest("UNLOCK_SCREEN", k, store, <<c>>) = Stub!WriteCode(Decides(c))
    BY <2>2, <1>0 DEF StubRows
  <2> QED
    BY <2>1, <2>3, ReadsCode DEF Stub!WriteCode
<1>7. CASE Ask(c).name = "onSystemEvent"
  <2>1. Sent(c) = [command |-> "ONSYSTEMEVENT", data |-> <<c>>, reads |-> "code"]
    BY <1>7 DEF Sent, Parcel!OnSystemEvent, Parcel!Request, Parcel!WithListener
  <2>2. Decides(c) = Service!OnSystemEvent(k, store)
    BY <1>7 DEF Decides
  <2>3. Stub!OnRemoteRequest("ONSYSTEMEVENT", k, store, <<c>>) = Stub!WriteCode(Decides(c))
    BY <2>2, <1>0 DEF StubRows
  <2> QED
    BY <2>1, <2>3, ReadsCode DEF Stub!WriteCode
<1>8. CASE Ask(c).name = "sendScreenLockEvent"
  <2>1. Sent(c) = [command |-> "SEND_SCREENLOCK_EVENT", data |-> <<x, y>>, reads |-> "code"]
    BY <1>8 DEF Sent, Parcel!SendScreenLockEvent, Parcel!Request
  <2>2. Decides(c) = Service!SendScreenLockEvent(k, store, x, y)
    BY <1>8 DEF Decides
  <2>4. x \in {"unlockScreenResult", "lockScreenResult", "screenDrawDone"}
    BY <1>8, EventKnown DEF WellAsked, NativeFunctions
  <2>3. Stub!OnRemoteRequest("SEND_SCREENLOCK_EVENT", k, store, <<x, y>>) = Stub!WriteCode(Decides(c))
    BY <2>2, <2>4, <1>0 DEF StubRows
  <2> QED
    BY <2>1, <2>3, ReadsCode DEF Stub!WriteCode
<1>9. CASE Ask(c).name = "isScreenLockDisabled"
  <2>1. Sent(c) = [command |-> "IS_SCREENLOCK_DISABLED", data |-> <<x>>, reads |-> "value_ok"]
    BY <1>9 DEF Sent, Parcel!IsScreenLockDisabled, Parcel!Request
  <2>2. Decides(c) = Service!IsScreenLockDisabled(k, store, x)
    BY <1>9 DEF Decides
  <2>3. Stub!OnRemoteRequest("IS_SCREENLOCK_DISABLED", k, store, <<x>>) = Stub!WriteValueIfOk(Decides(c))
    BY <2>2, <1>0 DEF StubRows
  <2> QED
    BY <2>1, <2>3, ReadsValueOk
<1>10. CASE Ask(c).name = "setScreenLockDisabled"
  <2>1. Sent(c) = [command |-> "SET_SCREENLOCK_DISABLED", data |-> <<x, y>>, reads |-> "code"]
    BY <1>10 DEF Sent, Parcel!SetScreenLockDisabled, Parcel!Request
  <2>2. Decides(c) = Service!SetScreenLockDisabled(k, store, x, y)
    BY <1>10 DEF Decides
  <2>3. Stub!OnRemoteRequest("SET_SCREENLOCK_DISABLED", k, store, <<x, y>>) = Stub!WriteCode(Decides(c))
    BY <2>2, <1>0 DEF StubRows
  <2> QED
    BY <2>1, <2>3, ReadsCode DEF Stub!WriteCode
<1>11. CASE Ask(c).name = "setScreenLockAuthState"
  <2>1. Sent(c) = [command |-> "SET_SCREENLOCK_AUTHSTATE", data |-> <<x, y, "">>, reads |-> "code"]
    BY <1>11 DEF Sent, Parcel!SetScreenLockAuthState, Parcel!Request
  <2>2. Decides(c) = Service!SetScreenLockAuthState(k, store, x, y, "")
    BY <1>11 DEF Decides
  <2>3. Stub!OnRemoteRequest("SET_SCREENLOCK_AUTHSTATE", k, store, <<x, y, "">>) = Stub!WriteCode(Decides(c))
    BY <2>2, <1>0 DEF StubRows
  <2> QED
    BY <2>1, <2>3, ReadsCode DEF Stub!WriteCode
<1>12. CASE Ask(c).name = "getScreenLockAuthState"
  <2>1. Sent(c) = [command |-> "GET_SCREENLOCK_AUTHSTATE", data |-> <<x>>, reads |-> "both"]
    BY <1>12 DEF Sent, Parcel!GetScreenLockAuthState, Parcel!Request
  <2>2. Decides(c) = Service!GetScreenLockAuthState(k, store, x)
    BY <1>12 DEF Decides
  <2>3. Stub!OnRemoteRequest("GET_SCREENLOCK_AUTHSTATE", k, store, <<x>>) = Stub!WriteBoth(Decides(c))
    BY <2>2, <1>0 DEF StubRows
  <2> QED
    BY <2>1, <2>3, ReadsBoth DEF Stub!WriteBoth
<1>13. CASE Ask(c).name = "requestStrongAuth"
  <2>1. Sent(c) = [command |-> "REQUEST_STRONG_AUTHSTATE", data |-> <<x, y>>, reads |-> "code"]
    BY <1>13 DEF Sent, Parcel!RequestStrongAuth, Parcel!Request
  <2>2. Decides(c) = Service!RequestStrongAuth(k, store, x, y)
    BY <1>13 DEF Decides
  <2>3. Stub!OnRemoteRequest("REQUEST_STRONG_AUTHSTATE", k, store, <<x, y>>) = Stub!WriteCode(Decides(c))
    BY <2>2, <1>0 DEF StubRows
  <2> QED
    BY <2>1, <2>3, ReadsCode DEF Stub!WriteCode
<1>14. CASE Ask(c).name = "getStrongAuth"
  <2>1. Sent(c) = [command |-> "GET_STRONG_AUTHSTATE", data |-> <<x>>, reads |-> "both"]
    BY <1>14 DEF Sent, Parcel!GetStrongAuth, Parcel!Request
  <2>2. Decides(c) = Service!GetStrongAuth(k, store, x)
    BY <1>14 DEF Decides
  <2>3. Stub!OnRemoteRequest("GET_STRONG_AUTHSTATE", k, store, <<x>>) = Stub!WriteBoth(Decides(c))
    BY <2>2, <1>0 DEF StubRows
  <2> QED
    BY <2>1, <2>3, ReadsBoth DEF Stub!WriteBoth
<1>15. CASE Ask(c).name = "isDeviceLocked"
  <2>1. Sent(c) = [command |-> "IS_DEVICE_LOCKED", data |-> <<x>>, reads |-> "both"]
    BY <1>15 DEF Sent, Parcel!IsDeviceLocked, Parcel!Request
  <2>2. Decides(c) = Service!IsDeviceLocked(k, store, x)
    BY <1>15 DEF Decides
  <2>3. Stub!OnRemoteRequest("IS_DEVICE_LOCKED", k, store, <<x>>) = Stub!WriteBoth(Decides(c))
    BY <2>2, <1>0 DEF StubRows
  <2> QED
    BY <2>1, <2>3, ReadsBoth DEF Stub!WriteBoth
<1>16. CASE Ask(c).name = "getUnlockPolicy"
  <2>1. Sent(c) = [command |-> "GET_UNLOCK_POLICY", data |-> <<x>>, reads |-> "checked"]
    BY <1>16 DEF Sent, Parcel!GetUnlockPolicy, Parcel!Request
  <2>2. Decides(c) = Service!GetUnlockPolicy(k, store, x)
    BY <1>16 DEF Decides
  <2>3. Stub!OnRemoteRequest("GET_UNLOCK_POLICY", k, store, <<x>>) = Stub!WriteBoth(Decides(c))
    BY <2>2, <1>0 DEF StubRows
  <2> QED
    BY <2>1, <2>3, ReadsChecked
<1>17. CASE Ask(c).name = "lockUser"
  <2>1. Sent(c) = [command |-> "LOCK_SCREEN", data |-> <<x>>, reads |-> "code"]
    BY <1>17 DEF Sent, Parcel!LockUser, Parcel!Request
  <2>2. Decides(c) = Service!LockScreen(k, store, x)
    BY <1>17 DEF Decides
  <2>3. Stub!OnRemoteRequest("LOCK_SCREEN", k, store, <<x>>) = Stub!WriteCode(Decides(c))
    BY <2>2, <1>0 DEF StubRows
  <2> QED
    BY <2>1, <2>3, ReadsCode DEF Stub!WriteCode
<1>18. CASE Ask(c).name = "isLockedWithUserId"
  <2>1. Sent(c) = [command |-> "IS_USER_SCREEN_LOCKED", data |-> <<x>>, reads |-> "both"]
    BY <1>18 DEF Sent, Parcel!IsLockedWithUserId, Parcel!Request
  <2>2. Decides(c) = Service!IsLockedWithUserId(k, store, x)
    BY <1>18 DEF Decides
  <2>3. Stub!OnRemoteRequest("IS_USER_SCREEN_LOCKED", k, store, <<x>>) = Stub!WriteBoth(Decides(c))
    BY <2>2, <1>0 DEF StubRows
  <2> QED
    BY <2>1, <2>3, ReadsBoth DEF Stub!WriteBoth
<1>19. CASE Ask(c).name = "setUnlockPolicy"
  <2>1. Sent(c) = [command |-> "SET_UNLOCK_POLICY", data |-> <<x, y>>, reads |-> "checked"]
    BY <1>19 DEF Sent, Parcel!SetUnlockPolicy, Parcel!Request
  <2>2. Decides(c) = Service!SetUnlockPolicy(k, store, x, y)
    BY <1>19 DEF Decides
  <2>3. Stub!OnRemoteRequest("SET_UNLOCK_POLICY", k, store, <<x, y>>) = Stub!WriteCode(Decides(c))
    BY <2>2, <1>0 DEF StubRows
  <2> QED
    BY <2>1, <2>3, ReadsChecked, PolicyValue, <2>2
<1>20. CASE Ask(c).name = "isLockedWatch"
  <2>1. Sent(c) = [command |-> "IS_LOCKED_WATCH", data |-> <<>>, reads |-> "value_ok"]
    BY <1>20 DEF Sent, Parcel!IsLockedWatch, Parcel!Request
  <2>2. Decides(c) = Service!IsLockedWatch(k, store)
    BY <1>20 DEF Decides
  <2>3. Stub!OnRemoteRequest("IS_LOCKED_WATCH", k, store, <<>>) = Stub!WriteValueIfOk(Decides(c))
    BY <2>2, <1>0 DEF StubRows
  <2> QED
    BY <2>1, <2>3, ReadsValueOk
<1>21. CASE Ask(c).name = "unlockWatch"
  <2>1. Sent(c) = [command |-> "UNLOCK_WATCH", data |-> <<x>>, reads |-> "code"]
    BY <1>21 DEF Sent, Parcel!UnlockWatch, Parcel!Request, Parcel!WithListener
  <2>2. Decides(c) = Service!UnlockWatch(k, store, x)
    BY <1>21 DEF Decides
  <2>4. x # Parcel!NoListener
    BY <1>21 DEF Sent, Parcel!UnlockWatch, Parcel!WithListener
  <2>3. Stub!OnRemoteRequest("UNLOCK_WATCH", k, store, <<x>>) = Stub!WriteCode(Decides(c))
    BY <2>2, <2>4, <1>0 DEF StubRows
  <2> QED
    BY <2>1, <2>3, ReadsCode DEF Stub!WriteCode
<1> QED
  BY <1>1, <1>2, <1>3, <1>4, <1>5, <1>6, <1>7, <1>8, <1>9, <1>10, <1>11, <1>12, <1>13, <1>14, <1>15, <1>16,
     <1>17, <1>18, <1>19, <1>20, <1>21 DEF WellAsked, JsFunctions, NativeFunctions

-----------------------------------------------------------------------------
(* What is sent is what was asked.                                         *)

\* The program is chosen once.
LEMMA SameScenario ==
  ASSUME [Next]_vars
  PROVE  scenario' = scenario
<1>1. ASSUME NEW c \in Calls,
             \/ EndAtOnce(c) \/ CallBegin(c) \/ CallGetProxy(c) \/ CallWithhold(c) \/ CallStoreListener(c)
             \/ CallTransact(c) \/ CallHandle(c) \/ CallReply(c) \/ CallFinish(c)
      PROVE  scenario' = scenario
  BY <1>1, Zenon DEF EndAtOnce, CallBegin, CallGetProxy, CallWithhold, CallStoreListener, CallTransact,
     CallHandle, CallReply, CallFinish, dataVars
<1>2. ASSUME NEW i \in DOMAIN loop, JsRuns(i) PROVE scenario' = scenario
  BY <1>2, Zenon DEF JsRuns
<1>3. CASE RunTask \/ AppAnswers \/ Dies \/ Starts \/ Connection
  BY <1>3, Zenon DEF RunTask, AppAnswers, Dies, Starts, Connection, dataVars
<1>4. CASE UNCHANGED vars
  BY <1>4, Zenon DEF vars, dataVars
<1> QED
  BY <1>1, <1>2, <1>3, <1>4, Zenon DEF Next

\* The plan of a call is what the scenario makes it.
LEMMA SamePlans ==
  ASSUME scenario' = scenario
  PROVE  \A c \in Calls : /\ Ask(c)' = Ask(c) /\ Plan(c)' = Plan(c) /\ Request(c)' = Request(c)
                          /\ Makes(c)' = Makes(c)
<1>1. \A c \in Calls : Ask(c)' = Ask(c)
  BY Zenon DEF Ask
<1>2. \A c \in Calls : \A i : Arg(c, i)' = Arg(c, i)
  BY <1>1, Zenon DEF Arg
<1>3. \A c \in Calls : NativeCall(c)' = NativeCall(c)
  BY <1>1, <1>2, Zenon DEF NativeCall
<1>4. \A c \in Calls : Plan(c)' = Plan(c)
  BY <1>1, <1>3, Zenon DEF Plan
<1> QED
  BY <1>1, <1>4, Zenon DEF Request, Makes

\* Each step keeps Carried: only a call that makes a request begins, and only a
\* request that could be written is sent.
LEMMA CarriedStep ==
  ASSUME ClientTypeOK, Carried, [Next]_vars
  PROVE  Carried'
<1>0. scenario' = scenario
  BY SameScenario
<1>1. \A c \in Calls : Request(c)' = Request(c) /\ Makes(c)' = Makes(c)
  BY <1>0, SamePlans
<1>2. SUFFICES \A c \in Calls :
        /\ pc'[c] # "idle" => Makes(c)
        /\ pc'[c] \in {"sent", "served"} => Request(c) # Parcel!NotSent
  BY <1>1 DEF Carried
<1> USE DEF ClientTypeOK
<1>3. ASSUME NEW c \in Calls, CallBegin(c) PROVE pc' = [pc EXCEPT ![c] = "begun"] /\ Makes(c)
  BY <1>3 DEF CallBegin, Begin, Goto, Makes
<1>4. ASSUME NEW c \in Calls, CallTransact(c)
      PROVE  /\ pc[c] # "idle" /\ Request(c) # Parcel!NotSent
             /\ pc' = [pc EXCEPT ![c] = "sent"] \/ pc' = [pc EXCEPT ![c] = "returned"]
  BY <1>4 DEF CallTransact, Transact, Goto
<1>5. ASSUME NEW c \in Calls, CallHandle(c) PROVE pc[c] = "sent" /\ pc' = [pc EXCEPT ![c] = "served"]
  BY <1>5 DEF CallHandle, Handle, Goto
<1>6. ASSUME NEW c \in Calls, CallGetProxy(c) \/ CallWithhold(c) \/ CallStoreListener(c) \/ CallReply(c) \/ CallFinish(c)
      PROVE  pc[c] # "idle" /\ \E place \in {"fetched", "stored", "returned", "done"} : pc' = [pc EXCEPT ![c] = place]
  BY <1>6 DEF CallGetProxy, CallWithhold, CallStoreListener, CallReply, CallFinish, GetProxy, Withhold,
     StoreListener, Reply, Finish, Goto
<1>7. CASE Dies
  BY <1>7 DEF Dies, ServiceDies, Carried
<1>8. CASE \/ \E c \in Calls : EndAtOnce(c)
           \/ \E i \in DOMAIN loop : JsRuns(i)
           \/ RunTask \/ AppAnswers \/ Starts \/ Connection \/ UNCHANGED vars
  <2>1. pc' = pc
    BY <1>8, Zenon DEF EndAtOnce, JsRuns, RunTask, AppAnswers, Starts, ServiceStarts, Connection, SamgrNotices,
       ServiceRestart, OnRemoteSaDied, clientVars, vars
  <2> QED
    BY <2>1 DEF Carried
<1>9. CASE \E c \in Calls : CallBegin(c)
  BY <1>9, <1>3 DEF Carried
<1>10. CASE \E c \in Calls : CallTransact(c)
  BY <1>10, <1>4 DEF Carried
<1>11. CASE \E c \in Calls : CallHandle(c)
  BY <1>11, <1>5 DEF Carried
<1>12. CASE \E c \in Calls : CallGetProxy(c) \/ CallWithhold(c) \/ CallStoreListener(c) \/ CallReply(c) \/ CallFinish(c)
  BY <1>12, <1>6 DEF Carried
<1> QED
  BY <1>7, <1>8, <1>9, <1>10, <1>11, <1>12, Zenon DEF Next

\* The calls of a scenario are well asked.
LEMMA IsWellAsked ==
  ASSUME scenario \in Scenarios, NEW c \in Calls, Makes(c)
  PROVE  WellAsked(c)
<1>1. Ask(c) # NoAsk
  BY DEF Makes, Plan
<1> QED
  BY <1>1, CallPathAssumption DEF WellAsked, Ask

\* The request the library sends is that of its function.
LEMMA RequestIsSent ==
  ASSUME NEW c \in Calls, WellAsked(c), Makes(c)
  PROVE  Request(c) = Sent(c)
<1>1. \E mode, gives, absent : PlanIs(c, mode, gives, absent)
  <2>1. CASE scenario.binding = "native"
    BY <2>1, NativePlans DEF WellAsked
  <2>2. CASE scenario.binding = "napi"
    <3>1. Ask(c).name \in JsFunctions
      BY <2>2 DEF WellAsked
    <3> QED
      BY <2>2, <3>1, NapiPlans DEF JsFunctions
  <2>3. CASE scenario.binding = "ani"
    <3>1. Ask(c).name \in JsFunctions
      BY <2>3 DEF WellAsked
    <3> QED
      BY <2>3, <3>1, AniPlans DEF JsFunctions
  <2> QED
    BY <2>1, <2>2, <2>3 DEF WellAsked
<1> QED
  BY <1>1 DEF PlanIs, Request

\* Only the service's handler takes a call from sent to served.
LEMMA OnlyHandleServes ==
  ASSUME ClientTypeOK, [Next]_vars, NEW c \in Calls, pc[c] = "sent", pc'[c] = "served"
  PROVE  CallHandle(c)
<1>1. ASSUME NEW d \in Calls, CallHandle(d) PROVE d = c
  BY <1>1 DEF CallHandle, Handle, Goto, ClientTypeOK
<1>2. ASSUME NEW d \in Calls, \/ CallBegin(d) \/ CallGetProxy(d) \/ CallWithhold(d) \/ CallStoreListener(d)
                              \/ CallTransact(d) \/ CallReply(d) \/ CallFinish(d)
      PROVE  FALSE
  BY <1>2 DEF CallBegin, CallGetProxy, CallWithhold, CallStoreListener, CallTransact, CallReply, CallFinish,
     Begin, GetProxy, Withhold, StoreListener, Transact, Reply, Finish, Goto, ClientTypeOK
<1>3. ~Dies
  BY DEF Dies, ServiceDies
<1>4. CASE \/ \E d \in Calls : EndAtOnce(d)
           \/ \E i \in DOMAIN loop : JsRuns(i)
           \/ RunTask \/ AppAnswers \/ Starts \/ Connection \/ UNCHANGED vars
  <2>1. pc' = pc
    BY <1>4, Zenon DEF EndAtOnce, JsRuns, RunTask, AppAnswers, Starts, ServiceStarts, Connection, SamgrNotices,
       ServiceRestart, OnRemoteSaDied, clientVars, vars
  <2> QED
    BY <2>1
<1> QED
  BY <1>1, <1>2, <1>3, <1>4, Zenon DEF Next

\* What CallHandle does to the store is what the function of the call does.
LEMMA HandledAsMeant ==
  ASSUME Carried, scenario \in Scenarios, NEW c \in Calls, CallHandle(c)
  PROVE  Makes(c) /\ store' = Decides(c).store
<1>2. Makes(c) /\ Request(c) # Parcel!NotSent
  BY DEF Carried, CallHandle, Handle
<1>3. WellAsked(c)
  BY <1>2, IsWellAsked
<1>4. Request(c) = Sent(c)
  BY <1>2, <1>3, RequestIsSent
<1>5. Serves(Request(c), scenario.caller, store, Decides(c))
  BY <1>2, <1>3, <1>4, ServesSent, CallPathAssumption
<1> QED
  BY <1>2, <1>5, Zenon DEF CallHandle, Serves

\* What a caller asks through NAPI, ANI or the library reaches the service as the
\* function and the arguments it named, and the store is left as that function
\* leaves it: EffectIntended, for any programs and any deaths of the service.
THEOREM EffectIsIntended == Spec => EffectIntended
<1>1. Init => Carried /\ scenario \in Scenarios
  BY DEF Init, ClientInit, Carried
<1>2. ClientInv /\ Carried /\ scenario \in Scenarios /\ [Next]_vars => (Carried /\ scenario \in Scenarios)'
  BY CarriedStep, SameScenario DEF ClientInv
<1>3. ClientInv /\ Carried /\ scenario \in Scenarios /\ [Next]_vars =>
        [\A c \in Calls : pc[c] = "sent" /\ pc'[c] = "served" => store' = Decides(c).store]_vars
  <2> SUFFICES ASSUME ClientInv, Carried, scenario \in Scenarios, [Next]_vars,
                      NEW c \in Calls, pc[c] = "sent", pc'[c] = "served"
               PROVE  store' = Decides(c).store
    OBVIOUS
  <2>1. CallHandle(c)
    BY OnlyHandleServes DEF ClientInv
  <2> QED
    BY <2>1, HandledAsMeant
<1> QED
  BY <1>1, <1>2, <1>3, PathUsesClient, ClientInvariant, PTL DEF Spec, EffectIntended

-----------------------------------------------------------------------------
(* What a call returns.                                                    *)

\* What the requests of the bindings read of a reply.
LEMMA SentReads ==
  ASSUME NEW c \in Calls, Makes(c), WellAsked(c), scenario.binding # "native"
  PROVE  /\ Ask(c).name \in Guesses <=> Sent(c).reads = "bool"
         /\ Sent(c).reads = "code" <=> ~Valued(c)
         /\ Sent(c).command = "NONE" => Sent(c) = Parcel!NotSent
         /\ Ask(c).name \in Guesses => Sent(c).command # "NONE"
<1> USE DEF Guesses, Valued, Requests, Parcel!Request
<1>0. Ask(c).name \in JsFunctions
  BY DEF WellAsked
<1>1. CASE Ask(c).name \in {"isScreenLocked", "isSecureMode", "isLocked"}
  BY <1>1 DEF Sent, Parcel!IsScreenLocked, Parcel!GetSecure, Parcel!IsLocked
<1>2. CASE Ask(c).name \in {"lock", "unlock", "unlockScreen", "onSystemEvent"}
  BY <1>2 DEF Sent, Parcel!Lock, Parcel!Unlock, Parcel!UnlockScreen, Parcel!UnlockInner, Parcel!OnSystemEvent,
     Parcel!WithListener, Parcel!NotSent
<1>3. CASE Ask(c).name \in {"sendScreenLockEvent", "setScreenLockDisabled", "setScreenLockAuthState", "requestStrongAuth"}
  BY <1>3 DEF Sent, Parcel!SendScreenLockEvent, Parcel!SetScreenLockDisabled, Parcel!SetScreenLockAuthState,
     Parcel!RequestStrongAuth
<1>4. CASE Ask(c).name \in {"isScreenLockDisabled", "getScreenLockAuthState", "getStrongAuth", "isDeviceLocked",
                           "getUnlockPolicy"}
  BY <1>4 DEF Sent, Parcel!IsScreenLockDisabled, Parcel!GetScreenLockAuthState, Parcel!GetStrongAuth,
     Parcel!IsDeviceLocked, Parcel!GetUnlockPolicy
<1> QED
  BY <1>0, <1>1, <1>2, <1>3, <1>4 DEF JsFunctions

\* The codes are numbers, and no two are one.
LEMMA CodesDiffer ==
  /\ E_SCREENLOCK.OK = 1000 /\ E_SCREENLOCK.NO_PERMISSION = 1010 /\ E_SCREENLOCK.NULLPTR = 1011
  /\ E_SCREENLOCK.SENDREQUEST_FAILED = 1012 /\ E_SCREENLOCK.NOT_SYSTEM_APP = 1013
  /\ E_SCREENLOCK.NOT_FOCUS_APP = 1014 /\ E_SCREENLOCK.USER_ID_INVALID = 1015
  /\ E_SCREENLOCK.READ_PARCEL_ERROR = 1002 /\ E_SCREENLOCK.WRITE_PARCEL_ERROR = 1003
  /\ E_SCREENLOCK.PARAMETERS_INVALID = 1007
  /\ SCREEN.SUCC = 0 /\ SCREEN.FAIL = 1 /\ SCREEN.CANCEL = 2 /\ SCREEN.EARLY_SUCCESS =
       3 /\ SCREEN.ALREADY_UNLOCKED = 4
  /\ Service!SCREEN = SCREEN
BY DEF E_SCREENLOCK, SCREENLOCK_ERR_OFFSET, SCREEN, Service!SCREEN

\* What the library returns without a proxy, and without a reply.
LEMMA Unanswered ==
  ASSUME NEW c \in Calls, Makes(c), WellAsked(c), scenario.binding # "native",
         NEW returned \in {Plan(c).call.absent, Parcel!Failed(Request(c))}
  PROVE  /\ Ask(c).name \in Guesses => returned = [code |-> E_SCREENLOCK.OK, value |-> 0]
         /\ Ask(c).name \notin Guesses => returned.code \in {E_SCREENLOCK.NULLPTR, E_SCREENLOCK.SENDREQUEST_FAILED}
<1>1. Request(c) = Sent(c)
  BY RequestIsSent
<1>2. CASE returned = Parcel!Failed(Request(c))
  BY <1>1, <1>2, SentReads, ServiceErrors DEF Parcel!Failed
<1>3. CASE returned = Plan(c).call.absent
  <2>1. \E mode, gives : PlanIs(c, mode, gives,
            IF Ask(c).name \in Guesses THEN E_SCREENLOCK.OK
            ELSE IF Ask(c).name = "isLocked" THEN E_SCREENLOCK.SENDREQUEST_FAILED ELSE E_SCREENLOCK.NULLPTR)
    <3>0. Ask(c).name \in JsFunctions
      BY DEF WellAsked
    <3>1. CASE scenario.binding = "napi"
      BY <3>0, <3>1, NapiPlans DEF JsFunctions, Guesses
    <3>2. CASE scenario.binding = "ani"
      BY <3>0, <3>2, AniPlans DEF JsFunctions, Guesses
    <3> QED
      BY <3>1, <3>2 DEF WellAsked
  <2> QED
    BY <2>1, <1>3 DEF PlanIs, Guesses
<1> QED
  BY <1>2, <1>3

\* Requests with a listener ask no boolean question.
LEMMA ListenersAsk ==
  ASSUME NEW c \in Calls, Makes(c), WellAsked(c), scenario.binding # "native"
  PROVE  Plan(c).mode = "listener" <=> Ask(c).name \in {"lock", "unlock", "unlockScreen"}
<1>0. Ask(c).name \in JsFunctions
  BY DEF WellAsked
<1>1. CASE scenario.binding = "napi"
  BY <1>0, <1>1, NapiPlans DEF JsFunctions, PlanIs
<1>2. CASE scenario.binding = "ani"
  BY <1>0, <1>2, AniPlans DEF JsFunctions, PlanIs
<1> QED
  BY <1>1, <1>2 DEF WellAsked

\* The function of the service that a call of a binding means.
LEMMA Meant ==
  ASSUME NEW c \in Calls
  PROVE  LET k == scenario.caller
             s == store
             x == Arg(c, 1)
             y == Arg(c, 2)
         IN /\ Ask(c).name = "isScreenLocked" => Decides(c) = Service!Ok(Service!IsScreenLocked(k, s), s)
            /\ Ask(c).name = "isSecureMode" => Decides(c) = Service!Ok(Service!GetSecure(k, s), s)
            /\ Ask(c).name = "isLocked" => Decides(c) = Service!IsLocked(k, s)
            /\ Ask(c).name = "lock" => Decides(c) = Service!Lock(k, s, c)
            /\ Ask(c).name = "unlock" => Decides(c) = Service!Unlock(k, s, c)
            /\ Ask(c).name = "unlockScreen" => Decides(c) = Service!UnlockScreen(k, s, c)
            /\ Ask(c).name = "onSystemEvent" => Decides(c) = Service!OnSystemEvent(k, s)
            /\ Ask(c).name = "sendScreenLockEvent" => Decides(c) = Service!SendScreenLockEvent(k, s, x, y)
            /\ Ask(c).name = "isScreenLockDisabled" => Decides(c) = Service!IsScreenLockDisabled(k, s, x)
            /\ Ask(c).name = "setScreenLockDisabled" => Decides(c) = Service!SetScreenLockDisabled(k, s, x, y)
            /\ Ask(c).name = "setScreenLockAuthState" => Decides(c) = Service!SetScreenLockAuthState(k, s, x, y, "")
            /\ Ask(c).name = "requestStrongAuth" => Decides(c) = Service!RequestStrongAuth(k, s, x, y)
            /\ Ask(c).name = "getScreenLockAuthState" => Decides(c) = Service!GetScreenLockAuthState(k, s, x)
            /\ Ask(c).name = "getStrongAuth" => Decides(c) = Service!GetStrongAuth(k, s, x)
            /\ Ask(c).name = "isDeviceLocked" => Decides(c) = Service!IsDeviceLocked(k, s, x)
            /\ Ask(c).name = "getUnlockPolicy" => Decides(c) = Service!GetUnlockPolicy(k, s, x)
BY DEF Decides

\* What the functions the bindings call decide with.
LEMMA DecidedCodes ==
  ASSUME NEW c \in Calls, Ask(c).name \in JsFunctions
  PROVE  /\ Decides(c).code \in Codes \cup {E_SCREENLOCK.OK}
         /\ Ask(c).name \in Guesses => Decides(c).code = E_SCREENLOCK.OK
<1> DEFINE k == scenario.caller
           x == Arg(c, 1)
           y == Arg(c, 2)
           s == store
           All == Codes \cup {E_SCREENLOCK.OK}
<1>0. \A v, t : Service!Ok(v, t).code = E_SCREENLOCK.OK
  BY ServiceErrors DEF Service!Ok, Service!Reply
<1>1. CASE Ask(c).name \in Guesses
  BY <1>0, <1>1, Meant DEF Guesses
<1>2. /\ Service!IsLocked(k, s).code \in All /\ Service!Lock(k, s, c).code \in All
      /\ Service!OnSystemEvent(k, s).code \in All /\ Service!SendScreenLockEvent(k, s, x, y).code \in All
  BY ServiceErrors, CodesDiffer DEF Service!IsLocked, Service!Lock, Service!OnSystemEvent,
     Service!SendScreenLockEvent, Service!Ok, Service!Refuse, Service!Reply, Codes
<1>3. Service!Unlock(k, s, c).code \in All /\ Service!UnlockScreen(k, s, c).code \in All
  BY ServiceErrors, CodesDiffer DEF Service!Unlock, Service!UnlockScreen, Service!UnlockInner, Service!Ok,
     Service!Refuse, Service!Reply, Codes
<1>4. /\ Service!IsScreenLockDisabled(k, s, x).code \in All
      /\ Service!SetScreenLockDisabled(k, s, x, y).code \in All
      /\ Service!SetScreenLockAuthState(k, s, x, y, "").code \in All
      /\ Service!RequestStrongAuth(k, s, x, y).code \in All
  BY ServiceErrors, CodesDiffer DEF Service!IsScreenLockDisabled, Service!SetScreenLockDisabled,
     Service!SetScreenLockAuthState, Service!RequestStrongAuth, Service!Ok, Service!Refuse, Service!Reply, Codes
<1>5. /\ Service!GetScreenLockAuthState(k, s, x).code \in All
      /\ Service!GetStrongAuth(k, s, x).code \in All
      /\ Service!IsDeviceLocked(k, s, x).code \in All
      /\ Service!GetUnlockPolicy(k, s, x).code \in All
  BY ServiceErrors, CodesDiffer DEF Service!GetScreenLockAuthState, Service!GetStrongAuth,
     Service!IsDeviceLocked, Service!GetUnlockPolicy, Service!Ok, Service!Refuse, Service!Reply, Codes
<1>6. CASE Ask(c).name \notin Guesses
  <2> HIDE DEF All
  <2>1. Ask(c).name \in {"isLocked", "lock", "onSystemEvent", "sendScreenLockEvent"} => Decides(c).code \in All
    BY <1>2, Meant
  <2>2. Ask(c).name \in {"unlock", "unlockScreen"} => Decides(c).code \in All
    BY <1>3, Meant
  <2>3. Ask(c).name \in {"isScreenLockDisabled", "setScreenLockDisabled", "setScreenLockAuthState",
                         "requestStrongAuth"} =>
          Decides(c).code \in All
    BY <1>4, Meant
  <2>4. Ask(c).name \in {"getScreenLockAuthState", "getStrongAuth", "isDeviceLocked", "getUnlockPolicy"} =>
          Decides(c).code \in All
    BY <1>5, Meant
  <2> QED
    BY <2>1, <2>2, <2>3, <2>4, <1>6 DEF JsFunctions, Guesses, All
<1> QED
  BY <1>1, <1>6 DEF Guesses

\* A refusal is none of the codes of a call that was not served.
LEMMA DecidedIsServed ==
  ASSUME NEW code \in Codes \cup {E_SCREENLOCK.OK}
  PROVE  code \notin {E_SCREENLOCK.NULLPTR, E_SCREENLOCK.SENDREQUEST_FAILED}
BY CodesDiffer DEF Codes

-----------------------------------------------------------------------------
(* The invariant of the results, step by step.                             *)

\* A call that a step is not about.
Still(c) ==
  /\ pc'[c] = pc[c] /\ won'[c] = won[c]
  /\ result'[c] = result[c] /\ direct'[c] = direct[c]

\* A call whose result and decision stay is promised the same.
LEMMA SameExpectations ==
  ASSUME scenario' = scenario, NEW c \in Calls, result'[c] = result[c], direct'[c] = direct[c]
  PROVE  Agrees(c)' = Agrees(c)
BY Zenon DEF Agrees, Valued, Ask, Unserved

\* A step that is not about a call keeps what is known of its result.
LEMMA StillReturned ==
  ASSUME scenario' = scenario, NEW c \in Calls, Still(c), ResultInv(c)
  PROVE  ResultInv(c)'
<1>1. Agrees(c)' = Agrees(c)
  BY SameExpectations DEF Still
<1>2. Plan(c)' = Plan(c)
  BY SamePlans
<1> QED
  BY <1>1, <1>2 DEF Still, ResultInv

\* A call returns unserved.
LEMMA UnservedAgrees ==
  ASSUME scenario \in Scenarios, NEW c \in Calls, Makes(c), scenario.binding # "native", scenario' = scenario,
         direct'[c] = Unserved, result'[c] \in {Plan(c).call.absent, Parcel!Failed(Request(c))}
  PROVE  Agrees(c)' /\ (Plan(c).mode = "listener" => result'[c].code # E_SCREENLOCK.OK)
<1>1. WellAsked(c)
  BY IsWellAsked
<1>2. /\ Ask(c).name \in Guesses => result'[c] = [code |-> E_SCREENLOCK.OK, value |-> 0]
      /\ Ask(c).name \notin Guesses => result'[c].code \in {E_SCREENLOCK.NULLPTR, E_SCREENLOCK.SENDREQUEST_FAILED}
  BY <1>1, Unanswered
<1>3. Ask(c)' = Ask(c)
  BY DEF Ask
<1>4. Plan(c).mode = "listener" => Ask(c).name \notin Guesses
  BY <1>1, ListenersAsk DEF Guesses
<1> QED
  BY <1>2, <1>3, <1>4, CodesDiffer DEF Agrees, Unserved

\* A call returns what the service handled.
LEMMA HandleAgrees ==
  ASSUME Shapes, Carried, ClientTypeOK, NEW c \in Calls, CallHandle(c), scenario.binding # "native"
  PROVE  /\ Agrees(c)'
         /\ Plan(c).mode = "listener" => (won'[c] <=> result'[c].code = E_SCREENLOCK.OK)
         /\ result'[c].code = Decides(c).code \/ Ask(c).name \in Guesses
<1> DEFINE handled == Stub!OnRemoteRequest(Request(c).command, scenario.caller, store, Request(c).data)
           decided == Decides(c)
           got == Parcel!Result(Request(c), handled.reply)
<1>1. Makes(c) /\ Request(c) # Parcel!NotSent
  BY DEF Carried, CallHandle, Handle
<1>2. WellAsked(c) /\ Request(c) = Sent(c)
  BY <1>1, IsWellAsked, RequestIsSent DEF Shapes
<1>3. Serves(Request(c), scenario.caller, store, decided)
  BY <1>1, <1>2, ServesSent, CallPathAssumption
<1>4. /\ Request(c).reads = "bool" => got = [code |-> E_SCREENLOCK.OK, value |-> decided.value]
      /\ Request(c).reads # "bool" =>
           /\ got.code = decided.code /\ Parcel!Read(handled.reply, 1) = decided.code
           /\ decided.code = E_SCREENLOCK.OK /\ Request(c).reads # "code" => got.value = decided.value
  BY <1>3 DEF Serves
<1>5. Ask(c).name \in JsFunctions
  BY <1>2 DEF WellAsked
<1>6. /\ decided.code \in Codes \cup {E_SCREENLOCK.OK}
      /\ Ask(c).name \in Guesses => decided.code = E_SCREENLOCK.OK
  BY <1>5, DecidedCodes
<1>7. /\ Ask(c).name \in Guesses <=> Request(c).reads = "bool"
      /\ Request(c).reads = "code" <=> ~Valued(c)
  BY <1>1, <1>2, SentReads
<1>8. result'[c] = got /\ direct'[c] = [code |-> decided.code, value |-> decided.value]
  BY DEF CallHandle, Shapes
<1>9. won'[c] = (Parcel!Read(handled.reply, 1) = E_SCREENLOCK.OK)
  BY DEF CallHandle, Handle, ClientTypeOK
<1>10. Ask(c)' = Ask(c) /\ Valued(c)' = Valued(c)
  BY DEF CallHandle, Ask, Valued
<1>11. Plan(c).mode = "listener" => Ask(c).name \notin Guesses
  BY <1>1, <1>2, ListenersAsk DEF Guesses
<1>12. direct'[c] # Unserved
  BY <1>6, <1>8, CodesDiffer DEF Unserved, Codes
<1> HIDE DEF handled, decided, got
<1>13. Agrees(c)'
  BY <1>4, <1>6, <1>7, <1>8, <1>10, <1>12 DEF Agrees, Unserved
<1> QED
  BY <1>4, <1>7, <1>8, <1>9, <1>11, <1>13 DEF decided

\* Each step keeps the domains of the functions of CallPath.
LEMMA ShapesStep ==
  ASSUME Shapes, [Next]_vars
  PROVE  Shapes'
<1>1. scenario' \in Scenarios
  BY SameScenario DEF Shapes
<1> USE DEF Shapes
<1>2. ASSUME NEW c \in Calls, \/ EndAtOnce(c) \/ CallBegin(c) \/ CallGetProxy(c) \/ CallWithhold(c)
                              \/ CallStoreListener(c) \/ CallTransact(c) \/ CallReply(c) \/ CallFinish(c)
      PROVE  Shapes'
  BY <1>1, <1>2 DEF EndAtOnce, CallBegin, CallGetProxy, CallWithhold, CallStoreListener, CallTransact,
     CallReply, CallFinish, Give, Fails, dataVars
<1>3. ASSUME NEW c \in Calls, CallHandle(c) PROVE Shapes'
  <2>1. told' = [d \in Calls |-> told'[d]]
    BY <1>3, Zenon DEF CallHandle
  <2> QED
    BY <1>1, <1>3, <2>1 DEF CallHandle
<1>4. ASSUME NEW i \in DOMAIN loop, JsRuns(i) PROVE Shapes'
  BY <1>1, <1>4 DEF JsRuns, Give
<1>5. CASE RunTask \/ Starts \/ Connection \/ UNCHANGED vars
  BY <1>1, <1>5 DEF RunTask, Starts, Connection, vars, dataVars
<1>6. CASE AppAnswers
  BY <1>1, <1>6 DEF AppAnswers
<1>7. CASE Dies
  BY <1>1, <1>7 DEF Dies
<1> QED
  BY <1>2, <1>3, <1>4, <1>5, <1>6, <1>7, Zenon DEF Next

\* Steps of a call that move no other.
LEMMA OthersStill ==
  ASSUME Shapes, ClientTypeOK, NEW c \in Calls, NEW d \in Calls, d # c,
         \/ EndAtOnce(c) \/ CallBegin(c) \/ CallGetProxy(c) \/ CallWithhold(c) \/ CallStoreListener(c)
         \/ CallTransact(c) \/ CallHandle(c) \/ CallReply(c) \/ CallFinish(c)
  PROVE  Still(d)
<1> USE DEF Still, Shapes, ClientTypeOK
<1>1. CASE EndAtOnce(c)
  BY <1>1 DEF EndAtOnce, clientVars
<1>2. CASE CallBegin(c) \/ CallStoreListener(c) \/ CallReply(c)
  BY <1>2 DEF CallBegin, CallStoreListener, CallReply, Begin, StoreListener, Reply, Goto, dataVars
<1>3. CASE CallGetProxy(c)
  BY <1>3 DEF CallGetProxy, GetProxy, Goto
<1>4. CASE CallWithhold(c) \/ CallTransact(c)
  BY <1>4 DEF CallWithhold, CallTransact, Withhold, Transact, Goto, Fails
<1>5. CASE CallHandle(c)
  BY <1>5 DEF CallHandle, Handle, Goto
<1>6. CASE CallFinish(c)
  BY <1>6 DEF CallFinish, Finish, Goto
<1> QED
  BY <1>1, <1>2, <1>3, <1>4, <1>5, <1>6

\* Each step keeps ReturnInv: a call returns the code of a missing proxy, the
\* failure of a death or a refused transaction, or what the service decided.
LEMMA ReturnStep ==
  ASSUME ClientInv, ReturnInv, [Next]_vars
  PROVE  ReturnInv'
<1>0. ClientTypeOK /\ Underway /\ Shapes /\ Carried /\ scenario' = scenario
  BY SameScenario DEF ClientInv, ReturnInv
<1>1. Shapes' /\ Carried'
  BY <1>0, ShapesStep, CarriedStep
<1>2. SUFFICES \A d \in Calls : ResultInv(d)'
  BY <1>1 DEF ReturnInv
<1>3. \A d \in Calls : ResultInv(d)
  BY DEF ReturnInv
<1>4. \A d \in Calls : Plan(d)' = Plan(d) /\ Request(d)' = Request(d) /\ (scenario.binding)' = scenario.binding
  BY <1>0, SamePlans
<1>5. ASSUME NEW c \in Calls, ResultInv(c)',
             \/ EndAtOnce(c) \/ CallBegin(c) \/ CallGetProxy(c) \/ CallWithhold(c) \/ CallStoreListener(c)
             \/ CallTransact(c) \/ CallHandle(c) \/ CallReply(c) \/ CallFinish(c)
      PROVE  \A d \in Calls : ResultInv(d)'
  <2> TAKE d \in Calls
  <2>1. CASE d = c
    BY <1>5, <2>1
  <2>2. CASE d # c
    <3>1. Still(d)
      BY <1>0, <1>5, <2>2, OthersStill
    <3> QED
      BY <1>0, <1>3, <3>1, StillReturned
  <2> QED
    BY <2>1, <2>2
<1>6. ASSUME NEW c \in Calls, EndAtOnce(c) PROVE ResultInv(c)'
  <2>1. Still(c)
    BY <1>6 DEF EndAtOnce, clientVars, Still
  <2> QED
    BY <1>0, <1>3, <2>1, StillReturned
\* The call has not returned yet, or no longer changes.
<1>7. ASSUME NEW c \in Calls, pc'[c] \in {"begun", "fetched", "stored", "sent"},
             pc[c] \in {"idle", "begun", "fetched", "stored"}, direct' = direct
      PROVE  ResultInv(c)'
  BY <1>3, <1>7 DEF ResultInv, Unserved
<1>8. ASSUME NEW c \in Calls, pc'[c] = "returned", pc[c] \in {"begun", "fetched", "stored"}, direct' = direct,
             won' = won, result'[c] \in {Plan(c).call.absent, Parcel!Failed(Request(c))}
      PROVE  ResultInv(c)'
  <2>1. direct'[c] = Unserved
    BY <1>3, <1>8 DEF ResultInv
  <2>2. Makes(c) /\ ~won[c]
    BY <1>0, <1>8 DEF Carried, Underway, ClientTypeOK
  <2>3. CASE scenario.binding # "native"
    <3>1. Agrees(c)' /\ (Plan(c).mode = "listener" => result'[c].code # E_SCREENLOCK.OK)
      BY <1>0, <1>8, <2>1, <2>2, <2>3, UnservedAgrees DEF Shapes
    <3> QED
      BY <1>0, <1>4, <1>8, <2>2, <3>1 DEF ResultInv
  <2> QED
    BY <1>0, <1>8, <2>3 DEF ResultInv
<1>9. ASSUME NEW c \in Calls, pc'[c] \in {"returned", "done"}, pc[c] \in {"served", "returned"},
             direct' = direct, won' = won, result' = result
      PROVE  ResultInv(c)'
  <2>1. Agrees(c)' = Agrees(c)
    BY <1>0, <1>9, SameExpectations
  <2> QED
    BY <1>0, <1>3, <1>4, <1>9, <2>1 DEF ResultInv
<1> USE DEF ClientTypeOK, Shapes
<1>10. ASSUME NEW c \in Calls, CallBegin(c) \/ CallStoreListener(c) PROVE ResultInv(c)'
  BY <1>0, <1>7, <1>10 DEF CallBegin, CallStoreListener, Begin, StoreListener, Goto, dataVars
<1>11. ASSUME NEW c \in Calls, CallReply(c) \/ CallFinish(c) PROVE ResultInv(c)'
  BY <1>0, <1>9, <1>11 DEF CallReply, CallFinish, Reply, Finish, Goto, dataVars
<1>12. ASSUME NEW c \in Calls, CallGetProxy(c) PROVE ResultInv(c)'
  BY <1>0, <1>7, <1>8, <1>12 DEF CallGetProxy, GetProxy, Goto
<1>13. ASSUME NEW c \in Calls, CallWithhold(c) PROVE ResultInv(c)'
  BY <1>0, <1>8, <1>13 DEF CallWithhold, Withhold, Goto, Fails
<1>14. ASSUME NEW c \in Calls, CallTransact(c) PROVE ResultInv(c)'
  BY <1>0, <1>7, <1>8, <1>14 DEF CallTransact, Transact, Goto, Fails
<1>15. ASSUME NEW c \in Calls, CallHandle(c) PROVE ResultInv(c)'
  <2>1. pc'[c] = "served"
    BY <1>0, <1>15 DEF CallHandle, Handle, Goto
  <2>2. CASE scenario.binding # "native"
    <3>1. Agrees(c)' /\ (Plan(c).mode = "listener" => (won'[c] <=> result'[c].code = E_SCREENLOCK.OK))
      BY <1>0, <1>15, <2>2, HandleAgrees
    <3> QED
      BY <1>4, <2>1, <3>1 DEF ResultInv
  <2> QED
    BY <1>0, <2>1, <2>2 DEF ResultInv
<1>16. CASE \/ \E i \in DOMAIN loop : JsRuns(i)
            \/ RunTask \/ AppAnswers \/ Starts \/ Connection \/ UNCHANGED vars
  <2>1. \A d \in Calls : Still(d)
    BY <1>16, Zenon DEF JsRuns, RunTask, AppAnswers, Starts, ServiceStarts, Connection, SamgrNotices,
       ServiceRestart, OnRemoteSaDied, clientVars, vars, dataVars, Still
  <2> QED
    BY <1>0, <1>3, <2>1, StillReturned
<1>17. CASE Dies
  <2> TAKE c \in Calls
  <2>1. CASE pc[c] \in {"sent", "served"}
    <3>1. /\ pc'[c] = "returned" /\ ~won'[c]
          /\ result'[c] = Parcel!Failed(Request(c)) /\ direct'[c] = Unserved
      BY <1>17, <2>1 DEF Dies, ServiceDies
    <3>2. Makes(c)
      BY <1>0, <2>1 DEF Carried
    <3>3. CASE scenario.binding # "native"
      <4>1. Agrees(c)' /\ (Plan(c).mode = "listener" => result'[c].code # E_SCREENLOCK.OK)
        BY <1>0, <3>1, <3>2, <3>3, UnservedAgrees
      <4> QED
        BY <1>4, <3>1, <4>1 DEF ResultInv
    <3> QED
      BY <1>0, <3>1, <3>3 DEF ResultInv
  <2>2. CASE pc[c] \notin {"sent", "served"}
    <3>1. Still(c)
      BY <1>0, <1>17, <2>2 DEF Dies, ServiceDies, Still
    <3> QED
      BY <1>0, <1>3, <3>1, StillReturned
  <2> QED
    BY <2>1, <2>2
<1> QED
  BY <1>5, <1>6, <1>10, <1>11, <1>12, <1>13, <1>14, <1>15, <1>16, <1>17, Zenon DEF Next

\* What ScreenLockManagerProxy returns to a binding is what the service decided on
\* the call, or a code that says it was not served; and the service holds the
\* listener of a call exactly when it returned OK.
THEOREM ReturnInvariant == Spec => []ReturnInv
<1>1. Init => ReturnInv
  BY DEF Init, ClientInit, ReturnInv, Shapes, Carried, ResultInv, Unserved
<1>2. ClientInv /\ ReturnInv /\ [Next]_vars => ReturnInv'
  BY ReturnStep
<1> QED
  BY <1>1, <1>2, PathUsesClient, ClientInvariant, PTL DEF Spec

-----------------------------------------------------------------------------
(* The service's listeners and callback tasks.                             *)

\* What is kept of the listeners and the callback tasks.
KeepsLists(s, t) ==
  HasFields(t) /\ t.unlocks = s.unlocks /\ t.locks = s.locks /\ t.tasks = s.tasks

\* An event for the app leaves them,
LEMMA CallbackKeeps ==
  ASSUME NEW s, HasFields(s), NEW event
  PROVE  KeepsLists(s, Service!SystemEventCallBack(s, event))
BY DEF Service!SystemEventCallBack, StoreFields, KeepsLists, HasFields

\* and so does any other member of the service.
LEMMA UpdateKeeps ==
  ASSUME NEW s, HasFields(s), NEW field \in StoreFields \ {"unlocks", "locks", "tasks"}, NEW value
  PROVE  KeepsLists(s, [s EXCEPT ![field] = value])
BY DEF StoreFields, KeepsLists, HasFields

\* Two steps that leave them leave them together,
LEMMA KeepsTwice ==
  ASSUME NEW s, NEW t, NEW u, KeepsLists(s, t), KeepsLists(t, u)
  PROVE  KeepsLists(s, u)
BY DEF KeepsLists

\* and so does no step.
LEMMA KeepsItself ==
  ASSUME NEW s, HasFields(s)
  PROVE  KeepsLists(s, s)
BY DEF KeepsLists

\* The service's questions change nothing,
LEMMA QuestionsKeep ==
  ASSUME NEW k, NEW s, NEW x
  PROVE  /\ Service!IsLocked(k, s).store = s /\ Service!IsScreenLockDisabled(k, s, x).store = s
         /\ Service!GetScreenLockAuthState(k, s, x).store = s /\ Service!GetStrongAuth(k, s, x).store = s
         /\ Service!IsDeviceLocked(k, s, x).store = s /\ Service!GetUnlockPolicy(k, s, x).store = s
BY DEF Service!IsLocked, Service!IsScreenLockDisabled, Service!GetScreenLockAuthState, Service!GetStrongAuth,
   Service!IsDeviceLocked, Service!GetUnlockPolicy, Service!Ok, Service!Refuse, Service!Reply

\* and its requests without a listener leave the lists.
LEMMA RequestsKeep ==
  ASSUME NEW k, NEW s, NEW x, NEW y, HasFields(s)
  PROVE  /\ KeepsLists(s, Service!OnSystemEvent(k, s).store)
         /\ KeepsLists(s, Service!SetScreenLockDisabled(k, s, x, y).store)
         /\ KeepsLists(s, Service!SetScreenLockAuthState(k, s, x, y, "").store)
         /\ KeepsLists(s, Service!RequestStrongAuth(k, s, x, y).store)
<1> USE DEF Service!Ok, Service!Refuse, Service!Reply
<1>0. KeepsLists(s, s)
  BY KeepsItself
<1>1. KeepsLists(s, Service!OnSystemEvent(k, s).store)
  BY DEF Service!OnSystemEvent, KeepsLists, HasFields, StoreFields
<1>2. KeepsLists(s, Service!SetScreenLockDisabled(k, s, x, y).store)
  <2> DEFINE t == [s EXCEPT !.disabled = Service!Put(s.disabled, y, x)]
  <2>1. KeepsLists(s, t)
    BY UpdateKeeps DEF StoreFields
  <2>2. Service!SetScreenLockDisabled(k, s, x, y).store \in {s, t}
    BY DEF Service!SetScreenLockDisabled, Service!FreshDisabledState
  <2> QED
    BY <1>0, <2>1, <2>2
<1>3. KeepsLists(s, Service!SetScreenLockAuthState(k, s, x, y, "").store)
  <2> DEFINE t == [s EXCEPT !.auth = Service!Put(s.auth, y, x)]
             u == Service!SystemEventCallBack(t, "preAuthResult")
  <2>1. KeepsLists(s, t)
    BY UpdateKeeps DEF StoreFields
  <2> HIDE DEF t
  <2>2. KeepsLists(s, u)
    <3>1. HasFields(t)
      BY <2>1 DEF KeepsLists
    <3>2. KeepsLists(t, u)
      BY <3>1, CallbackKeeps, Zenon
    <3> HIDE DEF u
    <3> QED
      BY <2>1, <3>2, KeepsTwice, Zenon
  <2>3. Service!SetScreenLockAuthState(k, s, x, y, "").store \in {s, t, u}
    BY DEF Service!SetScreenLockAuthState, Service!PreAuthStateNotify, t
  <2> QED
    BY <1>0, <2>1, <2>2, <2>3
<1>4. KeepsLists(s, Service!RequestStrongAuth(k, s, x, y).store)
  <2> DEFINE t == [s EXCEPT !.strong = Service!Put(s.strong, y, x)]
             u == Service!SystemEventCallBack(t, "strongAuthChanged")
  <2>1. KeepsLists(s, t)
    BY UpdateKeeps DEF StoreFields
  <2> HIDE DEF t
  <2>2. KeepsLists(s, u)
    <3>1. HasFields(t)
      BY <2>1 DEF KeepsLists
    <3>2. KeepsLists(t, u)
      BY <3>1, CallbackKeeps, Zenon
    <3> HIDE DEF u
    <3> QED
      BY <2>1, <3>2, KeepsTwice, Zenon
  <2>3. Service!RequestStrongAuth(k, s, x, y).store \in {s, t, u}
    BY DEF Service!RequestStrongAuth, Service!StrongAuthChanged, t
  <2> QED
    BY <1>0, <2>1, <2>2, <2>3
<1> QED
  BY <1>1, <1>2, <1>3, <1>4

\* c is the last of those who wait for an unlock, or for a lock.
JoinsUnlocks(s, t, c, user) ==
  /\ HasFields(t) /\ t.unlocks = Append(s.unlocks, [listener |-> c, user |-> user])
  /\ t.locks = s.locks /\ t.tasks = s.tasks

\* The same for a lock.
JoinsLocks(s, t, c) ==
  /\ HasFields(t) /\ t.locks = Append(s.locks, c)
  /\ t.unlocks = s.unlocks /\ t.tasks = s.tasks

\* A request that is accepted is the last in its list.
LEMMA ListenerJoins ==
  ASSUME NEW k, NEW s, NEW c, HasFields(s)
  PROVE  /\ \A u \in {Service!Unlock(k, s, c), Service!UnlockScreen(k, s, c)} :
              IF u.code = E_SCREENLOCK.OK THEN JoinsUnlocks(s, u.store, c, k.user) ELSE u.store = s
         /\ IF Service!Lock(k, s, c).code = E_SCREENLOCK.OK THEN JoinsLocks(s, Service!Lock(k, s, c).store, c)
            ELSE Service!Lock(k, s, c).store = s
<1> DEFINE entry == [listener |-> c, user |-> k.user]
           asked == [s EXCEPT !.unlocks = Append(s.unlocks, entry)]
           locking == [s EXCEPT !.locks = Append(s.locks, c)]
           after == Service!SystemEventCallBack(asked, "unlockScreen")
           afterLock == Service!SystemEventCallBack(locking, "lockScreen")
<1>1. JoinsUnlocks(s, asked, c, k.user) /\ JoinsLocks(s, locking, c)
  BY DEF HasFields, StoreFields, JoinsUnlocks, JoinsLocks
<1>2. /\ Service!UnlockInner(k, s, c) =
           IF ~Service!IsNativeAccess(k) /\ ~Service!IsAppInForeground(k) /\ ~Service!CheckPermission(k, "ACCESS_SCREEN_LOCK")
           THEN Service!Refuse(E_SCREENLOCK.NOT_FOCUS_APP, s)
           ELSE Service!Ok(0, after)
      /\ Service!Lock(k, s, c) =
           IF ~k.system THEN Service!Refuse(E_SCREENLOCK.NOT_SYSTEM_APP, s)
           ELSE IF ~Service!CheckPermission(k, "ACCESS_SCREEN_LOCK_INNER") THEN Service!Refuse(E_SCREENLOCK.NO_PERMISSION, s)
           ELSE Service!Ok(0, afterLock)
  BY ServiceErrors, Zenon DEF Service!UnlockInner, Service!Lock
<1> HIDE DEF asked, locking
<1>3. KeepsLists(asked, after) /\ KeepsLists(locking, afterLock)
  BY <1>1, CallbackKeeps DEF JoinsUnlocks, JoinsLocks
<1> HIDE DEF after, afterLock
<1>4. JoinsUnlocks(s, after, c, k.user) /\ JoinsLocks(s, afterLock, c)
  BY <1>1, <1>3 DEF KeepsLists, JoinsUnlocks, JoinsLocks
<1>5. \A code, v, t : /\ Service!Refuse(code, t).code = code /\ Service!Refuse(code, t).store = t
                      /\ Service!Ok(v, t).code = E_SCREENLOCK.OK /\ Service!Ok(v, t).store = t
  BY ServiceErrors DEF Service!Refuse, Service!Ok, Service!Reply
<1>6. \A u \in {Service!Unlock(k, s, c), Service!UnlockScreen(k, s, c)} :
        \/ u = Service!UnlockInner(k, s, c)
        \/ u = Service!Refuse(E_SCREENLOCK.NOT_SYSTEM_APP, s)
  BY ServiceErrors DEF Service!Unlock, Service!UnlockScreen
<1>7. ASSUME NEW u \in {Service!Unlock(k, s, c), Service!UnlockScreen(k, s, c)}
      PROVE  IF u.code = E_SCREENLOCK.OK THEN JoinsUnlocks(s, u.store, c, k.user) ELSE u.store = s
  <2>1. \/ u.code # E_SCREENLOCK.OK /\ u.store = s
        \/ u.code = E_SCREENLOCK.OK /\ u.store = after
    <3>1. CASE u = Service!Refuse(E_SCREENLOCK.NOT_SYSTEM_APP, s) \/ u = Service!Refuse(E_SCREENLOCK.NOT_FOCUS_APP, s)
      BY <3>1, <1>5, CodesDiffer
    <3>2. CASE u = Service!Ok(0, after)
      BY <3>2, <1>5
    <3> QED
      BY <3>1, <3>2, <1>2, <1>6, <1>7, Zenon
  <2> QED
    BY <1>4, <2>1, Zenon
<1>8. IF Service!Lock(k, s, c).code = E_SCREENLOCK.OK THEN JoinsLocks(s, Service!Lock(k, s, c).store, c)
      ELSE Service!Lock(k, s, c).store = s
  BY <1>2, <1>4, <1>5, CodesDiffer
<1> QED
  BY <1>7, <1>8, Zenon

\* A task that passes on an answer of the app.
Passes(s, t, kindOf, answer, user) ==
  \E given : /\ given = answer \/ (given = SCREEN.SUCC /\ answer = SCREEN.ALREADY_UNLOCKED)
             /\ t.tasks = Append(s.tasks, [kind |-> kindOf, result |-> given, user |-> user])

\* Submit queues the task, or does nothing.
LEMMA SubmitEffect ==
  ASSUME NEW s, HasFields(s), NEW pending, NEW kindOf, NEW given, NEW user
  PROVE  LET t == Service!Submit(s, pending, [kind |-> kindOf, result |-> given, user |-> user])
         IN /\ HasFields(t) /\ t.unlocks = s.unlocks /\ t.locks = s.locks
            /\ \/ t.tasks = s.tasks
               \/ t.tasks = Append(s.tasks, [kind |-> kindOf, result |-> given, user |-> user])
BY DEF Service!Submit, HasFields, StoreFields

\* What the app's report of a lock or an unlock leaves.
Reported(s, t, kindOf, answer, user) ==
  /\ HasFields(t) /\ t.unlocks = s.unlocks /\ t.locks = s.locks
  /\ t.tasks = s.tasks \/ Passes(s, t, kindOf, answer, user)

\* UnlockScreenEvent and LockScreenEvent leave at most a task with the app's answer.
LEMMA ReportEffect ==
  ASSUME NEW k, NEW s, HasFields(s), NEW answer
  PROVE  /\ Reported(s, Service!UnlockScreenEvent(k, s, answer), "unlock", answer, k.user)
         /\ Reported(s, Service!LockScreenEvent(k, s, answer), "lock", answer, k.user)
<1> DEFINE open == [s EXCEPT !.locked = Service!Put(s.locked, k.user, 0)]
           shut == [s EXCEPT !.locked = Service!Put(s.locked, k.user, 1)]
<1>1. KeepsLists(s, open) /\ KeepsLists(s, shut) /\ KeepsLists(s, s)
  BY UpdateKeeps, KeepsItself DEF StoreFields
<1>2. \A kindOf : Reported(s, s, kindOf, answer, k.user) /\ Reported(s, open, kindOf, answer, k.user)
  <2> HIDE DEF open, shut
  <2> QED
    BY <1>1 DEF KeepsLists, Reported
<1>3. ASSUME NEW base \in {s, open, shut}, NEW pending, NEW kindOf, NEW given,
             given = answer \/ (given = SCREEN.SUCC /\ answer = SCREEN.ALREADY_UNLOCKED)
      PROVE  Reported(s, Service!Submit(base, pending, [kind |-> kindOf, result |-> given, user |-> k.user]),
                      kindOf, answer, k.user)
  <2> HIDE DEF open, shut
  <2> DEFINE t == Service!Submit(base, pending, [kind |-> kindOf, result |-> given, user |-> k.user])
  <2>1. HasFields(base) /\ base.unlocks = s.unlocks /\ base.locks = s.locks /\ base.tasks = s.tasks
    BY <1>1, <1>3 DEF KeepsLists
  <2>2. /\ HasFields(t) /\ t.unlocks = base.unlocks /\ t.locks = base.locks
        /\ \/ t.tasks = base.tasks
           \/ t.tasks = Append(base.tasks, [kind |-> kindOf, result |-> given, user |-> k.user])
    BY <2>1, SubmitEffect
  <2> HIDE DEF t
  <2>3. t.tasks = s.tasks \/ Passes(s, t, kindOf, answer, k.user)
    BY <1>3, <2>1, <2>2, Zenon DEF Passes
  <2>4. Reported(s, t, kindOf, answer, k.user)
    BY <2>1, <2>2, <2>3 DEF Reported
  <2> QED
    BY <2>4 DEF t
<1>4. Reported(s, Service!UnlockScreenEvent(k, s, answer), "unlock", answer, k.user)
  <2> DEFINE t == Service!UnlockScreenEvent(k, s, answer)
  <2>1. t = CASE answer = SCREEN.ALREADY_UNLOCKED -> Service!NotifyUnlockListener(k, s, SCREEN.SUCC)
              [] answer = SCREEN.EARLY_SUCCESS    -> open
              [] answer = SCREEN.SUCC             -> Service!NotifyUnlockListener(k, open, answer)
              [] answer = SCREEN.FAIL             -> s
              [] OTHER                            -> Service!NotifyUnlockListener(k, s, answer)
    BY CodesDiffer DEF Service!UnlockScreenEvent
  <2> HIDE DEF t, open, shut
  <2>2. t \in {s, open} \/ t = Service!NotifyUnlockListener(k, s, answer)
        \/ t = Service!NotifyUnlockListener(k, open, answer)
        \/ (t = Service!NotifyUnlockListener(k, s, SCREEN.SUCC) /\ answer = SCREEN.ALREADY_UNLOCKED)
    BY <2>1, CodesDiffer
  <2>3. ASSUME NEW base \in {s, open}, NEW given,
               given = answer \/ (given = SCREEN.SUCC /\ answer = SCREEN.ALREADY_UNLOCKED)
        PROVE  Reported(s, Service!NotifyUnlockListener(k, base, given), "unlock", answer, k.user)
    <3>1. base \in {s, open, shut}
      OBVIOUS
    <3> QED
      BY <1>3, <2>3, <3>1, Zenon DEF Service!NotifyUnlockListener
  <2>4. Reported(s, t, "unlock", answer, k.user)
    BY <1>2, <2>2, <2>3
  <2> QED
    BY <2>4 DEF t
<1>5. Reported(s, Service!LockScreenEvent(k, s, answer), "lock", answer, k.user)
  <2>1. \E base \in {s, shut} :
          Service!LockScreenEvent(k, s, answer) =
            Service!Submit(base, s.locks, [kind |-> "lock", result |-> answer, user |-> k.user])
    BY DEF Service!LockScreenEvent
  <2> HIDE DEF open, shut
  <2>2. PICK base \in {s, shut} :
          Service!LockScreenEvent(k, s, answer) =
            Service!Submit(base, s.locks, [kind |-> "lock", result |-> answer, user |-> k.user])
    BY <2>1
  <2>3. base \in {s, open, shut}
    OBVIOUS
  <2> QED
    BY <1>3, <2>2, <2>3, Zenon
<1> QED
  BY <1>4, <1>5

\* SendScreenLockEvent is refused, or passes the report on.
LEMMA SendEffect ==
  ASSUME NEW k, NEW s, HasFields(s), NEW event, NEW answer
  PROVE  LET r == Service!SendScreenLockEvent(k, s, event, answer)
         IN \/ r.store = s
            \/ /\ r.code = E_SCREENLOCK.OK /\ event = "unlockScreenResult"
               /\ Reported(s, r.store, "unlock", answer, k.user)
            \/ /\ r.code = E_SCREENLOCK.OK /\ event = "lockScreenResult"
               /\ Reported(s, r.store, "lock", answer, k.user)
<1> DEFINE r == Service!SendScreenLockEvent(k, s, event, answer)
           unlocked == Service!UnlockScreenEvent(k, s, answer)
           locked == Service!LockScreenEvent(k, s, answer)
<1>2. Reported(s, unlocked, "unlock", answer, k.user) /\ Reported(s, locked, "lock", answer, k.user)
  BY ReportEffect
<1> HIDE DEF unlocked, locked
<1>1. \/ r.store = s
      \/ r.code = E_SCREENLOCK.OK /\ event = "unlockScreenResult" /\ r.store = unlocked
      \/ r.code = E_SCREENLOCK.OK /\ event = "lockScreenResult" /\ r.store = locked
  BY ServiceErrors DEF Service!SendScreenLockEvent, Service!Ok, Service!Refuse, Service!Reply, unlocked, locked
<1> HIDE DEF r
<1>3. \/ r.store = s
      \/ r.code = E_SCREENLOCK.OK /\ event = "unlockScreenResult" /\ Reported(s, r.store, "unlock", answer, k.user)
      \/ r.code = E_SCREENLOCK.OK /\ event = "lockScreenResult" /\ Reported(s, r.store, "lock", answer, k.user)
  BY <1>1, <1>2, Zenon
<1> QED
  BY <1>3 DEF r

\* A start leaves nobody waiting.
LEMMA StartEffect ==
  ASSUME NEW s, HasFields(s)
  PROVE  LET t == Service!Started(s) IN
         HasFields(t) /\ t.unlocks = <<>> /\ t.locks = <<>> /\ t.tasks = <<>>
BY DEF Service!Started, HasFields, StoreFields

\* A task calls all the listeners of its sort.
LEMMA TaskEffect ==
  ASSUME NEW s, HasFields(s)
  PROVE  LET t == Service!AfterTask(s) IN
         /\ HasFields(t) /\ t.tasks = Tail(s.tasks)
         /\ IF Head(s.tasks).kind = "unlock" THEN t.unlocks = <<>> /\ t.locks = s.locks
            ELSE t.locks = <<>> /\ t.unlocks = s.unlocks
BY DEF Service!AfterTask, HasFields, StoreFields

\* What a call of a binding does to the listeners and the callback tasks.
LEMMA DecidesEffect ==
  ASSUME NEW c \in Calls, Ask(c).name \in JsFunctions, HasFields(store)
  PROVE  \/ KeepsLists(store, Decides(c).store)
         \/ /\ Ask(c).name \in {"unlock", "unlockScreen"} /\ Decides(c).code = E_SCREENLOCK.OK
            /\ JoinsUnlocks(store, Decides(c).store, c, scenario.caller.user)
         \/ /\ Ask(c).name = "lock" /\ Decides(c).code = E_SCREENLOCK.OK
            /\ JoinsLocks(store, Decides(c).store, c)
         \/ /\ Ask(c).name = "sendScreenLockEvent" /\ Decides(c).code = E_SCREENLOCK.OK
            /\ \/ /\ Arg(c, 1) = "unlockScreenResult"
                  /\ Reported(store, Decides(c).store, "unlock", Arg(c, 2), scenario.caller.user)
               \/ /\ Arg(c, 1) = "lockScreenResult"
                  /\ Reported(store, Decides(c).store, "lock", Arg(c, 2), scenario.caller.user)
<1> DEFINE k == scenario.caller
           s == store
           x == Arg(c, 1)
           y == Arg(c, 2)
           r == Decides(c)
           t == Decides(c).store
<1>0. KeepsLists(s, s)
  BY KeepsItself
<1>1. CASE Ask(c).name \in {"isScreenLocked", "isSecureMode"}
  <2>1. \E v : r = Service!Ok(v, s)
    BY <1>1, Meant
  <2>2. t = s
    BY <2>1 DEF Service!Ok, Service!Reply
  <2> QED
    BY <1>0, <2>2
<1>2. CASE Ask(c).name \in {"isLocked", "isScreenLockDisabled", "getScreenLockAuthState", "getStrongAuth", "isDeviceLocked",
                           "getUnlockPolicy"}
  <2>1. \/ r = Service!IsLocked(k, s) \/ r = Service!IsScreenLockDisabled(k, s, x)
        \/ r = Service!GetScreenLockAuthState(k, s, x) \/ r = Service!GetStrongAuth(k, s, x)
        \/ r = Service!IsDeviceLocked(k, s, x) \/ r = Service!GetUnlockPolicy(k, s, x)
    BY <1>2, Meant
  <2>2. \A q : q = r => q.store = t
    OBVIOUS
  <2>3. t = s
    BY <2>1, <2>2, QuestionsKeep
  <2> QED
    BY <1>0, <2>3, Zenon
<1>3. CASE Ask(c).name \in {"onSystemEvent", "setScreenLockDisabled", "setScreenLockAuthState", "requestStrongAuth"}
  <2>1. r \in {Service!OnSystemEvent(k, s), Service!SetScreenLockDisabled(k, s, x, y),
               Service!SetScreenLockAuthState(k, s, x, y, ""), Service!RequestStrongAuth(k, s, x, y)}
    BY <1>3, Meant
  <2> QED
    BY <2>1, RequestsKeep, Zenon
<1>4. CASE Ask(c).name \in {"unlock", "unlockScreen"}
  <2>1. r \in {Service!Unlock(k, s, c), Service!UnlockScreen(k, s, c)}
    BY <1>4, Meant
  <2>2. IF r.code = E_SCREENLOCK.OK
        THEN JoinsUnlocks(s, t, c, k.user)
        ELSE t = s
    <3>1. \A u \in {Service!Unlock(k, s, c), Service!UnlockScreen(k, s, c)} :
            IF u.code = E_SCREENLOCK.OK THEN JoinsUnlocks(s, u.store, c, k.user) ELSE u.store = s
      BY ListenerJoins
    <3> QED
      BY <2>1, <3>1
  <2> QED
    BY <1>0, <1>4, <2>2
<1>5. CASE Ask(c).name = "lock"
  <2>1. r = Service!Lock(k, s, c)
    BY <1>5, Meant
  <2>2. IF r.code = E_SCREENLOCK.OK
        THEN JoinsLocks(s, t, c)
        ELSE t = s
    <3>1. IF Service!Lock(k, s, c).code = E_SCREENLOCK.OK THEN JoinsLocks(s, Service!Lock(k, s, c).store, c)
          ELSE Service!Lock(k, s, c).store = s
      BY ListenerJoins
    <3> QED
      BY <2>1, <3>1
  <2> QED
    BY <1>0, <1>5, <2>2
<1>6. CASE Ask(c).name = "sendScreenLockEvent"
  <2> DEFINE q == Service!SendScreenLockEvent(k, s, x, y)
  <2>1. r = q
    BY <1>6, Meant
  <2>2. \/ q.store = s
        \/ q.code = E_SCREENLOCK.OK /\ x = "unlockScreenResult" /\ Reported(s, q.store, "unlock", y, k.user)
        \/ q.code = E_SCREENLOCK.OK /\ x = "lockScreenResult" /\ Reported(s, q.store, "lock", y, k.user)
    BY SendEffect
  <2> HIDE DEF q
  <2>3. \/ r.store = s
        \/ r.code = E_SCREENLOCK.OK /\ x = "unlockScreenResult" /\ Reported(s, r.store, "unlock", y, k.user)
        \/ r.code = E_SCREENLOCK.OK /\ x = "lockScreenResult" /\ Reported(s, r.store, "lock", y, k.user)
    BY <2>1, <2>2
  <2> HIDE DEF r
  <2> QED
    BY <1>0, <1>6, <2>3, Zenon DEF r
<1> QED
  BY <1>1, <1>2, <1>3, <1>4, <1>5, <1>6 DEF JsFunctions

-----------------------------------------------------------------------------
(* Lists.                                                                  *)

\* A list is a function of the numbers to its length,
LEMMA ListDomain == ASSUME NEW s, Listed(s) PROVE Len(s) \in Nat /\ DOMAIN s = 1..Len(s)
BY DEF Listed

\* and such a function is a list.
LEMMA ListOf ==
  ASSUME NEW n \in Nat, NEW s, s = [i \in 1..n |-> s[i]]
  PROVE  Listed(s) /\ Len(s) = n /\ DOMAIN s = 1..n
<1>1. DOMAIN s = 1..n
  OBVIOUS
<1>2. \A i \in 1..n : s[i] \in ToSet(s)
  BY <1>1 DEF ToSet
<1>3. s \in [1..n -> ToSet(s)]
  BY <1>2
<1>4. s \in Seq(ToSet(s))
  BY <1>3
<1> QED
  BY <1>1, <1>4 DEF Listed

\* The empty list.
LEMMA EmptyList == Listed(<<>>) /\ Len(<<>>) = 0 /\ DOMAIN <<>> = {} /\ <<>> = <<>>
BY DEF Listed, ToSet

\* A list with an element more,
LEMMA AppendList ==
  ASSUME NEW s, Listed(s), NEW e
  PROVE  LET t == Append(s, e) IN
         /\ Listed(t) /\ Len(t) = Len(s) + 1 /\ t # <<>>
         /\ \A i \in 1..Len(s) : t[i] = s[i]
         /\ t[Len(s) + 1] = e
<1> DEFINE U == ToSet(s) \cup {e}
           t == Append(s, e)
<1>1. s \in Seq(U)
  BY DEF Listed
<1>2. Len(t) = Len(s) + 1 /\ t[Len(s) + 1] = e /\ (\A i \in 1..Len(s) : t[i] = s[i]) /\ t \in Seq(U)
  BY <1>1
<1> HIDE DEF U, t
<1>3. Len(s) \in Nat
  BY <1>1
<1>4. t = [i \in 1..(Len(s) + 1) |-> t[i]]
  BY <1>2
<1>5. Listed(t)
  BY <1>3, <1>4, ListOf
<1> QED
  BY <1>2, <1>3, <1>5 DEF t

\* two lists one after the other,
LEMMA ConcatList ==
  ASSUME NEW s, NEW u, Listed(s), Listed(u)
  PROVE  LET t == s \o u IN
         /\ Listed(t) /\ Len(t) = Len(s) + Len(u)
         /\ \A i \in 1..Len(s) : t[i] = s[i]
         /\ \A i \in 1..Len(u) : t[Len(s) + i] = u[i]
<1> DEFINE U == ToSet(s) \cup ToSet(u)
           t == s \o u
<1>1. s \in Seq(U) /\ u \in Seq(U)
  BY DEF Listed
<1>2. /\ Len(t) = Len(s) + Len(u) /\ t \in Seq(U)
      /\ \A i \in 1..Len(s) : t[i] = s[i]
      /\ \A i \in 1..Len(u) : t[Len(s) + i] = u[i]
  BY <1>1
<1> HIDE DEF U, t
<1>3. Len(s) \in Nat /\ Len(u) \in Nat
  BY <1>1
<1>4. t = [i \in 1..(Len(s) + Len(u)) |-> t[i]]
  BY <1>2
<1>5. Listed(t)
  BY <1>3, <1>4, ListOf
<1> QED
  BY <1>2, <1>3, <1>5 DEF t

\* a list without its first element,
LEMMA TailList ==
  ASSUME NEW s, Listed(s), s # <<>>
  PROVE  LET t == Tail(s) IN
         /\ Listed(t) /\ Len(t) = Len(s) - 1 /\ Len(s) >= 1 /\ Head(s) = s[1]
         /\ \A i \in 1..(Len(s) - 1) : t[i] = s[i + 1]
<1> DEFINE t == Tail(s)
<1>1. s \in Seq(ToSet(s))
  BY DEF Listed
<1>2. Len(t) = Len(s) - 1 /\ Len(s) >= 1 /\ Head(s) = s[1] /\ t \in Seq(ToSet(s))
      /\ \A i \in 1..(Len(s) - 1) : t[i] = s[i + 1]
  BY <1>1
<1> HIDE DEF t
<1>3. t = [i \in 1..(Len(s) - 1) |-> t[i]] /\ Len(s) - 1 \in Nat
  BY <1>1, <1>2
<1>4. Listed(t)
  BY <1>3, ListOf
<1> QED
  BY <1>2, <1>4 DEF t

\* and a list without any one element.
LEMMA RemoveList ==
  ASSUME NEW s, Listed(s), NEW i \in DOMAIN s
  PROVE  LET t == RemoveAt(s, i) IN
         /\ Listed(t) /\ Len(t) = Len(s) - 1
         /\ \A j \in 1..(Len(s) - 1) : t[j] = s[IF j < i THEN j ELSE j + 1]
<1> DEFINE t == RemoveAt(s, i)
           a == SubSeq(s, 1, i - 1)
           b == SubSeq(s, i + 1, Len(s))
<1>1. s \in Seq(ToSet(s)) /\ i \in 1..Len(s)
  BY DEF Listed
<1>2. a \in Seq(ToSet(s)) /\ Len(a) = i - 1 /\ \A j \in 1..(i - 1) : a[j] = s[j]
  BY <1>1
<1>3. b \in Seq(ToSet(s)) /\ Len(b) = Len(s) - i /\ \A j \in 1..(Len(s) - i) : b[j] = s[i + j]
  BY <1>1
<1>4. t = a \o b
  BY DEF RemoveAt
<1> HIDE DEF a, b, t
<1>5. t \in Seq(ToSet(s)) /\ Len(t) = Len(s) - 1
  BY <1>1, <1>2, <1>3, <1>4
<1>6. ASSUME NEW j \in 1..(Len(s) - 1) PROVE t[j] = s[IF j < i THEN j ELSE j + 1]
  <2>1. CASE j < i
    BY <1>1, <1>2, <1>3, <1>4, <2>1
  <2>2. CASE ~(j < i)
    <3>1. j - (i - 1) \in 1..(Len(s) - i) /\ i + (j - (i - 1)) = j + 1
      BY <1>1, <2>2
    <3>2. t[j] = b[j - (i - 1)]
      <4>0. a \in Seq(ToSet(s)) /\ b \in Seq(ToSet(s))
        BY <1>2, <1>3
      <4>1. \A m \in 1..Len(b) : t[Len(a) + m] = b[m]
        BY <1>4, <4>0
      <4>2. Len(a) + (j - (i - 1)) = j
        BY <1>1, <1>2, <2>2
      <4> QED
        BY <1>3, <3>1, <4>1, <4>2
    <3> QED
      BY <1>3, <2>2, <3>1, <3>2
  <2> QED
    BY <2>1, <2>2
<1>7. t = [j \in 1..(Len(s) - 1) |-> t[j]] /\ Len(s) - 1 \in Nat
  BY <1>1, <1>5
<1>8. Listed(t)
  BY <1>7, ListOf
<1> QED
  BY <1>5, <1>6, <1>8 DEF t

\* A list of one.
LEMMA SingleList == \A e : Listed(<<e>>) /\ DOMAIN <<e>> = 1..1 /\ <<e>>[1] = e
<1> SUFFICES ASSUME NEW e PROVE Listed(<<e>>) /\ DOMAIN <<e>> = 1..1 /\ <<e>>[1] = e
  OBVIOUS
<1>1. <<e>> \in Seq({e}) /\ DOMAIN <<e>> = 1..1 /\ <<e>>[1] = e
  OBVIOUS
<1>2. ToSet(<<e>>) = {e}
  BY <1>1 DEF ToSet
<1> QED
  BY <1>1, <1>2 DEF Listed

-----------------------------------------------------------------------------
(* The listeners are those of requests.                                    *)

\* A store that keeps the lists keeps their listeners,
LEMMA KeepsWaiters ==
  ASSUME NEW s, NEW t, Waiters(s), KeepsLists(s, t)
  PROVE  Waiters(t)
BY DEF Waiters, KeepsLists

\* one that adds a request's listener too,
LEMMA JoinsWaiters ==
  ASSUME NEW s, NEW t, Waiters(s), NEW c \in Pending, NEW user,
         JoinsUnlocks(s, t, c, user) \/ JoinsLocks(s, t, c)
  PROVE  Waiters(t)
<1> DEFINE entry == [listener |-> c, user |-> user]
           unlocks == Append(s.unlocks, entry)
           locks == Append(s.locks, c)
<1>1. /\ Listed(unlocks) /\ Len(unlocks) = Len(s.unlocks) + 1 /\ unlocks[Len(s.unlocks) + 1] = entry
      /\ \A i \in 1..Len(s.unlocks) : unlocks[i] = s.unlocks[i]
  BY AppendList DEF Waiters
<1>2. /\ Listed(locks) /\ Len(locks) = Len(s.locks) + 1 /\ locks[Len(s.locks) + 1] = c
      /\ \A i \in 1..Len(s.locks) : locks[i] = s.locks[i]
  BY AppendList DEF Waiters
<1> HIDE DEF unlocks, locks
<1>3. /\ Len(s.unlocks) \in Nat /\ DOMAIN s.unlocks = 1..Len(s.unlocks) /\ DOMAIN unlocks = 1..Len(unlocks)
      /\ Len(s.locks) \in Nat /\ DOMAIN s.locks = 1..Len(s.locks) /\ DOMAIN locks = 1..Len(locks)
  BY <1>1, <1>2, ListDomain DEF Waiters
<1>4. \A i \in DOMAIN unlocks : unlocks[i].listener \in Pending
  <2> TAKE i \in DOMAIN unlocks
  <2>1. CASE i \in 1..Len(s.unlocks)
    BY <1>1, <1>3, <2>1 DEF Waiters
  <2>2. CASE i = Len(s.unlocks) + 1
    BY <1>1, <2>2
  <2> QED
    BY <1>1, <1>3, <2>1, <2>2
<1>5. \A i \in DOMAIN locks : locks[i] \in Pending
  <2> TAKE i \in DOMAIN locks
  <2>1. CASE i \in 1..Len(s.locks)
    BY <1>2, <1>3, <2>1 DEF Waiters
  <2>2. CASE i = Len(s.locks) + 1
    BY <1>2, <2>2
  <2> QED
    BY <1>2, <1>3, <2>1, <2>2
<1>6. CASE JoinsUnlocks(s, t, c, user)
  BY <1>1, <1>4, <1>6 DEF JoinsUnlocks, Waiters, unlocks
<1>7. CASE JoinsLocks(s, t, c)
  BY <1>2, <1>5, <1>7 DEF JoinsLocks, Waiters, locks
<1> QED
  BY <1>6, <1>7

\* and one that a report leaves.
LEMMA ReportedWaiters ==
  ASSUME NEW s, NEW t, Waiters(s), NEW kindOf, NEW answer, NEW user, Reported(s, t, kindOf, answer, user)
  PROVE  Waiters(t)
<1>1. HasFields(t) /\ t.unlocks = s.unlocks /\ t.locks = s.locks
  BY DEF Reported
<1>2. Listed(t.tasks)
  <2>1. CASE t.tasks = s.tasks
    BY <2>1 DEF Waiters
  <2>2. CASE \E e : t.tasks = Append(s.tasks, e)
    BY <2>2, AppendList DEF Waiters
  <2> QED
    BY <2>1, <2>2 DEF Reported, Passes
<1> QED
  BY <1>1, <1>2 DEF Waiters

\* A handled call of a binding leaves listeners of requests.
LEMMA HandleWaiters ==
  ASSUME Waiters(store), scenario \in Scenarios, scenario.binding # "native", NEW c \in Calls, Makes(c)
  PROVE  Waiters(Decides(c).store)
<1>1. WellAsked(c)
  BY IsWellAsked
<1>2. Ask(c).name \in JsFunctions /\ HasFields(store)
  BY <1>1 DEF WellAsked, Waiters
<1>3. Ask(c).name \in {"lock", "unlock", "unlockScreen"} => c \in Pending
  BY <1>1, ListenersAsk DEF Pending
<1> DEFINE after == Decides(c).store
<1>5. \/ KeepsLists(store, after)
      \/ Ask(c).name \in {"unlock", "unlockScreen"} /\ JoinsUnlocks(store, after, c, scenario.caller.user)
      \/ Ask(c).name = "lock" /\ JoinsLocks(store, after, c)
      \/ \E kindOf : Reported(store, after, kindOf, Arg(c, 2), scenario.caller.user)
  BY <1>2, DecidesEffect, Zenon
<1> HIDE DEF after
<1>4. \/ KeepsLists(store, after)
      \/ c \in Pending /\ (JoinsUnlocks(store, after, c, scenario.caller.user) \/ JoinsLocks(store, after, c))
      \/ \E kindOf : Reported(store, after, kindOf, Arg(c, 2), scenario.caller.user)
  BY <1>3, <1>5, Zenon
<1>6. Waiters(after)
  BY <1>4, KeepsWaiters, JoinsWaiters, ReportedWaiters
<1> QED
  BY <1>6 DEF after

\* What the app reports leaves them, whoever it is.
LEMMA AnswerWaiters ==
  ASSUME Waiters(store), store.toApp # <<>>, NEW event, NEW answer
  PROVE  LET taken == [store EXCEPT !.toApp = Tail(@)]
         IN Waiters(taken) /\ Waiters(Service!SendScreenLockEvent(App, taken, event, answer).store)
<1> DEFINE taken == [store EXCEPT !.toApp = Tail(@)]
           r == Service!SendScreenLockEvent(App, taken, event, answer)
<1>1. KeepsLists(store, taken)
  BY UpdateKeeps DEF StoreFields, Waiters
<1>2. Waiters(taken)
  BY <1>1, KeepsWaiters
<1>3. HasFields(taken)
  BY <1>2 DEF Waiters
<1> HIDE DEF taken
<1>4. \/ r.store = taken
      \/ /\ r.code = E_SCREENLOCK.OK /\ event = "unlockScreenResult"
         /\ Reported(taken, r.store, "unlock", answer, App.user)
      \/ /\ r.code = E_SCREENLOCK.OK /\ event = "lockScreenResult"
         /\ Reported(taken, r.store, "lock", answer, App.user)
  BY <1>3, SendEffect
<1> HIDE DEF r
<1>5. Waiters(r.store)
  BY <1>2, <1>4, ReportedWaiters, Zenon
<1> QED
  BY <1>2, <1>5 DEF taken, r

\* A call that is done stays so.
LEMMA DoneStays ==
  ASSUME ClientTypeOK, [Next]_vars
  PROVE  \A c \in Calls : pc[c] = "done" => pc'[c] = "done"
<1> USE DEF ClientTypeOK
<1>1. ASSUME NEW c \in Calls, CallBegin(c) PROVE pc[c] # "done" /\ \E place : pc' = [pc EXCEPT ![c] = place]
  BY <1>1, Zenon DEF CallBegin, Begin, Goto
<1>2. ASSUME NEW c \in Calls, \/ CallGetProxy(c) \/ CallWithhold(c) \/ CallStoreListener(c) \/ CallTransact(c)
                              \/ CallHandle(c) \/ CallReply(c) \/ CallFinish(c)
      PROVE  pc[c] # "done" /\ \E place : pc' = [pc EXCEPT ![c] = place]
  BY <1>2 DEF CallGetProxy, CallWithhold, CallStoreListener, CallTransact, CallHandle, CallReply, CallFinish,
     GetProxy, Withhold, StoreListener, Transact, Handle, Reply, Finish, Goto
<1>3. CASE Dies
  BY <1>3 DEF Dies, ServiceDies
<1>4. CASE \/ \E c \in Calls : EndAtOnce(c)
           \/ \E i \in DOMAIN loop : JsRuns(i)
           \/ RunTask \/ AppAnswers \/ Starts \/ Connection \/ UNCHANGED vars
  <2>1. pc' = pc
    BY <1>4, Zenon DEF EndAtOnce, JsRuns, RunTask, AppAnswers, Starts, ServiceStarts, Connection, SamgrNotices,
       ServiceRestart, OnRemoteSaDied, clientVars, vars
  <2> QED
    BY <2>1
<1>5. CASE \E c \in Calls : \/ CallBegin(c) \/ CallGetProxy(c) \/ CallWithhold(c) \/ CallStoreListener(c) \/ CallTransact(c)
                            \/ CallHandle(c) \/ CallReply(c) \/ CallFinish(c)
  BY <1>1, <1>2, <1>5
<1> QED
  BY <1>3, <1>4, <1>5, Zenon DEF Next

\* The listeners are named by the scenario.
LEMMA SamePending ==
  ASSUME scenario' = scenario
  PROVE  Pending' = Pending /\ (Waiters(store') => Waiters(store)')
<1>1. Pending' = Pending
  BY SamePlans DEF Pending
<1> QED
  BY <1>1 DEF Waiters, HasFields

\* Each step keeps Waiters of a program of a binding.
LEMMA WaitersStep ==
  ASSUME scenario \in Scenarios, Carried, [Next]_vars, scenario.binding # "native", Waiters(store)
  PROVE  Waiters(store)'
<1>0. scenario' = scenario
  BY SameScenario
<1> SUFFICES Waiters(store')
  BY <1>0, SamePending
<1>1. ASSUME NEW c \in Calls, \/ EndAtOnce(c) \/ CallBegin(c) \/ CallGetProxy(c) \/ CallWithhold(c)
                              \/ CallStoreListener(c) \/ CallTransact(c) \/ CallReply(c) \/ CallFinish(c)
      PROVE  store' = store
  BY <1>1, Zenon DEF EndAtOnce, CallBegin, CallGetProxy, CallWithhold, CallStoreListener, CallTransact,
     CallReply, CallFinish, dataVars
<1>2. ASSUME NEW i \in DOMAIN loop, JsRuns(i) PROVE store' = store
  BY <1>2, Zenon DEF JsRuns
<1>3. CASE Dies \/ Connection \/ UNCHANGED vars
  <2>1. store' = store
    BY <1>3, Zenon DEF Dies, Connection, vars, dataVars
  <2> QED
    BY <2>1
<1>4. ASSUME NEW c \in Calls, CallHandle(c) PROVE Waiters(store')
  <2>1. Makes(c) /\ store' = Decides(c).store
    BY <1>4, HandledAsMeant
  <2>2. Waiters(Decides(c).store)
    BY <2>1, HandleWaiters
  <2> QED
    BY <2>1, <2>2
<1>5. CASE AppAnswers
  <2>1. \/ store' = [store EXCEPT !.toApp = Tail(@)]
        \/ \E event, answer : store' = Service!SendScreenLockEvent(App, [store EXCEPT !.toApp =
             Tail(@)], event, answer).store
    BY <1>5, Zenon DEF AppAnswers
  <2>2. store.toApp # <<>>
    BY <1>5 DEF AppAnswers
  <2> QED
    BY <2>1, <2>2, AnswerWaiters, Zenon
<1>6. CASE RunTask
  <2>1. store' = Service!AfterTask(store) /\ store.tasks # <<>>
    BY <1>6 DEF RunTask
  <2>2. /\ HasFields(store') /\ store'.tasks = Tail(store.tasks)
        /\ \/ store'.unlocks = <<>> /\ store'.locks = store.locks
           \/ store'.locks = <<>> /\ store'.unlocks = store.unlocks
    BY <2>1, TaskEffect DEF Waiters
  <2>3. Listed(store'.tasks)
    BY <2>1, <2>2, TailList DEF Waiters
  <2> QED
    BY <2>2, <2>3, EmptyList DEF Waiters
<1>7. CASE Starts
  <2>1. HasFields(store') /\ store'.unlocks = <<>> /\ store'.locks = <<>> /\ store'.tasks = <<>>
    BY <1>7, StartEffect DEF Starts, Waiters
  <2> QED
    BY <2>1, EmptyList DEF Waiters
<1> QED
  BY <1>1, <1>2, <1>3, <1>4, <1>5, <1>6, <1>7, Zenon DEF Next

-----------------------------------------------------------------------------
(* What is queued to the JS loop.                                          *)

\* The scenario fixes what each call is.
LEMMA SameQueued ==
  ASSUME scenario' = scenario, Queued(loop', Finished')
  PROVE  Queued(loop, Finished)'
<1>1. Pending' = Pending
  BY SamePending
<1>2. \A c \in Calls : Plan(c)' = Plan(c)
  BY SamePlans
<1>3. Finished' \subseteq Calls
  BY DEF Finished
<1>4. \A i \in DOMAIN loop' : Completes(loop'[i], Finished') => Completes(loop[i], Finished)'
  BY <1>2, <1>3 DEF Completes
<1> QED
  BY <1>1, <1>4 DEF Queued, Listed

\* What is queued stays so as more calls are done, when one is taken, and when
\* more is queued.
LEMMA StaysQueued ==
  ASSUME NEW entries, NEW finished, NEW more, finished \subseteq more, Queued(entries, finished)
  PROVE  Queued(entries, more)
BY DEF Queued, Completes

\* The loop takes an entry,
LEMMA RemoveQueued ==
  ASSUME NEW entries, NEW finished, Queued(entries, finished), NEW i \in DOMAIN entries
  PROVE  Queued(RemoveAt(entries, i), finished)
<1> DEFINE t == RemoveAt(entries, i)
<1>1. /\ Listed(t) /\ Len(t) = Len(entries) - 1
      /\ \A j \in 1..(Len(entries) - 1) : t[j] = entries[IF j < i THEN j ELSE j + 1]
  BY RemoveList DEF Queued
<1> HIDE DEF t
<1>2. Len(entries) \in Nat /\ DOMAIN entries = 1..Len(entries) /\ DOMAIN t = 1..(Len(entries) - 1)
  BY <1>1, ListDomain DEF Queued
<1>3. \A j \in DOMAIN t : \E m \in DOMAIN entries : t[j] = entries[m]
  BY <1>1, <1>2
<1>4. Queued(t, finished)
  BY <1>1, <1>3 DEF Queued
<1> QED
  BY <1>4 DEF t

\* and entries are put behind it.
LEMMA ConcatQueued ==
  ASSUME NEW entries, NEW added, NEW finished, Queued(entries, finished), Queued(added, finished)
  PROVE  Queued(entries \o added, finished)
<1> DEFINE t == entries \o added
<1>1. /\ Listed(t) /\ Len(t) = Len(entries) + Len(added)
      /\ \A j \in 1..Len(entries) : t[j] = entries[j]
      /\ \A j \in 1..Len(added) : t[Len(entries) + j] = added[j]
  BY ConcatList DEF Queued
<1> HIDE DEF t
<1>2. /\ Len(entries) \in Nat /\ DOMAIN entries = 1..Len(entries)
      /\ Len(added) \in Nat /\ DOMAIN added = 1..Len(added)
      /\ DOMAIN t = 1..(Len(entries) + Len(added))
  BY <1>1, ListDomain DEF Queued
<1>3. \A j \in DOMAIN t : (\E m \in DOMAIN entries : t[j] = entries[m]) \/ (\E m \in DOMAIN added : t[j] = added[m])
  <2> TAKE j \in DOMAIN t
  <2>1. CASE j <= Len(entries)
    BY <1>1, <1>2, <2>1
  <2>2. CASE j > Len(entries)
    <3>1. j - Len(entries) \in 1..Len(added) /\ Len(entries) + (j - Len(entries)) = j
      BY <1>2, <2>2
    <3> QED
      BY <1>1, <1>2, <3>1
  <2> QED
    BY <1>2, <2>1, <2>2
<1>4. Queued(t, finished)
  BY <1>1, <1>3 DEF Queued
<1> QED
  BY <1>4 DEF t

\* The worker's return queues a completion of the call, or an answer.
LEMMA PostedQueued ==
  ASSUME NEW c \in Calls, NEW finished, c \in finished, Plan(c).mode \in {"async", "listener"},
         scenario.binding \in {"napi", "ani"}
  PROVE  Queued(Posted(c), finished)
<1>1. CASE Plan(c).mode = "async"
  <2>1. Posted(c) = <<Completion(c)>>
    BY <1>1 DEF Posted
  <2>2. Completes(Completion(c), finished)
    BY <1>1 DEF Completes, Completion
  <2> QED
    BY <2>1, <2>2, SingleList DEF Queued
<1>2. CASE Plan(c).mode = "listener"
  <2>1. PICK answers : Posted(c) = Callbacks(c, answers) /\ (answers = <<>> \/ \E e : answers = <<e>>)
    <3>1. CASE scenario.binding = "napi"
      BY <1>2, <3>1 DEF Posted, Napi!AsyncCallFunc
    <3>2. CASE scenario.binding = "ani"
      BY <1>2, <3>2 DEF Posted, Ani!ScreenLockRequest
    <3> QED
      BY <3>1, <3>2
  <2>2. CASE answers = <<>>
    <3>1. Posted(c) = <<>>
      BY <2>1, <2>2, EmptyList DEF Callbacks
    <3> QED
      BY <3>1, EmptyList DEF Queued
  <2>3. ASSUME NEW e, answers = <<e>> PROVE Queued(Posted(c), finished)
    <3> DEFINE entry == [call |-> c, kind |-> "callback", event |-> e]
    <3>1. Posted(c) = <<entry>>
      BY <2>1, <2>3, SingleList DEF Callbacks
    <3>2. entry.kind = "callback" /\ entry.call \in Pending
      BY <1>2 DEF Pending
    <3> QED
      BY <3>1, <3>2, SingleList DEF Queued
  <2> QED
    BY <2>1, <2>2, <2>3
<1> QED
  BY <1>1, <1>2

\* What a task hands to the loop: a call of each listener of its sort.
LEMMA CalledQueued ==
  ASSUME Waiters(store), NEW finished, NEW entries, NEW heard,
         entries = [i \in DOMAIN Service!Called(store) |->
                      [call |-> Service!Called(store)[i].listener, kind |-> "callback", event |-> heard[i]]]
  PROVE  Queued(entries, finished)
<1> DEFINE called == Service!Called(store)
<1>1. \/ /\ DOMAIN called = DOMAIN store.unlocks
         /\ \A i \in DOMAIN store.unlocks : called[i].listener = store.unlocks[i].listener
      \/ /\ DOMAIN called = DOMAIN store.locks
         /\ \A i \in DOMAIN store.locks : called[i].listener = store.locks[i]
  BY DEF Service!Called
<1> HIDE DEF called
<1>2. \A i \in DOMAIN called : called[i].listener \in Pending
  BY <1>1 DEF Waiters
<1>3. \E n \in Nat : DOMAIN called = 1..n
  BY <1>1, ListDomain DEF Waiters
<1>4. entries = [i \in DOMAIN called |-> [call |-> called[i].listener, kind |-> "callback", event |-> heard[i]]]
  BY DEF called
<1>5. Listed(entries)
  <2>1. PICK n \in Nat : DOMAIN called = 1..n
    BY <1>3
  <2>2. entries = [i \in 1..n |-> entries[i]]
    BY <1>4, <2>1
  <2> QED
    BY <2>2, ListOf
<1>6. \A i \in DOMAIN entries : entries[i].kind = "callback" /\ entries[i].call \in Pending
  BY <1>2, <1>4
<1> QED
  BY <1>5, <1>6 DEF Queued

\* The loop with the callbacks of a task behind it.
LEMMA RunTaskQueued ==
  ASSUME Waiters(store), NEW finished, Queued(loop, finished), scenario.binding # "native", RunTask
  PROVE  Queued(loop', finished)
<1> DEFINE called == Service!Called(store)
           event(result_) == IF scenario.binding = "napi" THEN Napi!OnCallBack(result_) ELSE Ani!OnCallBack(result_)
           heard == [i \in DOMAIN called |-> event(called[i].result)]
           entries == [i \in DOMAIN called |->
                         [call |-> called[i].listener, kind |-> "callback", event |-> event(called[i].result)]]
<1>1. loop' = loop \o entries
  BY Zenon DEF RunTask
<1>2. entries = [i \in DOMAIN called |-> [call |-> called[i].listener, kind |-> "callback", event |-> heard[i]]]
  OBVIOUS
<1> HIDE DEF entries, heard
<1>3. Queued(entries, finished)
  BY <1>2, CalledQueued
<1> QED
  BY <1>1, <1>3, ConcatQueued

\* A call that makes a request returns at once, settles in the loop, or waits for
\* the app; the library's own calls return.
LEMMA PlanModes ==
  ASSUME scenario \in Scenarios, NEW c \in Calls, Makes(c)
  PROVE  /\ Plan(c).mode \in {"sync", "async", "listener"}
         /\ scenario.binding = "native" => Plan(c).mode = "sync"
<1>1. WellAsked(c)
  BY IsWellAsked
<1>2. CASE scenario.binding = "native"
  BY <1>1, <1>2, NativePlans DEF WellAsked, PlanIs
<1>3. CASE scenario.binding # "native"
  <2>1. Ask(c).name \in JsFunctions
    BY <1>1, <1>3 DEF WellAsked
  <2>2. CASE scenario.binding = "napi"
    BY <2>1, <2>2, NapiPlans DEF JsFunctions, PlanIs
  <2>3. CASE scenario.binding = "ani"
    BY <2>1, <2>3, AniPlans DEF JsFunctions, PlanIs
  <2> QED
    BY <1>1, <1>3, <2>2, <2>3 DEF WellAsked
<1> QED
  BY <1>2, <1>3

\* Each step keeps QueuesInv.
LEMMA QueuesStep ==
  ASSUME ClientTypeOK, scenario \in Scenarios, Carried, QueuesInv, [Next]_vars
  PROVE  QueuesInv'
<1>0. scenario' = scenario /\ scenario.binding \in {"napi", "ani", "native"}
  BY SameScenario, CallPathAssumption
<1>1. scenario.binding # "native" => Waiters(store)'
  BY WaitersStep DEF QueuesInv
<1>2. Finished \subseteq Finished'
  BY DoneStays DEF Finished
<1>3. Queued(loop, Finished')
  BY <1>2, StaysQueued DEF QueuesInv
<1> SUFFICES Queued(loop', Finished') /\ (scenario.binding = "native" => loop' = <<>>)
  BY <1>0, <1>1, SameQueued DEF QueuesInv
<1>4. CASE loop' = loop
  BY <1>3, <1>4 DEF QueuesInv
<1>5. ASSUME NEW c \in Calls, \/ EndAtOnce(c) \/ CallBegin(c) \/ CallGetProxy(c) \/ CallWithhold(c)
                              \/ CallStoreListener(c) \/ CallTransact(c) \/ CallHandle(c) \/ CallReply(c)
      PROVE  loop' = loop
  BY <1>5, Zenon DEF EndAtOnce, CallBegin, CallGetProxy, CallWithhold, CallStoreListener, CallTransact,
     CallHandle, CallReply, dataVars
<1>6. AppAnswers \/ Dies \/ Starts \/ Connection \/ UNCHANGED vars => loop' = loop
  BY Zenon DEF AppAnswers, Dies, Starts, Connection, vars, dataVars
<1>7. ASSUME NEW c \in Calls, CallFinish(c), loop' # loop
      PROVE  Queued(loop', Finished') /\ (scenario.binding = "native" => loop' = <<>>)
  <2>1. loop' = loop \o Posted(c) /\ Plan(c).mode # "sync" /\ pc'[c] = "done" /\ pc[c] = "returned"
    BY <1>7 DEF CallFinish, Finish, Goto, ClientTypeOK
  <2>2. Makes(c)
    BY <2>1 DEF Carried
  <2>3. Plan(c).mode \in {"sync", "async", "listener"} /\ (scenario.binding = "native" => Plan(c).mode = "sync")
    BY <2>2, PlanModes
  <2>4. Queued(Posted(c), Finished')
    BY <1>0, <2>1, <2>3, PostedQueued DEF Finished
  <2> QED
    BY <1>3, <2>1, <2>3, <2>4, ConcatQueued
<1>8. ASSUME NEW i \in DOMAIN loop, JsRuns(i)
      PROVE  Queued(loop', Finished') /\ (scenario.binding = "native" => loop' = <<>>)
  <2>1. scenario.binding # "native"
    BY EmptyList DEF QueuesInv
  <2> QED
    BY <1>3, <1>8, <2>1, RemoveQueued DEF JsRuns
<1>9. CASE RunTask
  <2>1. CASE scenario.binding = "native"
    BY <1>4, <1>9, <2>1 DEF RunTask
  <2>2. CASE scenario.binding # "native"
    BY <1>3, <1>9, <2>2, RunTaskQueued DEF QueuesInv
  <2> QED
    BY <2>1, <2>2
<1> QED
  BY <1>4, <1>5, <1>6, <1>7, <1>8, <1>9, Zenon DEF Next

-----------------------------------------------------------------------------
(* What a binding gives its caller.                                        *)

\* The binding's codes are those the callers are promised.
LEMMA UnservedPromised ==
  \A code \in {E_SCREENLOCK.NULLPTR, E_SCREENLOCK.SENDREQUEST_FAILED} :
    /\ Napi!GetErrorInfo(code) = Promised(E_SCREENLOCK.SENDREQUEST_FAILED)
    /\ Ani!GetErrorInfo(code) = Promised(E_SCREENLOCK.SENDREQUEST_FAILED)
BY BindingErrors, CodesDiffer DEF Promised, Napi!GetErrorInfo, Ani!GetErrorInfo, Napi!JsErrorCode,
   Ani!JsErrorCode

\* A refusal reaches the caller as the binding's code for it.
LEMMA ErrorsPromised ==
  \A code \in Codes : Napi!GetErrorInfo(code) = Promised(code) /\ Ani!GetErrorInfo(code) = Promised(code)
BY BindingErrors, CodesDiffer DEF Codes, Promised, Napi!GetErrorInfo, Ani!GetErrorInfo, Napi!JsErrorCode,
   Ani!JsErrorCode

\* What NAPI gives of a value, and to whom, tells the questions from the requests.
LEMMA NapiGives ==
  ASSUME scenario \in Scenarios, NEW c \in Calls, Makes(c), scenario.binding = "napi"
  PROVE  /\ Plan(c).mode = "sync" =>
              /\ Plan(c).to = "caller"
              /\ Ask(c).name \in Requests <=> Plan(c).gives = "true"
              /\ Ask(c).name = "getUnlockPolicy" <=> Plan(c).gives = "policy"
         /\ Plan(c).mode = "async" =>
              /\ Ask(c).name \in Requests <=> Plan(c).gives = "allowed"
              /\ Ask(c).name # "getUnlockPolicy"
         /\ Ask(c).name \in Guesses => Plan(c).gives = "value"
<1>1. Ask(c).name \in JsFunctions
  BY IsWellAsked DEF WellAsked
<1> QED
  BY <1>1, NapiPlans DEF JsFunctions, PlanIs, Requests, Guesses

\* The same for ANI.
LEMMA AniGives ==
  ASSUME scenario \in Scenarios, NEW c \in Calls, Makes(c), scenario.binding = "ani"
  PROVE  /\ Plan(c).mode = "sync" => Plan(c).to = "caller"
         /\ Plan(c).mode \in {"sync", "async"} =>
              Plan(c).gives = IF Ask(c).name \in Requests
                              THEN IF Ask(c).name = "requestStrongAuth" THEN "undefined" ELSE "true"
                              ELSE IF Ask(c).name = "getUnlockPolicy" THEN "policy"
                              ELSE IF Ask(c).name = "getScreenLockAuthState" THEN "authState"
                              ELSE "value"
<1>1. Ask(c).name \in JsFunctions
  BY IsWellAsked DEF WellAsked
<1> QED
  BY <1>1, AniPlans DEF JsFunctions, PlanIs, Requests

\* What a caller expects of a result: the binding's code of a refusal, the guess of
\* a question that was not served, or the value the service answered.
LEMMA ExpectedIs ==
  ASSUME NEW c \in Calls, Agrees(c), Plan(c).mode \in {"sync", "async"},
         Ask(c).name \notin {"lock", "unlock", "unlockScreen"}
  PROVE  /\ result[c].code # E_SCREENLOCK.OK =>
              /\ Expected(c) = [ok |-> FALSE, value |-> Napi!GetErrorInfo(result[c].code)]
              /\ Ani!GetErrorInfo(result[c].code) = Napi!GetErrorInfo(result[c].code)
         /\ result[c].code = E_SCREENLOCK.OK =>
              \/ /\ Ask(c).name \in Guesses /\ result[c].value = 0
                 /\ Expected(c) = [ok |-> TRUE, value |-> 0]
              \/ \E value : /\ Ask(c).name \notin Requests => result[c].value = value
                            /\ Expected(c) = IF Unnamed(c, value) THEN [ok |-> FALSE, value |-> 401]
                                             ELSE [ok |-> TRUE, value |-> Shown(c, value)]
<1>1. CASE direct[c] = Unserved
  <2>0. direct[c].code = E_SCREENLOCK.SENDREQUEST_FAILED /\ E_SCREENLOCK.SENDREQUEST_FAILED # E_SCREENLOCK.OK
    BY <1>1, CodesDiffer DEF Unserved
  <2>1. CASE Ask(c).name \in Guesses
    <3>1. result[c] = [code |-> E_SCREENLOCK.OK, value |-> 0]
      BY <1>1, <2>1 DEF Agrees
    <3>2. Expected(c) = [ok |-> TRUE, value |-> 0]
      BY <2>0, <2>1 DEF Expected
    <3> QED
      BY <2>1, <3>1, <3>2
  <2>2. CASE Ask(c).name \notin Guesses
    <3>1. result[c].code \in {E_SCREENLOCK.NULLPTR, E_SCREENLOCK.SENDREQUEST_FAILED}
      BY <1>1, <2>2 DEF Agrees
    <3>2. Expected(c) = [ok |-> FALSE, value |-> Promised(E_SCREENLOCK.SENDREQUEST_FAILED)]
      BY <2>0, <2>2 DEF Expected
    <3>3. /\ Napi!GetErrorInfo(result[c].code) = Promised(E_SCREENLOCK.SENDREQUEST_FAILED)
          /\ Ani!GetErrorInfo(result[c].code) = Promised(E_SCREENLOCK.SENDREQUEST_FAILED)
      BY <3>1, UnservedPromised
    <3>4. result[c].code # E_SCREENLOCK.OK
      BY <3>1, CodesDiffer
    <3> QED
      BY <3>2, <3>3, <3>4
  <2> QED
    BY <2>1, <2>2
<1>2. CASE direct[c] # Unserved
  <2>1. result[c].code = direct[c].code /\ direct[c].code \in Codes \cup {E_SCREENLOCK.OK}
    BY <1>2 DEF Agrees
  <2>2. CASE direct[c].code # E_SCREENLOCK.OK
    <3>1. Ask(c).name \notin Guesses
      BY <1>2, <2>2 DEF Agrees
    <3>2. direct[c].code # E_SCREENLOCK.NULLPTR
      BY <2>1, <2>2, DecidedIsServed
    <3> QED
      BY <2>1, <2>2, <3>1, <3>2, ErrorsPromised DEF Expected
  <2>3. CASE direct[c].code = E_SCREENLOCK.OK
    <3>1. Ask(c).name \notin Requests => result[c].value = direct[c].value
      BY <1>2, <2>3 DEF Agrees, Valued
    <3>2. Expected(c) = IF Unnamed(c, direct[c].value) THEN [ok |-> FALSE, value |-> 401]
                        ELSE [ok |-> TRUE, value |-> Shown(c, direct[c].value)]
      BY <2>3 DEF Expected
    <3> QED
      BY <2>1, <2>3, <3>1, <3>2
  <2> QED
    BY <2>2, <2>3
<1> QED
  BY <1>1, <1>2

\* What a caller is given of the result: returned by the thread, or settled in the loop.
Gives(c) == IF Plan(c).mode = "sync" THEN Returns(c) ELSE Settled(Completion(c))

\* An outcome that is where the caller looks for it, and as Expected.
Rightly(c, given) == given.to = Plan(c).to /\ [ok |-> given.ok, value |-> given.value] = Expected(c)

\* NAPI gives rightly what agrees with the service,
LEMMA NapiRight ==
  ASSUME scenario \in Scenarios, NEW c \in Calls, Makes(c), scenario.binding = "napi",
         Plan(c).mode \in {"sync", "async"}, Agrees(c)
  PROVE  Rightly(c, Gives(c))
<1> DEFINE given == Gives(c)
           v == result[c].value
<1>0. Ask(c).name \in JsFunctions /\ Ask(c).name \notin {"lock", "unlock", "unlockScreen"}
  BY IsWellAsked, ListenersAsk DEF WellAsked
<1> DEFINE got == IF Ask(c).name \in Requests THEN 1 ELSE v
           unnamed == Plan(c).gives = "policy" /\ Plan(c).mode = "sync" /\ v \notin 0..2
<1>1. /\ result[c].code # E_SCREENLOCK.OK =>
           given = Napi!Outcome(Plan(c).to, FALSE, Napi!GetErrorInfo(result[c].code))
      /\ result[c].code = E_SCREENLOCK.OK /\ unnamed => given = Napi!Outcome(Plan(c).to, FALSE, 401)
      /\ result[c].code = E_SCREENLOCK.OK /\ ~unnamed => given = Napi!Outcome(Plan(c).to, TRUE, got)
  <2>1. CASE Plan(c).mode = "sync"
    <3>1. Gives(c) = Napi!Return(Plan(c), result[c])
      BY <2>1 DEF Gives, Returns
    <3>2. (Ask(c).name \in Requests <=> Plan(c).gives = "true") /\ Plan(c).to = "caller"
      BY <2>1, NapiGives
    <3>3. Napi!JsErrorCode.INVALID_PARAMS = 401
      BY DEF Napi!JsErrorCode
    <3>4. unnamed <=> Plan(c).gives = "policy" /\ v \notin 0..2
      BY <2>1
    <3>5. got = IF Plan(c).gives = "true" THEN 1 ELSE v
      BY <3>2
    <3>6. Napi!Return(Plan(c), result[c]) =
            IF result[c].code # E_SCREENLOCK.OK THEN Napi!Outcome(Plan(c).to, FALSE, Napi!GetErrorInfo(result[c].code))
            ELSE IF Plan(c).gives =
              "policy" /\ v \notin 0..2 THEN Napi!Outcome(Plan(c).to, FALSE, Napi!JsErrorCode.INVALID_PARAMS)
            ELSE Napi!Outcome(Plan(c).to, TRUE, IF Plan(c).gives = "true" THEN 1 ELSE v)
      BY <3>2, BindingErrors, Zenon DEF Napi!Return
    <3> HIDE DEF unnamed, got
    <3>7. Napi!Return(Plan(c), result[c]) =
            IF result[c].code # E_SCREENLOCK.OK THEN Napi!Outcome(Plan(c).to, FALSE, Napi!GetErrorInfo(result[c].code))
            ELSE IF unnamed THEN Napi!Outcome(Plan(c).to, FALSE, Napi!JsErrorCode.INVALID_PARAMS)
            ELSE Napi!Outcome(Plan(c).to, TRUE, got)
      BY <3>4, <3>5, <3>6, Zenon
    <3>8. CASE result[c].code # E_SCREENLOCK.OK
      BY <3>1, <3>7, <3>8, Zenon
    <3>9. CASE result[c].code = E_SCREENLOCK.OK /\ unnamed
      BY <3>1, <3>3, <3>7, <3>9, Zenon
    <3>10. CASE result[c].code = E_SCREENLOCK.OK /\ ~unnamed
      BY <3>1, <3>7, <3>10, Zenon
    <3> QED
      BY <3>8, <3>9, <3>10
  <2>2. CASE Plan(c).mode = "async"
    <3>1. Gives(c) = Napi!OnComplete(Plan(c), result[c])
      <4>1. Gives(c) = Settled(Completion(c)) /\ Completion(c).call = c /\ Completion(c).kind = "complete"
        BY <2>2, SMT DEF Gives, Completion
      <4>2. Settled(Completion(c)) = Napi!OnComplete(Plan(Completion(c).call), result[Completion(c).call])
        BY <4>1, Zenon DEF Settled
      <4> QED
        BY <4>1, <4>2, Zenon
    <3>2. Ask(c).name \in Requests <=> Plan(c).gives = "allowed"
      BY <2>2, NapiGives
    <3>3. ~unnamed
      BY <2>2
    <3>4. got = IF Plan(c).gives = "allowed" THEN 1 ELSE v
      BY <3>2
    <3> HIDE DEF unnamed, got
    <3> QED
      BY <3>1, <3>3, <3>4, BindingErrors, Zenon DEF Napi!OnComplete
  <2> QED
    BY <2>1, <2>2
<1>2. unnamed <=> Ask(c).name = "getUnlockPolicy" /\ v \notin 0..2
  <2>1. Plan(c).gives = "policy" /\ Plan(c).mode = "sync" <=> Ask(c).name = "getUnlockPolicy"
    BY NapiGives
  <2> QED
    BY <2>1
<1> HIDE DEF given, unnamed
<1>4. \A ok, value : given = Napi!Outcome(Plan(c).to, ok, value) /\ Expected(c) = [ok |-> ok, value |-> value] =>
        Rightly(c, given)
  BY DEF Rightly, Napi!Outcome
<1>5. CASE result[c].code # E_SCREENLOCK.OK
  <2>1. Expected(c) = [ok |-> FALSE, value |-> Napi!GetErrorInfo(result[c].code)]
    BY <1>0, <1>5, ExpectedIs
  <2> QED
    BY <1>1, <1>4, <1>5, <2>1, Zenon DEF given
<1>6. CASE result[c].code = E_SCREENLOCK.OK
  <2>1. CASE Ask(c).name \in Guesses /\ v = 0 /\ Expected(c) = [ok |-> TRUE, value |-> 0]
    <3>1. ~unnamed /\ got = 0
      BY <1>2, <2>1 DEF Guesses, Requests
    <3> HIDE DEF got
    <3> QED
      BY <1>1, <1>4, <1>6, <2>1, <3>1, Zenon DEF given
  <2>2. ASSUME NEW value, Ask(c).name \notin Requests => v = value,
               Expected(c) = IF Unnamed(c, value) THEN [ok |-> FALSE, value |-> 401]
                             ELSE [ok |-> TRUE, value |-> Shown(c, value)]
        PROVE  Rightly(c, Gives(c))
    <3>1. Ask(c).name = "getUnlockPolicy" => Ask(c).name \notin Requests
      BY DEF Requests
    <3>2. Unnamed(c, value) <=> unnamed
      BY <1>2, <2>2, <3>1 DEF Unnamed
    <3>3. Shown(c, value) = got
      BY <2>2 DEF Shown, Bit
    <3> HIDE DEF got
    <3>4. CASE unnamed
      <4>1. Expected(c) = [ok |-> FALSE, value |-> 401]
        BY <2>2, <3>2, <3>4, Zenon
      <4> QED
        BY <1>1, <1>4, <1>6, <3>4, <4>1, Zenon DEF given
    <3>5. CASE ~unnamed
      <4>1. Expected(c) = [ok |-> TRUE, value |-> got]
        BY <2>2, <3>2, <3>3, <3>5, Zenon
      <4> QED
        BY <1>1, <1>4, <1>6, <3>5, <4>1, Zenon DEF given
    <3> QED
      BY <3>4, <3>5
  <2> QED
    BY <1>0, <1>6, <2>1, <2>2, ExpectedIs
<1> QED
  BY <1>5, <1>6

\* and so does ANI.
LEMMA AniRight ==
  ASSUME scenario \in Scenarios, NEW c \in Calls, Makes(c), scenario.binding = "ani",
         Plan(c).mode \in {"sync", "async"}, Agrees(c)
  PROVE  Rightly(c, Gives(c))
<1> DEFINE given == Gives(c)
           v == result[c].value
<1>0. Ask(c).name \in JsFunctions /\ Ask(c).name \notin {"lock", "unlock", "unlockScreen"}
  BY IsWellAsked, ListenersAsk DEF WellAsked
<1>1. given = Ani!Returned(Plan(c), result[c])
  BY DEF Gives, Returns, Settled, Completion
<1> DEFINE got == IF Ask(c).name \in Requests THEN Bit(Ask(c).name # "requestStrongAuth")
                  ELSE IF Ask(c).name = "getUnlockPolicy" THEN -1
                  ELSE IF Ask(c).name = "getScreenLockAuthState" THEN IF v \in 0..6 THEN v ELSE -1
                  ELSE v
           shown == CASE Plan(c).gives = "true"      -> 1
                      [] Plan(c).gives = "undefined" -> 0
                      [] Plan(c).gives = "authState" -> Ani!Enum_GetEnumItemByIndex(7, result[c].value)
                      [] Plan(c).gives = "policy"    -> Ani!NULL
                      [] OTHER                       -> result[c].value
<1>2. given = IF result[c].code # E_SCREENLOCK.OK THEN Ani!Outcome(Plan(c).to, FALSE, Ani!GetErrorInfo(result[c].code))
              ELSE Ani!Outcome(Plan(c).to, TRUE, shown)
  BY <1>1, BindingErrors, Zenon DEF Ani!Returned
<1>3. shown = got
  BY AniGives, SMT DEF Ani!Enum_GetEnumItemByIndex, Ani!NULL, Bit
<1> HIDE DEF given, shown
<1>4. \A ok, value : given = Ani!Outcome(Plan(c).to, ok, value) /\ Expected(c) = [ok |-> ok, value |-> value] =>
        Rightly(c, given)
  BY DEF Rightly, Ani!Outcome
<1>5. CASE result[c].code # E_SCREENLOCK.OK
  <2>1. Expected(c) = [ok |-> FALSE, value |-> Ani!GetErrorInfo(result[c].code)]
    BY <1>0, <1>5, ExpectedIs
  <2> QED
    BY <1>2, <1>4, <1>5, <2>1, Zenon DEF given
<1>6. CASE result[c].code = E_SCREENLOCK.OK
  <2>1. CASE Ask(c).name \in Guesses /\ v = 0 /\ Expected(c) = [ok |-> TRUE, value |-> 0]
    <3>1. got = 0
      BY <2>1 DEF Guesses, Requests
    <3> HIDE DEF got
    <3> QED
      BY <1>2, <1>3, <1>4, <1>6, <2>1, <3>1, Zenon DEF given
  <2>2. ASSUME NEW value, Ask(c).name \notin Requests => v = value,
               Expected(c) = IF Unnamed(c, value) THEN [ok |-> FALSE, value |-> 401]
                             ELSE [ok |-> TRUE, value |-> Shown(c, value)]
        PROVE  Rightly(c, Gives(c))
    <3>1. ~Unnamed(c, value)
      BY DEF Unnamed
    <3>2. Shown(c, value) = got
      <4>1. CASE Ask(c).name \in Requests
        BY <4>1 DEF Shown, Bit, Requests
      <4>2. CASE Ask(c).name \notin Requests
        BY <2>2, <4>2, SMT DEF Shown
      <4> QED
        BY <4>1, <4>2
    <3> HIDE DEF got
    <3> QED
      BY <1>2, <1>3, <1>4, <1>6, <2>2, <3>1, <3>2, Zenon DEF given
  <2> QED
    BY <1>0, <1>6, <2>1, <2>2, ExpectedIs
<1> QED
  BY <1>5, <1>6

-----------------------------------------------------------------------------
(* The outcomes.                                                           *)

\* The outcomes with one more.
LEMMA ToSetAppend ==
  ASSUME NEW s, Listed(s), NEW e
  PROVE  ToSet(Append(s, e)) = ToSet(s) \cup {e}
<1> DEFINE t == Append(s, e)
<1>1. /\ Listed(t) /\ Len(t) = Len(s) + 1
      /\ \A i \in 1..Len(s) : t[i] = s[i]
      /\ t[Len(s) + 1] = e
  BY AppendList
<1> HIDE DEF t
<1>2. Len(s) \in Nat /\ DOMAIN s = 1..Len(s) /\ DOMAIN t = 1..(Len(s) + 1)
  BY <1>1, ListDomain
<1>3. ToSet(t) = ToSet(s) \cup {e}
  BY <1>1, <1>2 DEF ToSet
<1> QED
  BY <1>3 DEF t

\* What was decided on a call that is done, and so what its caller expects, stays.
LEMMA ExpectationStays ==
  ASSUME ClientTypeOK, Shapes, [Next]_vars, NEW c \in Calls, pc[c] = "done" \/ direct' = direct
  PROVE  Expected(c)' = Expected(c)
<1>1. scenario' = scenario
  BY SameScenario
<1>2. direct'[c] = direct[c]
  <2>1. CASE direct' = direct
    BY <2>1
  <2>2. CASE direct' # direct /\ pc[c] = "done"
    <3>1. ASSUME NEW d \in Calls, \/ EndAtOnce(d) \/ CallBegin(d) \/ CallGetProxy(d) \/ CallWithhold(d)
                                  \/ CallStoreListener(d) \/ CallTransact(d) \/ CallReply(d) \/ CallFinish(d)
          PROVE  direct' = direct
      BY <3>1, Zenon DEF EndAtOnce, CallBegin, CallGetProxy, CallWithhold, CallStoreListener, CallTransact,
         CallReply, CallFinish, dataVars
    <3>2. ASSUME NEW i \in DOMAIN loop, JsRuns(i) PROVE direct' = direct
      BY <3>2, Zenon DEF JsRuns
    <3>3. RunTask \/ AppAnswers \/ Starts \/ Connection \/ UNCHANGED vars => direct' = direct
      BY Zenon DEF RunTask, AppAnswers, Starts, Connection, vars, dataVars
    <3>4. ASSUME NEW d \in Calls, CallHandle(d) PROVE direct'[c] = direct[c]
      BY <2>2, <3>4 DEF CallHandle, Handle, Shapes
    <3>5. CASE Dies
      BY <2>2, <3>5 DEF Dies
    <3> QED
      BY <2>2, <3>1, <3>2, <3>3, <3>4, <3>5, Zenon DEF Next
  <2> QED
    BY <2>1, <2>2
<1> QED
  BY <1>1, <1>2, Zenon DEF Expected, Unnamed, Shown, Ask

\* Only these steps give a call an outcome: a call that ends at once, the return of
\* a thread, and the loop.
LEMMA OnlyGives ==
  ASSUME [Next]_vars, outcome' # outcome
  PROVE  \/ \E c \in Calls : EndAtOnce(c)
         \/ \E c \in Calls : CallFinish(c) /\ Plan(c).mode = "sync" /\ Give(c, Returns(c))
         \/ \E i \in DOMAIN loop : JsRuns(i)
<1>1. ASSUME NEW c \in Calls, \/ CallBegin(c) \/ CallGetProxy(c) \/ CallWithhold(c) \/ CallStoreListener(c)
                              \/ CallTransact(c) \/ CallHandle(c) \/ CallReply(c)
      PROVE  outcome' = outcome
  BY <1>1, Zenon DEF CallBegin, CallGetProxy, CallWithhold, CallStoreListener, CallTransact, CallHandle,
     CallReply, dataVars
<1>2. RunTask \/ AppAnswers \/ Dies \/ Starts \/ Connection \/ UNCHANGED vars => outcome' = outcome
  BY Zenon DEF RunTask, AppAnswers, Dies, Starts, Connection, vars, dataVars
<1>3. ASSUME NEW c \in Calls, CallFinish(c) PROVE Plan(c).mode = "sync" /\ Give(c, Returns(c))
  BY <1>3 DEF CallFinish
<1> QED
  BY <1>1, <1>2, <1>3, Zenon DEF Next

\* What a step gives a call is right, and the call is done.
LEMMA GivesRightly ==
  ASSUME scenario \in Scenarios, ClientTypeOK, ReturnInv, QueuesInv, [Next]_vars, outcome' # outcome
  PROVE  \E c \in Calls : \E given :
           /\ Give(c, given) /\ direct' = direct
           /\ Plan(c).mode \in {"sync", "async"} =>
                pc'[c] = "done" /\ (scenario.binding # "native" => Rightly(c, given))
<1>0. ASSUME NEW c \in Calls, pc[c] \in {"returned", "done"}, Plan(c).mode \in {"sync", "async"},
             scenario.binding # "native"
      PROVE  Rightly(c, Gives(c))
  <2>1. Makes(c) /\ Agrees(c)
    BY <1>0 DEF ReturnInv, Carried, ResultInv
  <2>2. scenario.binding \in {"napi", "ani"}
    BY <1>0, CallPathAssumption
  <2> QED
    BY <1>0, <2>1, <2>2, NapiRight, AniRight
<1>1. ASSUME NEW c \in Calls, EndAtOnce(c)
      PROVE  Give(c, Plan(c).outcome) /\ direct' = direct /\ Plan(c).mode \notin {"sync", "async"}
  BY <1>1 DEF EndAtOnce
<1>2. ASSUME NEW c \in Calls, CallFinish(c), Plan(c).mode = "sync"
      PROVE  direct' = direct /\ pc'[c] = "done" /\ (scenario.binding # "native" => Rightly(c, Returns(c)))
  <2>1. direct' = direct /\ pc'[c] = "done" /\ pc[c] = "returned"
    BY <1>2 DEF CallFinish, Finish, Goto, ClientTypeOK
  <2>2. Returns(c) = Gives(c)
    BY <1>2 DEF Gives
  <2> QED
    BY <1>0, <1>2, <2>1, <2>2
<1>3. ASSUME NEW i \in DOMAIN loop, JsRuns(i)
      PROVE  LET c == loop[i].call IN
             /\ c \in Calls /\ Give(c, Settled(loop[i])) /\ direct' = direct
             /\ Plan(c).mode \in {"sync", "async"} =>
                  pc'[c] = "done" /\ (scenario.binding # "native" => Rightly(c, Settled(loop[i])))
  <2> DEFINE e == loop[i]
             c == loop[i].call
  <2>1. Give(c, Settled(e)) /\ direct' = direct /\ pc' = pc
    BY <1>3 DEF JsRuns, clientVars
  <2>2. Completes(e, Finished) \/ (e.kind = "callback" /\ c \in Pending)
    BY DEF QueuesInv, Queued
  <2>3. CASE Completes(e, Finished)
    <3>1. c \in Calls /\ pc[c] = "done" /\ e.kind = "complete" /\ Plan(c).mode = "async"
      BY <2>3 DEF Completes, Finished
    <3>2. Completion(c).kind = "complete" /\ Completion(c).call = c
      BY DEF Completion
    <3>3. scenario.binding # "native" => Settled(e) = Gives(c)
      <4>1. CASE scenario.binding = "napi"
        BY <3>1, <3>2, <4>1 DEF Settled, Gives
      <4>2. CASE scenario.binding = "ani"
        BY <3>1, <3>2, <4>2 DEF Settled, Gives
      <4> QED
        BY <4>1, <4>2, CallPathAssumption
    <3> QED
      BY <1>0, <2>1, <3>1, <3>3
  <2>4. CASE c \in Pending
    BY <2>1, <2>4 DEF Pending
  <2> QED
    BY <2>2, <2>3, <2>4
<1> QED
  BY <1>1, <1>2, <1>3, OnlyGives, Zenon

\* Each step keeps GivenInv and OutcomeRight.
LEMMA GivenStep ==
  ASSUME scenario \in Scenarios, ClientTypeOK, ReturnInv, QueuesInv, GivenInv, OutcomeRight, [Next]_vars
  PROVE  (GivenInv /\ OutcomeRight)'
<1>0. scenario' = scenario /\ Shapes
  BY SameScenario DEF ReturnInv
<1>1. \A c \in Calls : Plan(c)' = Plan(c) /\ (scenario.binding)' = scenario.binding
  BY <1>0, SamePlans
<1>2. \A c \in Calls : pc[c] = "done" => pc'[c] = "done" /\ Expected(c)' = Expected(c)
  BY <1>0, DoneStays, ExpectationStays
\* The outcomes a call had.
<1>3. ASSUME NEW c \in Calls, Plan(c).mode \in {"sync", "async"}, outcome[c] # <<>>
      PROVE  pc[c] = "done"
  BY <1>3 DEF GivenInv
<1>4. ASSUME NEW c \in Calls, Plan(c).mode \in {"sync", "async"}, scenario.binding # "native",
             NEW given \in ToSet(outcome[c])
      PROVE  given.to = Plan(c).to /\ [ok |-> given.ok, value |-> given.value] = Expected(c)'
  <2>1. outcome[c] # <<>>
    BY EmptyList DEF ToSet
  <2> QED
    BY <1>2, <1>3, <1>4, <2>1 DEF OutcomeRight
<1>5. CASE outcome' = outcome
  <2>1. GivenInv'
    BY <1>1, <1>2, <1>5 DEF GivenInv, Listed
  <2>2. OutcomeRight'
    BY <1>1, <1>4, <1>5 DEF OutcomeRight
  <2> QED
    BY <2>1, <2>2
<1>6. CASE outcome' # outcome
  <2>0. PICK d \in Calls : \E given :
           /\ Give(d, given) /\ direct' = direct
           /\ Plan(d).mode \in {"sync", "async"} =>
                pc'[d] = "done" /\ (scenario.binding # "native" => Rightly(d, given))
    BY <1>6, GivesRightly
  <2>1. PICK given :
           /\ Give(d, given) /\ direct' = direct
           /\ Plan(d).mode \in {"sync", "async"} =>
                pc'[d] = "done" /\ (scenario.binding # "native" => Rightly(d, given))
    BY <2>0
  <2>2. \A c \in Calls : outcome'[c] = IF c = d THEN Append(outcome[d], given) ELSE outcome[c]
    BY <1>0, <2>1 DEF Give, Shapes
  <2>3. Listed(outcome[d])
    BY DEF GivenInv
  <2>4. Listed(Append(outcome[d], given)) /\ ToSet(Append(outcome[d], given)) = ToSet(outcome[d]) \cup {given}
    BY <2>3, AppendList, ToSetAppend
  <2>5. Expected(d)' = Expected(d)
    BY <1>0, <2>1, ExpectationStays
  <2>6. \A c \in Calls : Listed(outcome'[c]) /\ (Plan(c).mode \in {"sync", "async"} /\ outcome'[c] # <<>> =>
          pc'[c] = "done")
    BY <1>2, <1>3, <2>1, <2>2, <2>4 DEF GivenInv
  <2>7. GivenInv'
    BY <1>1, <2>6 DEF GivenInv, Listed
  <2>8. ASSUME NEW c \in Calls, Plan(c).mode \in {"sync", "async"}, scenario.binding # "native",
               NEW g \in ToSet(outcome'[c])
        PROVE  g.to = Plan(c).to /\ [ok |-> g.ok, value |-> g.value] = Expected(c)'
    <3>1. CASE g \in ToSet(outcome[c])
      BY <1>4, <2>8, <3>1
    <3>2. CASE g \notin ToSet(outcome[c])
      <4>1. c = d /\ g = given
        BY <2>2, <2>4, <2>8, <3>2
      <4> QED
        BY <2>1, <2>5, <2>8, <4>1 DEF Rightly
    <3> QED
      BY <3>1, <3>2
  <2>9. OutcomeRight'
    BY <1>1, <2>8 DEF OutcomeRight
  <2> QED
    BY <2>7, <2>9
<1> QED
  BY <1>5, <1>6

\* What the steps of a call keep of the queues and of the outcomes.
PathInv == scenario \in Scenarios /\ QueuesInv /\ GivenInv /\ OutcomeRight

\* The service and the loop hold listeners of requests and completions of finished
\* calls, and what the callers were given is right.
LEMMA PathInvariant == Spec => []PathInv
<1>1. Init => PathInv
  <2> SUFFICES ASSUME Init PROVE PathInv
    OBVIOUS
  <2>1. scenario \in Scenarios /\ store = scenario.store /\ loop = <<>> /\ outcome = [c \in Calls |-> <<>>]
    BY DEF Init
  <2>2. Waiters(store)
    BY <2>1, CallPathAssumption, EmptyList DEF Waiters, HasFields
  <2>3. QueuesInv
    BY <2>1, <2>2, EmptyList DEF QueuesInv, Queued
  <2>4. GivenInv
    BY <2>1, EmptyList DEF GivenInv
  <2>5. OutcomeRight
    BY <2>1, EmptyList DEF OutcomeRight, ToSet
  <2> QED
    BY <2>1, <2>3, <2>4, <2>5 DEF PathInv
<1>2. ClientInv /\ ReturnInv /\ PathInv /\ [Next]_vars => PathInv'
  <2> SUFFICES ASSUME ClientInv, ReturnInv, PathInv, [Next]_vars PROVE PathInv'
    OBVIOUS
  <2>1. /\ ClientTypeOK /\ Carried
        /\ scenario \in Scenarios /\ QueuesInv /\ GivenInv /\ OutcomeRight
    BY DEF ClientInv, ReturnInv, PathInv
  <2>2. (scenario \in Scenarios)'
    BY <2>1, SameScenario
  <2>3. QueuesInv'
    BY <2>1, QueuesStep
  <2>4. (GivenInv /\ OutcomeRight)'
    BY <2>1, GivenStep
  <2> QED
    BY <2>2, <2>3, <2>4 DEF PathInv
<1> QED
  BY <1>1, <1>2, PathUsesClient, ClientInvariant, ReturnInvariant, PTL DEF Spec

\* Whatever a call of NAPI or ANI gives its caller, thrown, returned or settled, is
\* what the service decided on that call in the form the binding promises, or the
\* error of a call that was not served; for any programs, deaths and interleavings.
THEOREM OutcomesAreRight == Spec => []OutcomeRight
<1>1. PathInv => OutcomeRight
  BY DEF PathInv
<1> QED
  BY <1>1, PathInvariant, PTL

-----------------------------------------------------------------------------
(* How often a call is in a list.                                          *)

\* What is taken from the loop is gone from it, and only that,
LEMMA RemoveComing ==
  ASSUME NEW s, Listed(s), NEW i \in DOMAIN s, NEW c
  PROVE  LET t == RemoveAt(s, i) IN
         /\ Coming(s, c) = {} => Coming(t, c) = {}
         /\ Single(Coming(s, c)) => Single(Coming(t, c)) /\ (s[i].call = c => Coming(t, c) = {})
<1> DEFINE t == RemoveAt(s, i)
           from(j) == IF j < i THEN j ELSE j + 1
<1>1. /\ Listed(t) /\ Len(t) = Len(s) - 1
      /\ \A j \in 1..(Len(s) - 1) : t[j] = s[from(j)]
  BY RemoveList
<1> HIDE DEF t
<1>2. Len(s) \in Nat /\ DOMAIN s = 1..Len(s) /\ DOMAIN t = 1..(Len(s) - 1) /\ i \in 1..Len(s)
  BY <1>1, ListDomain
<1>3. \A j \in DOMAIN t : from(j) \in DOMAIN s /\ from(j) # i
  BY <1>2
<1>4. \A j, k \in DOMAIN t : from(j) = from(k) => j = k
  BY <1>2
<1>5. \A j \in DOMAIN t : t[j] = s[from(j)]
  BY <1>1, <1>2
<1> HIDE DEF from
<1>6. \A j \in Coming(t, c) : from(j) \in Coming(s, c) /\ from(j) # i /\ j \in DOMAIN t
  BY <1>3, <1>5 DEF Coming
<1>7. s[i].call = c => i \in Coming(s, c)
  BY DEF Coming
<1>8. Coming(s, c) = {} => Coming(t, c) = {}
  BY <1>6
<1>9. Single(Coming(s, c)) => Single(Coming(t, c)) /\ (s[i].call = c => Coming(t, c) = {})
  BY <1>4, <1>6, <1>7 DEF Single
<1> QED
  BY <1>8, <1>9 DEF t

\* and what is put behind it comes after what there was.
LEMMA ConcatComing ==
  ASSUME NEW s, NEW u, Listed(s), Listed(u), NEW c
  PROVE  /\ Coming(u, c) = {} => Coming(s \o u, c) = Coming(s, c)
         /\ Coming(s, c) = {} /\ Single(Coming(u, c)) => Single(Coming(s \o u, c))
         /\ Coming(s \o u, c) # {} => Coming(s, c) # {} \/ Coming(u, c) # {}
<1> DEFINE t == s \o u
           n == Len(s)
<1>1. /\ Listed(t) /\ Len(t) = Len(s) + Len(u)
      /\ \A j \in 1..Len(s) : t[j] = s[j]
      /\ \A j \in 1..Len(u) : t[Len(s) + j] = u[j]
  BY ConcatList
<1> HIDE DEF t
<1>2. /\ Len(s) \in Nat /\ DOMAIN s = 1..Len(s)
      /\ Len(u) \in Nat /\ DOMAIN u = 1..Len(u)
      /\ DOMAIN t = 1..(Len(s) + Len(u))
  BY <1>1, ListDomain
<1>3. \A j \in DOMAIN t : j \in DOMAIN s \/ (j \notin DOMAIN s /\ j - n \in DOMAIN u /\ n + (j - n) = j)
  BY <1>2
<1>4. \A j \in DOMAIN s : j \in DOMAIN t /\ t[j] = s[j]
  BY <1>1, <1>2
<1>5. \A j \in DOMAIN t : j \notin DOMAIN s => t[j] = u[j - n]
  <2> SUFFICES ASSUME NEW j \in DOMAIN t, j \notin DOMAIN s PROVE t[j] = u[j - n]
    OBVIOUS
  <2>1. j - n \in 1..Len(u) /\ n + (j - n) = j
    BY <1>2, <1>3
  <2> QED
    BY <1>1, <2>1
<1>6. \A j \in Coming(t, c) : j \in Coming(s, c) \/ (j \in DOMAIN t /\ j - n \in Coming(u, c))
  BY <1>3, <1>4, <1>5 DEF Coming
<1>7. Coming(s, c) \subseteq Coming(t, c)
  BY <1>4 DEF Coming
<1>8. \A j, k \in DOMAIN t : j - n = k - n => j = k
  BY <1>2
<1>9. Coming(u, c) = {} => Coming(t, c) = Coming(s, c)
  BY <1>6, <1>7
<1>10. Coming(s, c) = {} /\ Single(Coming(u, c)) => Single(Coming(t, c))
  BY <1>6, <1>8 DEF Single
<1>11. Coming(t, c) # {} => Coming(s, c) # {} \/ Coming(u, c) # {}
  BY <1>6
<1> QED
  BY <1>9, <1>10, <1>11 DEF t

\* A list of one has one.
LEMMA SingleComing ==
  ASSUME NEW entry, NEW c
  PROVE  /\ Single(Coming(<<entry>>, c))
         /\ entry.call # c => Coming(<<entry>>, c) = {}
BY SingleList DEF Single, Coming

\* An empty one has none.
LEMMA NothingComing == \A c : Coming(<<>>, c) = {}
BY EmptyList DEF Coming

\* A listener that joins is held once more; the others as before.
LEMMA JoinsOnce ==
  ASSUME NEW s, NEW t, Waiters(s), NEW c, NEW user, NEW d
  PROVE  /\ JoinsUnlocks(s, t, c, user) =>
              /\ Locking(t, d) = Locking(s, d) /\ (d # c => Unlocking(t, d) = Unlocking(s, d))
              /\ Unlocking(s, c) = {} => Single(Unlocking(t, c))
         /\ JoinsLocks(s, t, c) =>
              /\ Unlocking(t, d) = Unlocking(s, d) /\ (d # c => Locking(t, d) = Locking(s, d))
              /\ Locking(s, c) = {} => Single(Locking(t, c))
<1> DEFINE entry == [listener |-> c, user |-> user]
           unlocks == Append(s.unlocks, entry)
           locks == Append(s.locks, c)
           n == Len(s.unlocks)
           m == Len(s.locks)
<1>1. /\ Listed(unlocks) /\ Len(unlocks) = n + 1 /\ unlocks[n + 1] = entry
      /\ \A i \in 1..n : unlocks[i] = s.unlocks[i]
  BY AppendList DEF Waiters
<1>2. /\ Listed(locks) /\ Len(locks) = m + 1 /\ locks[m + 1] = c
      /\ \A i \in 1..m : locks[i] = s.locks[i]
  BY AppendList DEF Waiters
<1> HIDE DEF unlocks, locks
<1>3. /\ n \in Nat /\ DOMAIN s.unlocks = 1..n /\ DOMAIN unlocks = 1..(n + 1)
      /\ m \in Nat /\ DOMAIN s.locks = 1..m /\ DOMAIN locks = 1..(m + 1)
  BY <1>1, <1>2, ListDomain DEF Waiters
<1> HIDE DEF n, m
<1>4. ASSUME JoinsUnlocks(s, t, c, user)
      PROVE  /\ Locking(t, d) = Locking(s, d) /\ (d # c => Unlocking(t, d) = Unlocking(s, d))
             /\ Unlocking(s, c) = {} => Single(Unlocking(t, c))
  <2>1. t.unlocks = unlocks /\ t.locks = s.locks
    BY <1>4 DEF JoinsUnlocks, unlocks
  <2>2. \A i \in DOMAIN unlocks : i \in DOMAIN s.unlocks \/ i = n + 1
    BY <1>3
  <2>3. \A i \in DOMAIN s.unlocks : i \in DOMAIN unlocks /\ unlocks[i] = s.unlocks[i]
    BY <1>1, <1>3
  <2>4. unlocks[n + 1].listener = c
    BY <1>1
  <2> QED
    BY <2>1, <2>2, <2>3, <2>4 DEF Unlocking, Locking, Single
<1>5. ASSUME JoinsLocks(s, t, c)
      PROVE  /\ Unlocking(t, d) = Unlocking(s, d) /\ (d # c => Locking(t, d) = Locking(s, d))
             /\ Locking(s, c) = {} => Single(Locking(t, c))
  <2>1. t.locks = locks /\ t.unlocks = s.unlocks
    BY <1>5 DEF JoinsLocks, locks
  <2>2. \A i \in DOMAIN locks : i \in DOMAIN s.locks \/ i = m + 1
    BY <1>3
  <2>3. \A i \in DOMAIN s.locks : i \in DOMAIN locks /\ locks[i] = s.locks[i]
    BY <1>2, <1>3
  <2> QED
    BY <1>2, <2>1, <2>2, <2>3 DEF Unlocking, Locking, Single
<1> QED
  BY <1>4, <1>5

-----------------------------------------------------------------------------
(* What a step does to one call.                                           *)

\* A call goes on.
Advances(c) ==
  \/ pc[c] \notin Reached
  \/ via'[c] = via[c] /\ pc'[c] \in {pc[c], "returned", "done"} /\ (pc[c] = "done" => pc'[c] = "done")

\* The loop has no more of it.
Thins(c) ==
  /\ Coming(loop, c) = {} => Coming(loop', c) = {}
  /\ Single(Coming(loop, c)) => Single(Coming(loop', c))

\* The lists have what they had of it.
SameLists(c) == Unlocking(store', c) = Unlocking(store, c) /\ Locking(store', c) = Locking(store, c)

\* A call that nothing reached yet.
LEMMA UnreachedIs ==
  ASSUME NEW c, CallInv(c), pc[c] \notin Reached
  PROVE  ~Waits(store, c) /\ Unlocking(store, c) = {} /\ Locking(store, c) = {} /\ Coming(loop, c) = {} /\ outcome[c] = <<>>
BY Zenon DEF CallInv, HeldInv, EarlyInv, Waits

\* A call that a step leaves alone, but for its going on, keeps the invariant.
LEMMA CallKept ==
  ASSUME NEW c \in Calls, CallInv(c), scenario' = scenario, running' = running, SameLists(c), Thins(c),
         Advances(c), outcome'[c] = outcome[c], told[c] \subseteq told'[c], won'[c] = won[c]
  PROVE  CallInv(c)'
<1>1. (Waits(store', c) <=> Waits(store, c)) /\ Ask(c)' = Ask(c)
  BY DEF SameLists, Waits, Ask
<1>2. CASE pc[c] \notin Reached
  <2>1. ~Waits(store, c) /\ Coming(loop, c) = {} /\ outcome[c] = <<>>
    BY <1>2, UnreachedIs
  <2>2. Coming(loop', c) = {} /\ Single({}) /\ Len(<<>>) <= 1
    BY <2>1 DEF Thins, Single
  <2> QED
    BY <1>1, <2>1, <2>2 DEF SameLists, CallInv, HeldInv, EarlyInv, Once
<1>3. CASE pc[c] \in Reached
  <2>1. pc'[c] \in Reached /\ via'[c] = via[c]
    BY <1>3 DEF Advances, Reached
  <2>2. told[c] # {} => told'[c] # {}
    OBVIOUS
  <2>3. pc'[c] # "done" => pc[c] # "done" /\ (pc[c] = "returned" => pc'[c] = "returned")
    BY <1>3 DEF Advances
  <2>4. HeldInv(c)'
    BY <1>1, <2>1 DEF SameLists, Thins, CallInv, HeldInv
  <2>5. EarlyInv(c)'
    BY <2>1, <2>2, <2>3 DEF Thins, CallInv, EarlyInv, Outlived
  <2>6. (Once(c) \/ (Outlived(c) /\ told[c] # {}))'
    BY <2>1, <2>2 DEF Thins, CallInv, Once, Outlived
  <2> QED
    BY <2>4, <2>5, <2>6 DEF CallInv
<1> QED
  BY <1>2, <1>3

\* What is done to a call that has not changed hands.
LEMMA SameStoreKept ==
  ASSUME store' = store, loop' = loop
  PROVE  \A c : SameLists(c) /\ Thins(c)
BY DEF SameLists, Thins

\* A request of a binding.
LEMMA PendingIs ==
  ASSUME scenario \in Scenarios
  PROVE  \A c \in Pending : /\ c \in Calls /\ Makes(c) /\ Plan(c).mode = "listener"
                            /\ scenario.binding \in {"napi", "ani"}
<1> SUFFICES ASSUME NEW c \in Pending
             PROVE  c \in Calls /\ Makes(c) /\ Plan(c).mode = "listener" /\ scenario.binding \in {"napi", "ani"}
  OBVIOUS
<1>1. c \in Calls /\ Plan(c).mode = "listener"
  BY DEF Pending
<1>2. Makes(c)
  BY <1>1 DEF Makes
<1>3. scenario.binding # "native"
  BY <1>1, <1>2, PlanModes
<1> QED
  BY <1>1, <1>2, <1>3, CallPathAssumption

\* Steps that touch neither the lists, nor the loop, nor the answers.
LEMMA QuietKeeps ==
  ASSUME ClientTypeOK, scenario \in Scenarios, Shapes, [Next]_vars, NEW d \in Pending, CallInv(d),
         \/ \E c \in Calls : \/ EndAtOnce(c) \/ CallBegin(c) \/ CallGetProxy(c) \/ CallWithhold(c)
                             \/ CallStoreListener(c) \/ CallTransact(c) \/ CallReply(c)
         \/ Connection \/ UNCHANGED vars
  PROVE  CallInv(d)'
<1> USE DEF ClientTypeOK
<1>0. d \in Calls /\ Plan(d).mode = "listener" /\ scenario' = scenario
  BY SameScenario DEF Pending
<1>1. ASSUME NEW c \in Calls, \/ CallBegin(c) \/ CallGetProxy(c) \/ CallWithhold(c)
                              \/ CallStoreListener(c) \/ CallTransact(c) \/ CallReply(c)
      PROVE  UNCHANGED <<store, loop, told, running, won, outcome>>
  BY <1>1, Zenon DEF CallBegin, CallGetProxy, CallWithhold, CallStoreListener, CallTransact, CallReply, dataVars,
     Begin, GetProxy, Withhold, StoreListener, Transact, Reply, service
<1>2. ASSUME NEW c \in Calls, \/ CallBegin(c) \/ CallGetProxy(c) \/ CallWithhold(c)
                              \/ CallStoreListener(c) \/ CallTransact(c)
      PROVE  Advances(d)
  <2>1. pc[c] \notin Reached
    BY <1>2 DEF CallBegin, CallGetProxy, CallWithhold, CallStoreListener, CallTransact,
       Begin, GetProxy, Withhold, StoreListener, Transact, Reached
  <2>2. d # c => pc'[d] = pc[d] /\ via'[d] = via[d]
    BY <1>0, <1>2 DEF CallBegin, CallGetProxy, CallWithhold, CallStoreListener, CallTransact,
       Begin, GetProxy, Withhold, StoreListener, Transact, Goto
  <2> QED
    BY <2>1, <2>2 DEF Advances
<1>3. ASSUME NEW c \in Calls, CallReply(c) PROVE Advances(d)
  <2>1. via' = via /\ pc[c] = "served" /\ pc' = [pc EXCEPT ![c] = "returned"]
    BY <1>3 DEF CallReply, Reply, Goto
  <2> QED
    BY <1>0, <2>1 DEF Advances
<1>4. ASSUME NEW c \in Calls, EndAtOnce(c)
      PROVE  UNCHANGED <<store, loop, told, running, won>> /\ outcome'[d] = outcome[d] /\ Advances(d)
  <2>1. c # d
    BY <1>0, <1>4 DEF EndAtOnce
  <2> QED
    BY <1>0, <1>4, <2>1 DEF EndAtOnce, Give, Shapes, clientVars, Advances
<1>5. CASE Connection \/ UNCHANGED vars
  <2>1. UNCHANGED <<store, loop, told, running, won, outcome, pc, via>>
    BY <1>5, Zenon DEF Connection, vars, dataVars, clientVars, SamgrNotices, ServiceRestart, OnRemoteSaDied, service
  <2>2. Advances(d)
    BY <2>1 DEF Advances
  <2> QED
    BY <1>0, <2>1, <2>2, CallKept, SameStoreKept
<1>6. ASSUME UNCHANGED <<store, loop, told, running, won>>, outcome'[d] = outcome[d], Advances(d)
      PROVE  CallInv(d)'
  BY <1>0, <1>6, CallKept, SameStoreKept
<1> QED
  BY <1>1, <1>2, <1>3, <1>4, <1>5, <1>6

\* The app's answer: the listeners wait on,
LEMMA AppLists ==
  ASSUME HasFields(store), AppAnswers
  PROVE  store'.unlocks = store.unlocks /\ store'.locks = store.locks
<1> DEFINE taken == [store EXCEPT !.toApp = Tail(@)]
<1>0. KeepsLists(store, taken)
  BY UpdateKeeps DEF StoreFields
<1>1. HasFields(taken) /\ taken.unlocks = store.unlocks /\ taken.locks = store.locks
  BY <1>0 DEF KeepsLists
<1>2. \/ store' = taken
      \/ \E event, answer : store' = Service!SendScreenLockEvent(App, taken, event, answer).store
  BY Zenon DEF AppAnswers
<1> HIDE DEF taken
<1>3. ASSUME NEW event, NEW answer
      PROVE  LET t == Service!SendScreenLockEvent(App, taken, event, answer).store
             IN t.unlocks = taken.unlocks /\ t.locks = taken.locks
  <2> DEFINE r == Service!SendScreenLockEvent(App, taken, event, answer)
  <2>1. \/ r.store = taken
        \/ Reported(taken, r.store, "unlock", answer, App.user)
        \/ Reported(taken, r.store, "lock", answer, App.user)
    BY <1>1, SendEffect, Zenon
  <2> HIDE DEF r
  <2>2. r.store.unlocks = taken.unlocks /\ r.store.locks = taken.locks
    BY <2>1, Zenon DEF Reported
  <2> QED
    BY <2>2 DEF r
<1> QED
  BY <1>1, <1>2, <1>3

\* and the calls go on as before.
LEMMA AppAnswersKeeps ==
  ASSUME scenario \in Scenarios, Shapes, QueuesInv, AppAnswers, NEW d \in Pending, CallInv(d)
  PROVE  CallInv(d)' /\ store'.unlocks = store.unlocks /\ store'.locks = store.locks
<1>0. d \in Calls /\ scenario' = scenario /\ HasFields(store)
  BY PendingIs DEF AppAnswers, QueuesInv, Waiters
<1>1. store'.unlocks = store.unlocks /\ store'.locks = store.locks
  BY <1>0, AppLists
<1>2. SameLists(d)
  BY <1>1 DEF SameLists, Unlocking, Locking
<1>3. UNCHANGED <<running, won, pc, via, loop, outcome>>
  BY Zenon DEF AppAnswers, clientVars
<1>4. told[d] \subseteq told'[d]
  BY <1>0 DEF AppAnswers, Shapes
<1> QED
  BY <1>0, <1>1, <1>2, <1>3, <1>4, CallKept DEF Thins, Advances

\* The service dies: what it had not answered is cut off.
LEMMA DiesKeeps ==
  ASSUME ClientInv, Shapes, Dies, NEW d \in Calls, CallInv(d)
  PROVE  CallInv(d)'
<1>1. UNCHANGED <<scenario, store, loop, outcome, told, via>> /\ running' = 0 /\ running # 0
  BY Zenon DEF Dies, ServiceDies
<1>2. /\ pc'[d] = IF pc[d] \in {"sent", "served"} THEN "returned" ELSE pc[d]
      /\ won'[d] = (won[d] /\ pc[d] \notin {"sent", "served"})
  BY DEF Dies, ServiceDies
<1>3. Ask(d)' = Ask(d) /\ pc[d] \in Places
  BY <1>1 DEF Ask, ClientInv, ClientTypeOK
<1>4. pc[d] = "served" => via[d] # 0
  BY DEF ClientInv, Underway
<1>5. Outlived(d) => Outlived(d)'
  BY <1>1, <1>2 DEF Outlived
<1>6. pc[d] \in Reached => pc'[d] \in Reached
  BY <1>2 DEF Reached
<1>7. HeldInv(d)'
  BY <1>1, <1>3, <1>6 DEF CallInv, HeldInv
<1>8. EarlyInv(d)'
  <2> SUFFICES ASSUME Coming(loop, d) # {} \/ outcome[d] # <<>>
               PROVE  /\ pc'[d] \in Reached
                      /\ pc'[d] # "done" => told[d] # {} /\ (won'[d] \/ (pc'[d] = "returned" /\ Outlived(d)'))
    BY <1>1 DEF EarlyInv
  <2>1. /\ pc[d] \in Reached
        /\ pc[d] # "done" => told[d] # {} /\ (won[d] \/ (pc[d] = "returned" /\ Outlived(d)))
    BY DEF CallInv, EarlyInv
  <2>2. CASE pc[d] = "served"
    BY <1>1, <1>2, <1>4, <2>1, <2>2 DEF Outlived, Reached
  <2>3. CASE pc[d] # "served"
    BY <1>2, <1>5, <2>1, <2>3 DEF Reached
  <2> QED
    BY <2>2, <2>3
<1>9. Once(d)' = Once(d)
  BY <1>1 DEF Once
<1> QED
  BY <1>1, <1>5, <1>7, <1>8, <1>9 DEF CallInv

\* The service starts: it holds no listener.
LEMMA StartsKeeps ==
  ASSUME ClientInv, scenario \in Scenarios, QueuesInv, Starts, NEW d \in Pending, CallInv(d)
  PROVE  CallInv(d)' /\ store'.tasks = <<>>
<1>0. d \in Calls /\ HasFields(store)
  BY PendingIs DEF QueuesInv, Waiters
<1>1. UNCHANGED <<scenario, loop, outcome, told, via, pc, won>> /\ running = 0 /\ running' = born + 1
  BY Zenon DEF Starts, ServiceStarts
<1>2. store'.unlocks = <<>> /\ store'.locks = <<>> /\ store'.tasks = <<>>
  BY <1>0, StartEffect, Zenon DEF Starts
<1>3. Unlocking(store', d) = {} /\ Locking(store', d) = {}
  BY <1>2, EmptyList DEF Unlocking, Locking
<1>4. Outlived(d) => Outlived(d)'
  <2>1. via[d] \in Nat /\ born \in Nat /\ via[d] <= born
    BY <1>0 DEF ClientInv, ClientTypeOK, Known, Incarnations
  <2> QED
    BY <1>1, <2>1 DEF Outlived
<1>5. HeldInv(d)'
  BY <1>3 DEF HeldInv, Waits, Single
<1>6. EarlyInv(d)'
  BY <1>1, <1>4 DEF CallInv, EarlyInv
<1>7. Once(d)' = Once(d)
  BY <1>1 DEF Once
<1> QED
  BY <1>1, <1>2, <1>4, <1>5, <1>6, <1>7 DEF CallInv

\* The loop runs a callback.
LEMMA JsRunsKeeps ==
  ASSUME scenario \in Scenarios, Shapes, QueuesInv, GivenInv, NEW i \in DOMAIN loop, JsRuns(i),
         NEW d \in Pending, CallInv(d)
  PROVE  CallInv(d)'
<1>0. d \in Calls /\ Listed(loop) /\ Listed(outcome[d])
  BY PendingIs DEF QueuesInv, Queued, GivenInv
<1>1. /\ UNCHANGED <<scenario, store, told, running, via, pc, won>>
      /\ loop' = RemoveAt(loop, i)
      /\ outcome' = [outcome EXCEPT ![loop[i].call] = Append(@, Settled(loop[i]))]
  BY Zenon DEF JsRuns, clientVars, Give
<1>2. /\ Coming(loop, d) = {} => Coming(loop', d) = {}
      /\ Single(Coming(loop, d)) => Single(Coming(loop', d)) /\ (loop[i].call = d => Coming(loop', d) = {})
  BY <1>0, <1>1, RemoveComing
<1>3. CASE loop[i].call # d
  <2>1. outcome'[d] = outcome[d]
    BY <1>0, <1>1, <1>3 DEF Shapes
  <2>2. SameLists(d) /\ Thins(d) /\ Advances(d)
    BY <1>1, <1>2 DEF SameLists, Thins, Advances
  <2> QED
    BY <1>0, <1>1, <2>1, <2>2, CallKept
<1>4. CASE loop[i].call = d
  <2>1. Coming(loop, d) # {}
    BY <1>4 DEF Coming
  <2>2. outcome'[d] = Append(outcome[d], Settled(loop[i]))
    BY <1>0, <1>1, <1>4 DEF Shapes
  <2>3. Len(outcome'[d]) = Len(outcome[d]) + 1
    BY <1>0, <2>2, AppendList
  <2>4. Ask(d)' = Ask(d)
    BY <1>1 DEF Ask
  <2>5. HeldInv(d)'
    BY <1>1, <2>1, <2>4 DEF CallInv, HeldInv
  <2>6. EarlyInv(d)'
    BY <1>1, <2>1 DEF CallInv, EarlyInv, Outlived
  <2>7. Once(d) => Once(d)'
    <3> SUFFICES ASSUME Once(d) PROVE Once(d)'
      OBVIOUS
    <3>1. Coming(loop', d) = {}
      BY <1>2, <1>4 DEF Once
    <3>2. Len(outcome'[d]) <= 1
      BY <2>1, <2>3, EmptyList DEF Once
    <3> QED
      BY <3>1, <3>2 DEF Once, Single
  <2> QED
    BY <1>1, <2>5, <2>6, <2>7 DEF CallInv, Outlived
<1> QED
  BY <1>3, <1>4

\* A callback task calls those that are in its list.
LEMMA CalledComing ==
  ASSUME NEW heard, NEW entries, NEW d,
         entries = [i \in DOMAIN Service!Called(store) |->
                      [call |-> Service!Called(store)[i].listener, kind |-> "callback", event |-> heard[i]]]
  PROVE  Coming(entries, d) = IF Head(store.tasks).kind = "unlock" THEN Unlocking(store, d) ELSE Locking(store, d)
<1> DEFINE called == Service!Called(store)
<1>1. IF Head(store.tasks).kind = "unlock"
      THEN /\ DOMAIN called = DOMAIN store.unlocks
           /\ \A i \in DOMAIN store.unlocks : called[i].listener = store.unlocks[i].listener
      ELSE /\ DOMAIN called = DOMAIN store.locks
           /\ \A i \in DOMAIN store.locks : called[i].listener = store.locks[i]
  BY DEF Service!Called
<1> HIDE DEF called
<1>2. DOMAIN entries = DOMAIN called /\ \A i \in DOMAIN called : entries[i].call = called[i].listener
  BY DEF called
<1> QED
  BY <1>1, <1>2 DEF Coming, Unlocking, Locking

\* What a callback task adds to the loop, of each call.
LEMMA RunTaskComes ==
  ASSUME QueuesInv, scenario.binding # "native", RunTask, NEW d
  PROVE  LET heard == IF Head(store.tasks).kind = "unlock" THEN Unlocking(store, d) ELSE Locking(store, d)
         IN /\ heard = {} => Coming(loop', d) = Coming(loop, d)
            /\ Coming(loop, d) = {} /\ Single(heard) => Single(Coming(loop', d))
            /\ Coming(loop', d) # {} => Coming(loop, d) # {} \/ heard # {}
<1> DEFINE called == Service!Called(store)
           event(result_) == IF scenario.binding = "napi" THEN Napi!OnCallBack(result_) ELSE Ani!OnCallBack(result_)
           heard == [i \in DOMAIN called |-> event(called[i].result)]
           entries == [i \in DOMAIN called |->
                         [call |-> called[i].listener, kind |-> "callback", event |-> event(called[i].result)]]
<1>1. loop' = loop \o entries
  BY Zenon DEF RunTask
<1>2. entries = [i \in DOMAIN called |-> [call |-> called[i].listener, kind |-> "callback", event |-> heard[i]]]
  OBVIOUS
<1>3. Waiters(store) /\ Listed(loop)
  BY DEF QueuesInv, Queued
<1> HIDE DEF entries, heard
<1>4. Listed(entries)
  BY <1>2, <1>3, CalledQueued, Zenon DEF Queued
<1>5. Coming(entries, d) = IF Head(store.tasks).kind = "unlock" THEN Unlocking(store, d) ELSE Locking(store, d)
  BY <1>2, CalledComing
<1> QED
  BY <1>1, <1>3, <1>4, <1>5, ConcatComing

\* The listeners a task does not call are held as before.
LEMMA RunTaskLists ==
  ASSUME QueuesInv, scenario.binding # "native", RunTask, NEW d
  PROVE  /\ Listed(store.tasks) /\ store.tasks # <<>> /\ running # 0 /\ store'.tasks = Tail(store.tasks)
         /\ IF Head(store.tasks).kind = "unlock"
            THEN Unlocking(store', d) = {} /\ Locking(store', d) = Locking(store, d)
            ELSE Locking(store', d) = {} /\ Unlocking(store', d) = Unlocking(store, d)
<1>1. HasFields(store) /\ Listed(store.tasks)
  BY DEF QueuesInv, Waiters
<1>2. store.tasks # <<>> /\ running # 0 /\ store' = Service!AfterTask(store)
  BY Zenon DEF RunTask
<1>3. /\ store'.tasks = Tail(store.tasks)
      /\ IF Head(store.tasks).kind = "unlock" THEN store'.unlocks = <<>> /\ store'.locks = store.locks
         ELSE store'.locks = <<>> /\ store'.unlocks = store.unlocks
  BY <1>1, <1>2, TaskEffect
<1> QED
  BY <1>1, <1>2, <1>3, EmptyList DEF Unlocking, Locking

\* A task calls its listeners once, with what the app said.
LEMMA RunTaskKeeps ==
  ASSUME scenario \in Scenarios, QueuesInv, RunTask, NEW d \in Pending, CallInv(d), TasksTrue(d),
         Head(store.tasks).kind \in {"unlock", "lock"}
  PROVE  CallInv(d)'
<1> DEFINE heard == IF Head(store.tasks).kind = "unlock" THEN Unlocking(store, d) ELSE Locking(store, d)
<1>0. d \in Calls /\ scenario.binding # "native"
  BY PendingIs, Zenon
<1>1. UNCHANGED <<scenario, outcome, told, running, via, pc, won>>
  BY Zenon DEF RunTask, clientVars
<1>2. /\ heard = {} => Coming(loop', d) = Coming(loop, d)
      /\ Coming(loop, d) = {} /\ Single(heard) => Single(Coming(loop', d))
      /\ Coming(loop', d) # {} => Coming(loop, d) # {} \/ heard # {}
  BY <1>0, RunTaskComes
<1>3. /\ Listed(store.tasks) /\ store.tasks # <<>> /\ running # 0
      /\ IF Head(store.tasks).kind = "unlock"
         THEN Unlocking(store', d) = {} /\ Locking(store', d) = Locking(store, d)
         ELSE Locking(store', d) = {} /\ Unlocking(store', d) = Unlocking(store, d)
  BY <1>0, RunTaskLists
<1>4. CASE heard = {}
  <2>1. SameLists(d) /\ Thins(d) /\ Advances(d)
    BY <1>1, <1>2, <1>3, <1>4 DEF SameLists, Thins, Advances
  <2> QED
    BY <1>0, <1>1, <2>1, CallKept
<1>5. CASE heard # {}
  <2>1. Waits(store, d)
    BY <1>5 DEF Waits
  <2>2. /\ pc[d] \in Reached /\ won[d] /\ Coming(loop, d) = {} /\ outcome[d] = <<>>
        /\ Single(Unlocking(store, d)) /\ Single(Locking(store, d))
        /\ IF Ask(d).name = "lock" THEN Unlocking(store, d) = {} ELSE Locking(store, d) = {}
    BY <1>3, <2>1 DEF CallInv, HeldInv
  <2>3. (Head(store.tasks).kind = "lock") = (Ask(d).name = "lock")
    BY <1>5, <2>2
  <2>4. told[d] # {}
    <3>1. 1 \in DOMAIN store.tasks /\ Head(store.tasks) = store.tasks[1]
      BY <1>3, TailList, ListDomain
    <3> QED
      BY <2>1, <2>3, <3>1 DEF TasksTrue, Truthful
  <2>5. Unlocking(store', d) = {} /\ Locking(store', d) = {}
    BY <1>3, <1>5, <2>2
  <2>6. HeldInv(d)'
    BY <2>5 DEF HeldInv, Waits, Single
  <2>7. EarlyInv(d)'
    BY <1>1, <2>2, <2>4 DEF EarlyInv
  <2>8. Single(Coming(loop', d))
    BY <1>2, <2>2
  <2>9. Once(d)'
    BY <1>1, <2>2, <2>8, EmptyList DEF Once
  <2> QED
    BY <2>6, <2>7, <2>9 DEF CallInv
<1> QED
  BY <1>4, <1>5

\* The worker of a request posts nothing when it was accepted, and one refusal
\* when it was not; of another call, nothing.
LEMMA PostedComing ==
  ASSUME NEW c \in Calls, Plan(c).mode \in {"async", "listener"}, scenario.binding \in {"napi", "ani"}, NEW d
  PROVE  /\ Listed(Posted(c)) /\ Single(Coming(Posted(c), d)) /\ (d # c => Coming(Posted(c), d) = {})
         /\ Plan(c).mode = "listener" /\ result[c].code = E_SCREENLOCK.OK => Posted(c) = <<>>
<1>1. CASE Plan(c).mode = "async"
  <2>1. Posted(c) = <<Completion(c)>> /\ Completion(c).call = c
    BY <1>1 DEF Posted, Completion
  <2> QED
    BY <1>1, <2>1, SingleList, SingleComing
<1>2. CASE Plan(c).mode = "listener"
  <2> DEFINE code == result[c].code
             answers == IF scenario.binding = "napi" THEN Napi!AsyncCallFunc(code) ELSE Ani!ScreenLockRequest(code)
  <2>1. Posted(c) = Callbacks(c, answers)
    BY <1>2 DEF Posted
  <2>2. IF code = E_SCREENLOCK.OK THEN answers = <<>> ELSE \E event : answers = <<event>>
    <3>1. CASE code = E_SCREENLOCK.OK
      BY <3>1, BindingErrors DEF Napi!AsyncCallFunc, Ani!ScreenLockRequest
    <3>2. CASE code # E_SCREENLOCK.OK
      BY <3>2, BindingErrors, Zenon DEF Napi!AsyncCallFunc, Ani!ScreenLockRequest
    <3> QED
      BY <3>1, <3>2
  <2> HIDE DEF answers, code
  <2>3. CASE code = E_SCREENLOCK.OK
    <3>1. answers = <<>>
      BY <2>2, <2>3
    <3>2. Posted(c) = <<>>
      BY <2>1, <3>1, EmptyList DEF Callbacks
    <3> QED
      BY <3>2, EmptyList, NothingComing DEF Single
  <2>4. CASE code # E_SCREENLOCK.OK
    <3>1. PICK event : answers = <<event>>
      BY <2>2, <2>4
    <3>2. Posted(c) = <<[call |-> c, kind |-> "callback", event |-> event]>>
      BY <2>1, <3>1, SingleList DEF Callbacks
    <3> QED
      BY <2>4, <3>2, SingleList, SingleComing DEF code
  <2> QED
    BY <2>3, <2>4
<1> QED
  BY <1>1, <1>2

\* The end of a call.
LEMMA FinishKeepsCalls ==
  ASSUME ClientTypeOK, scenario \in Scenarios, Shapes, ReturnInv, QueuesInv, NEW c \in Calls, CallFinish(c),
         NEW d \in Pending, CallInv(d)
  PROVE  CallInv(d)'
<1>0. d \in Calls /\ scenario.binding \in {"napi", "ani"} /\ Plan(d).mode = "listener" /\ Listed(loop)
  BY PendingIs DEF QueuesInv, Queued
<1>1. UNCHANGED <<scenario, store, result, told, running, via, won>>
  BY Zenon DEF CallFinish, Finish, service
<1>2. pc[c] = "returned" /\ pc' = [pc EXCEPT ![c] = "done"]
  BY Zenon DEF CallFinish, Finish, Goto
<1>3. pc'[d] = IF d = c THEN "done" ELSE pc[d]
  BY <1>0, <1>2 DEF ClientTypeOK
<1>4. SameLists(d) /\ Advances(d)
  BY <1>1, <1>2, <1>3 DEF SameLists, Advances
<1>5. CASE Plan(c).mode = "sync"
  <2>1. c # d /\ loop' = loop /\ Give(c, Returns(c))
    BY <1>0, <1>5 DEF CallFinish
  <2>2. outcome'[d] = outcome[d]
    BY <1>0, <2>1 DEF Give, Shapes
  <2> QED
    BY <1>0, <1>1, <1>4, <2>1, <2>2, CallKept DEF Thins
<1>6. CASE Plan(c).mode # "sync"
  <2>1. loop' = loop \o Posted(c) /\ outcome' = outcome
    BY <1>6, Zenon DEF CallFinish
  <2>2. Makes(c)
    BY <1>2 DEF ReturnInv, Carried
  <2>3. Plan(c).mode \in {"async", "listener"}
    BY <1>6, <2>2, PlanModes
  <2>4. /\ Listed(Posted(c)) /\ Single(Coming(Posted(c), d)) /\ (d # c => Coming(Posted(c), d) = {})
        /\ Plan(c).mode = "listener" /\ result[c].code = E_SCREENLOCK.OK => Posted(c) = <<>>
    BY <1>0, <2>3, PostedComing
  <2>5. /\ Coming(Posted(c), d) = {} => Coming(loop', d) = Coming(loop, d)
        /\ Coming(loop, d) = {} => Single(Coming(loop', d))
    BY <1>0, <2>1, <2>4, ConcatComing
  <2>6. CASE Coming(Posted(c), d) = {}
    BY <1>0, <1>1, <1>4, <2>1, <2>5, <2>6, CallKept DEF Thins
  <2>7. CASE Coming(Posted(c), d) # {}
    <3>1. c = d /\ result[d].code # E_SCREENLOCK.OK
      BY <1>0, <2>4, <2>7, NothingComing
    <3>2. ~won[d]
      BY <1>0, <1>2, <3>1 DEF ReturnInv, ResultInv
    <3>3. pc[d] = "returned" /\ pc'[d] = "done"
      BY <1>2, <1>3, <3>1
    <3>4. Ask(d)' = Ask(d)
      BY <1>1 DEF Ask
    <3>5. HeldInv(d)'
      BY <1>1, <3>2, <3>3, <3>4 DEF CallInv, HeldInv, Reached
    <3>6. EarlyInv(d)'
      BY <3>3 DEF EarlyInv, Reached
    <3>7. Coming(loop, d) # {} \/ outcome[d] # <<>> => Outlived(d) /\ told[d] # {}
      BY <3>2, <3>3 DEF CallInv, EarlyInv
    <3>8. Coming(loop, d) = {} /\ outcome[d] = <<>> => Once(d)'
      BY <2>1, <2>5, EmptyList DEF Once
    <3> QED
      BY <1>1, <3>5, <3>6, <3>7, <3>8 DEF CallInv, Outlived
  <2> QED
    BY <2>6, <2>7
<1> QED
  BY <1>5, <1>6

\* What a call of a binding asks for.
LEMMA JsAsks ==
  ASSUME scenario \in Scenarios, scenario.binding # "native", NEW c \in Calls, Makes(c)
  PROVE  Ask(c).name \in JsFunctions
<1>1. WellAsked(c)
  BY IsWellAsked
<1> QED
  BY <1>1 DEF WellAsked

\* What a call does to the lists of listeners.
LEMMA HandleLists ==
  ASSUME scenario \in Scenarios, Carried, QueuesInv, scenario.binding # "native", NEW c \in Calls, CallHandle(c),
         NEW d
  PROVE  /\ d # c => SameLists(d)
         /\ \/ SameLists(c)
            \/ /\ Decides(c).code = E_SCREENLOCK.OK
               /\ \/ /\ Ask(c).name # "lock" /\ Locking(store', c) = Locking(store, c)
                     /\ Unlocking(store, c) = {} => Single(Unlocking(store', c))
                  \/ /\ Ask(c).name = "lock" /\ Unlocking(store', c) = Unlocking(store, c)
                     /\ Locking(store, c) = {} => Single(Locking(store', c))
<1>1. Makes(c) /\ store' = Decides(c).store
  BY HandledAsMeant
<1>2. Ask(c).name \in JsFunctions
  BY <1>1, JsAsks
<1>3. Waiters(store) /\ HasFields(store)
  BY DEF QueuesInv, Waiters
<1>4. ASSUME store'.unlocks = store.unlocks, store'.locks = store.locks
      PROVE  SameLists(d) /\ SameLists(c)
  BY <1>4 DEF SameLists, Unlocking, Locking
<1>5. CASE KeepsLists(store, store')
  BY <1>4, <1>5 DEF KeepsLists
<1>6. CASE Reported(store, store', "unlock", Arg(c, 2), scenario.caller.user)
        \/ Reported(store, store', "lock", Arg(c, 2), scenario.caller.user)
  BY <1>4, <1>6, Zenon DEF Reported
<1>7. CASE /\ Ask(c).name \in {"unlock", "unlockScreen"} /\ Decides(c).code = E_SCREENLOCK.OK
           /\ JoinsUnlocks(store, store', c, scenario.caller.user)
  BY <1>3, <1>7, JoinsOnce DEF SameLists
<1>8. CASE Ask(c).name = "lock" /\ Decides(c).code = E_SCREENLOCK.OK /\ JoinsLocks(store, store', c)
  BY <1>3, <1>8, JoinsOnce DEF SameLists
<1> QED
  BY <1>1, <1>2, <1>3, <1>5, <1>6, <1>7, <1>8, DecidesEffect, Zenon

\* A request the service accepts is won.
LEMMA HandleWins ==
  ASSUME ClientTypeOK, scenario \in Scenarios, Shapes, ReturnInv', NEW c \in Pending, CallHandle(c),
         Decides(c).code = E_SCREENLOCK.OK
  PROVE  won'[c]
<1>1. c \in Calls /\ Plan(c).mode = "listener" /\ scenario.binding # "native" /\ scenario' = scenario
  BY PendingIs, Zenon DEF CallHandle
<1>2. direct'[c] = [code |-> E_SCREENLOCK.OK, value |-> Decides(c).value]
  <2>1. direct' = [direct EXCEPT ![c] = [code |-> Decides(c).code, value |-> Decides(c).value]]
    BY Zenon DEF CallHandle
  <2> QED
    BY <1>1, <2>1 DEF Shapes
<1>3. direct'[c] # Unserved
  BY <1>2, CodesDiffer DEF Unserved
<1>4. Plan(c)' = Plan(c)
  BY <1>1, SamePlans
<1>5. pc'[c] = "served"
  BY <1>1 DEF CallHandle, Handle, Goto, ClientTypeOK
<1>6. ResultInv(c)'
  BY <1>1 DEF ReturnInv
<1>7. Agrees(c)' /\ (won'[c] <=> result'[c].code = E_SCREENLOCK.OK)
  BY <1>1, <1>4, <1>5, <1>6 DEF ResultInv
<1>8. result'[c].code = direct'[c].code
  BY <1>3, <1>7 DEF Agrees
<1> QED
  BY <1>2, <1>7, <1>8

\* A call that is handled is held when it was accepted, and never twice.
LEMMA HandleKeepsCalls ==
  ASSUME ClientTypeOK, scenario \in Scenarios, ReturnInv, ReturnInv', QueuesInv, NEW c \in Calls, CallHandle(c),
         NEW d \in Pending, CallInv(d)
  PROVE  CallInv(d)'
<1>0. d \in Calls /\ scenario.binding # "native" /\ Carried /\ Shapes
  BY PendingIs, Zenon DEF ReturnInv
<1>1. UNCHANGED <<scenario, loop, outcome, running, via>>
  BY Zenon DEF CallHandle, Handle, service
<1>2. pc[c] = "sent" /\ pc' = [pc EXCEPT ![c] = "served"] /\ \E accepts : won' = [won EXCEPT ![c] = accepts]
  BY Zenon DEF CallHandle, Handle, Goto
<1>3. pc'[c] = "served" /\ (d # c => pc'[d] = pc[d] /\ won'[d] = won[d])
  BY <1>0, <1>2 DEF ClientTypeOK
<1>4. d # c => told[d] \subseteq told'[d]
  BY <1>0 DEF CallHandle
<1>5. CASE d # c
  <2>1. SameLists(d)
    BY <1>0, <1>5, HandleLists
  <2>2. Thins(d) /\ Advances(d)
    BY <1>1, <1>3, <1>5 DEF Thins, Advances
  <2> QED
    BY <1>0, <1>1, <1>3, <1>4, <1>5, <2>1, <2>2, CallKept
<1>6. CASE d = c
  <2>1. /\ ~Waits(store, c) /\ Unlocking(store, c) = {} /\ Locking(store, c) = {}
        /\ Coming(loop, c) = {} /\ outcome[c] = <<>>
    BY <1>2, <1>6, UnreachedIs DEF Reached
  <2>2. /\ Coming(loop, c)' = {} /\ outcome'[c] = <<>> /\ Ask(c)' = Ask(c) /\ pc'[c] \in Reached
    BY <1>1, <1>3, <2>1 DEF Ask, Coming, Reached
  <2>3. EarlyInv(c)' /\ Once(c)'
    BY <2>2, EmptyList DEF EarlyInv, Once, Single
  <2>4. \/ SameLists(c)
        \/ /\ Decides(c).code = E_SCREENLOCK.OK
           /\ \/ /\ Ask(c).name # "lock" /\ Locking(store', c) = Locking(store, c)
                 /\ Unlocking(store, c) = {} => Single(Unlocking(store', c))
              \/ /\ Ask(c).name = "lock" /\ Unlocking(store', c) = Unlocking(store, c)
                 /\ Locking(store, c) = {} => Single(Locking(store', c))
    BY <1>0, HandleLists
  <2>5. ASSUME SameLists(c) PROVE HeldInv(c)'
    BY <2>1, <2>2, <2>5 DEF SameLists, HeldInv, Waits, Single
  <2>6. ASSUME Decides(c).code = E_SCREENLOCK.OK, ~SameLists(c) PROVE HeldInv(c)'
    <3>1. won'[c]
      BY <1>0, <1>6, <2>6, HandleWins
    <3>2. /\ Single(Unlocking(store', c)) /\ Single(Locking(store', c))
          /\ IF Ask(c).name = "lock" THEN Unlocking(store', c) = {} ELSE Locking(store', c) = {}
      BY <2>1, <2>4, <2>6 DEF Single
    <3> QED
      BY <2>2, <3>1, <3>2 DEF HeldInv
  <2>7. HeldInv(c)'
    BY <2>4, <2>5, <2>6
  <2> QED
    BY <1>6, <2>3, <2>7 DEF CallInv
<1> QED
  BY <1>5, <1>6

-----------------------------------------------------------------------------
(* What the tasks pass on.                                                 *)

\* Tasks that were there stay true.
LEMMA TasksKept ==
  ASSUME NEW d, TasksTrue(d), scenario' = scenario, told[d] \subseteq told'[d], Waits(store', d) => Waits(store, d),
         \A i \in DOMAIN store'.tasks : \E j \in DOMAIN store.tasks : store'.tasks[i] = store.tasks[j]
  PROVE  TasksTrue(d)'
<1>0. Ask(d)' = Ask(d)
  BY DEF Ask
<1> SUFFICES ASSUME NEW i \in DOMAIN store'.tasks, Waits(store', d),
                    (store'.tasks[i].kind = "lock") = (Ask(d).name = "lock")
             PROVE  told'[d] \cap Means(store'.tasks[i].result) # {}
  BY <1>0 DEF TasksTrue, Truthful
<1>1. PICK j \in DOMAIN store.tasks : store'.tasks[i] = store.tasks[j]
  OBVIOUS
<1>3. (store.tasks[j].kind = "lock") = (Ask(d).name = "lock")
  BY <1>1
<1>4. Truthful(d, store.tasks[j].result)
  BY <1>3 DEF TasksTrue
<1> QED
  BY <1>1, <1>4 DEF Truthful

\* A task that is added passes on what those who wait for it were told.
LEMMA TasksPass ==
  ASSUME NEW d, TasksTrue(d), scenario' = scenario, told[d] \subseteq told'[d], Waits(store', d) => Waits(store, d),
         Listed(store.tasks), NEW kindOf, NEW answer, NEW user, Passes(store, store', kindOf, answer, user),
         Waits(store', d) /\ (kindOf = "lock") = (Ask(d).name = "lock") => answer \in told'[d]
  PROVE  TasksTrue(d)'
<1>0. Ask(d)' = Ask(d)
  BY DEF Ask
<1> SUFFICES ASSUME NEW i \in DOMAIN store'.tasks, Waits(store', d),
                    (store'.tasks[i].kind = "lock") = (Ask(d).name = "lock")
             PROVE  told'[d] \cap Means(store'.tasks[i].result) # {}
  BY <1>0 DEF TasksTrue, Truthful
<1>2. PICK given : /\ given = answer \/ (given = SCREEN.SUCC /\ answer = SCREEN.ALREADY_UNLOCKED)
                   /\ store'.tasks = Append(store.tasks, [kind |-> kindOf, result |-> given, user |-> user])
  BY DEF Passes
<1> DEFINE n == Len(store.tasks)
<1>3. /\ n \in Nat /\ DOMAIN store.tasks = 1..n /\ DOMAIN store'.tasks = 1..(n + 1)
      /\ \A j \in 1..n : store'.tasks[j] = store.tasks[j]
      /\ store'.tasks[n + 1] = [kind |-> kindOf, result |-> given, user |-> user]
  BY <1>2, AppendList, ListDomain
<1> HIDE DEF n
<1>4. CASE i \in 1..n
  <2>1. Truthful(d, store.tasks[i].result)
    BY <1>3, <1>4 DEF TasksTrue
  <2> QED
    BY <1>3, <1>4, <2>1 DEF Truthful
<1>5. CASE i = n + 1
  <2>1. store'.tasks[i].kind = kindOf /\ store'.tasks[i].result = given
    BY <1>3, <1>5
  <2>2. answer \in told'[d]
    BY <2>1
  <2> QED
    BY <1>2, <2>1, <2>2 DEF Means
<1> QED
  BY <1>3, <1>4, <1>5

\* Of the listeners it holds, the service answers those the app's answer is for.
LEMMA WaitingIs ==
  ASSUME NEW d, HeldInv(d), Waits(store, d)
  PROVE  IF Ask(d).name = "lock" THEN d \in Waiting("lockScreen") ELSE d \in Waiting("unlockScreen")
<1>1. IF Ask(d).name = "lock" THEN Locking(store, d) # {} ELSE Unlocking(store, d) # {}
  BY DEF HeldInv, Waits
<1> QED
  BY <1>1 DEF Waiting, ToSet, Locking, Unlocking

\* What the app says makes a task, or none.
LEMMA AppPasses ==
  ASSUME Waiters(store), AppAnswers
  PROVE  \/ store'.tasks = store.tasks
         \/ \E event \in {"lockScreen", "unlockScreen"} : \E answer :
              /\ told' = [c \in Calls |-> told[c] \cup (IF c \in Waiting(event) THEN {answer} ELSE {})]
              /\ Passes(store, store', IF event = "lockScreen" THEN "lock" ELSE "unlock", answer, App.user)
<1> DEFINE taken == [store EXCEPT !.toApp = Tail(@)]
           event == Head(store.toApp)
<1>1. KeepsLists(store, taken)
  BY UpdateKeeps DEF StoreFields, Waiters
<1>2. \/ store' = taken
      \/ \E answer : /\ event \in {"lockScreen", "unlockScreen"}
                     /\ store' = Service!SendScreenLockEvent(App, taken, Answer(event), answer).store
                     /\ told' = [c \in Calls |-> told[c] \cup (IF c \in Waiting(event) THEN {answer} ELSE {})]
  <2>1. CASE event \in {"lockScreen", "unlockScreen"}
    BY <2>1 DEF AppAnswers
  <2>2. CASE event \notin {"lockScreen", "unlockScreen"}
    BY <2>2 DEF AppAnswers
  <2> QED
    BY <2>1, <2>2
<1> HIDE DEF taken, event
<1> SUFFICES ASSUME store'.tasks # store.tasks
             PROVE  \E answer :
                      /\ event \in {"lockScreen", "unlockScreen"}
                      /\ told' = [c \in Calls |-> told[c] \cup (IF c \in Waiting(event) THEN {answer} ELSE {})]
                      /\ Passes(store, store', IF event = "lockScreen" THEN "lock" ELSE "unlock", answer, App.user)
  OBVIOUS
<1>3. PICK answer :
        /\ event \in {"lockScreen", "unlockScreen"}
        /\ store' = Service!SendScreenLockEvent(App, taken, Answer(event), answer).store
        /\ told' = [c \in Calls |-> told[c] \cup (IF c \in Waiting(event) THEN {answer} ELSE {})]
  BY <1>1, <1>2, Zenon DEF KeepsLists
<1> DEFINE sent == Answer(event)
           r == Service!SendScreenLockEvent(App, taken, sent, answer)
<1>4. store' = r.store
  BY <1>3
<1> HIDE DEF sent
<1>5. \/ r.store = taken
      \/ sent = "unlockScreenResult" /\ Reported(taken, r.store, "unlock", answer, App.user)
      \/ sent = "lockScreenResult" /\ Reported(taken, r.store, "lock", answer, App.user)
  <2>1. HasFields(taken)
    BY <1>1 DEF KeepsLists
  <2> QED
    BY <2>1, SendEffect
<1> HIDE DEF r
<1>6. \/ sent = "unlockScreenResult" /\ Passes(store, store', "unlock", answer, App.user)
      \/ sent = "lockScreenResult" /\ Passes(store, store', "lock", answer, App.user)
  BY <1>1, <1>4, <1>5, Zenon DEF Reported, Passes, KeepsLists
<1>7. IF event = "lockScreen" THEN sent = "lockScreenResult" ELSE sent = "unlockScreenResult"
  BY DEF sent, Answer
<1> QED
  BY <1>3, <1>6, <1>7

\* What the app says to a request is passed on to those who wait for it.
LEMMA AppAnswersTrue ==
  ASSUME scenario \in Scenarios, Shapes, QueuesInv, AppAnswers, NEW d \in Pending, CallInv(d), TasksTrue(d)
  PROVE  TasksTrue(d)'
<1>0. d \in Calls /\ scenario' = scenario /\ Waiters(store)
  BY PendingIs DEF AppAnswers, QueuesInv
<1>1. told[d] \subseteq told'[d]
  BY <1>0 DEF AppAnswers, Shapes
<1>2. store'.unlocks = store.unlocks /\ store'.locks = store.locks
  BY AppAnswersKeeps
<1>3. Waits(store', d) => Waits(store, d)
  BY <1>2 DEF Waits, Unlocking, Locking
<1>4. CASE store'.tasks = store.tasks
  BY <1>0, <1>1, <1>3, <1>4, TasksKept
<1>5. ASSUME NEW event \in {"lockScreen", "unlockScreen"}, NEW answer, NEW kindOf,
             told' = [c \in Calls |-> told[c] \cup (IF c \in Waiting(event) THEN {answer} ELSE {})],
             kindOf = IF event = "lockScreen" THEN "lock" ELSE "unlock",
             Passes(store, store', kindOf, answer, App.user)
      PROVE  TasksTrue(d)'
  <2>1. d \in Waiting(event) => answer \in told'[d]
    BY <1>0, <1>5
  <2>2. Waits(store', d) /\ (kindOf = "lock") = (Ask(d).name = "lock") => answer \in told'[d]
    BY <1>3, <1>5, <2>1, WaitingIs DEF CallInv
  <2> QED
    BY <1>0, <1>1, <1>3, <1>5, <2>2, TasksPass DEF Waiters
<1> QED
  BY <1>0, <1>4, <1>5, AppPasses, Zenon

\* What a call adds to the tasks.
LEMMA HandleTasks ==
  ASSUME scenario \in Scenarios, Carried, QueuesInv, scenario.binding # "native", NEW c \in Calls, CallHandle(c)
  PROVE  \/ store'.tasks = store.tasks
         \/ /\ Ask(c).name = "sendScreenLockEvent" /\ Decides(c).code = E_SCREENLOCK.OK
            /\ store'.unlocks = store.unlocks /\ store'.locks = store.locks
            /\ \/ /\ Arg(c, 1) = "unlockScreenResult"
                  /\ Passes(store, store', "unlock", Arg(c, 2), scenario.caller.user)
               \/ /\ Arg(c, 1) = "lockScreenResult"
                  /\ Passes(store, store', "lock", Arg(c, 2), scenario.caller.user)
<1>1. Makes(c) /\ store' = Decides(c).store
  BY HandledAsMeant
<1>2. Ask(c).name \in JsFunctions
  BY <1>1, JsAsks
<1>3. HasFields(store)
  BY DEF QueuesInv, Waiters
<1>4. CASE KeepsLists(store, store')
  BY <1>4 DEF KeepsLists
<1>5. CASE JoinsUnlocks(store, store', c, scenario.caller.user)
  BY <1>5 DEF JoinsUnlocks
<1>6. CASE JoinsLocks(store, store', c)
  BY <1>6 DEF JoinsLocks
<1>7. CASE /\ Ask(c).name = "sendScreenLockEvent" /\ Decides(c).code = E_SCREENLOCK.OK
           /\ Arg(c, 1) = "unlockScreenResult"
           /\ Reported(store, store', "unlock", Arg(c, 2), scenario.caller.user)
  <2>1. /\ store'.unlocks = store.unlocks /\ store'.locks = store.locks
        /\ store'.tasks = store.tasks \/ Passes(store, store', "unlock", Arg(c, 2), scenario.caller.user)
    BY <1>7, Zenon DEF Reported
  <2> QED
    BY <1>7, <2>1, Zenon
<1>8. CASE /\ Ask(c).name = "sendScreenLockEvent" /\ Decides(c).code = E_SCREENLOCK.OK
           /\ Arg(c, 1) = "lockScreenResult"
           /\ Reported(store, store', "lock", Arg(c, 2), scenario.caller.user)
  <2>1. /\ store'.unlocks = store.unlocks /\ store'.locks = store.locks
        /\ store'.tasks = store.tasks \/ Passes(store, store', "lock", Arg(c, 2), scenario.caller.user)
    BY <1>8, Zenon DEF Reported
  <2> QED
    BY <1>8, <2>1, Zenon
<1> QED
  BY <1>1, <1>2, <1>3, <1>4, <1>5, <1>6, <1>7, <1>8, DecidesEffect, Zenon

\* What a caller reports is passed on to those who wait; a request that comes now
\* is told what is still to be passed on.
LEMMA HandleTrue ==
  ASSUME ClientTypeOK, scenario \in Scenarios, Carried, Shapes, QueuesInv, NEW c \in Calls, CallHandle(c),
         NEW d \in Pending, CallInv(d), TasksTrue(d)
  PROVE  TasksTrue(d)'
<1>0. d \in Calls /\ scenario.binding # "native" /\ Waiters(store)
  BY PendingIs, Zenon DEF QueuesInv
<1>1. scenario' = scenario /\ pc[c] = "sent"
  BY Zenon DEF CallHandle, Handle
<1>2. told' = [x \in Calls |-> IF x = c THEN Unpassed(c)
                               ELSE told[x] \cup (IF x \in Answered(c) THEN {Arg(c, 2)} ELSE {})]
  BY Zenon DEF CallHandle
<1>3. SameLists(d) => (Waits(store', d) <=> Waits(store, d))
  BY DEF SameLists, Waits
<1>4. \/ store'.tasks = store.tasks
      \/ /\ Ask(c).name = "sendScreenLockEvent" /\ Decides(c).code = E_SCREENLOCK.OK
         /\ store'.unlocks = store.unlocks /\ store'.locks = store.locks
         /\ \/ /\ Arg(c, 1) = "unlockScreenResult"
               /\ Passes(store, store', "unlock", Arg(c, 2), scenario.caller.user)
            \/ /\ Arg(c, 1) = "lockScreenResult"
               /\ Passes(store, store', "lock", Arg(c, 2), scenario.caller.user)
  BY <1>0, HandleTasks
<1>5. CASE d # c /\ store'.tasks = store.tasks
  <2>1. SameLists(d)
    BY <1>0, <1>5, HandleLists
  <2>2. told[d] \subseteq told'[d]
    BY <1>0, <1>2, <1>5
  <2> QED
    BY <1>1, <1>3, <1>5, <2>1, <2>2, TasksKept
<1>6. CASE d = c /\ store'.tasks = store.tasks
  <2>1. told'[d] = {task.result : task \in {x \in ToSet(store.tasks) : (x.kind = "lock") = (Ask(d).name = "lock")}}
    BY <1>0, <1>2, <1>6 DEF Unpassed
  <2>2. Ask(d)' = Ask(d)
    BY <1>1 DEF Ask
  <2>3. SUFFICES ASSUME NEW i \in DOMAIN store.tasks, (store.tasks[i].kind = "lock") = (Ask(d).name = "lock")
                 PROVE  told'[d] \cap Means(store.tasks[i].result) # {}
    BY <1>6, <2>2 DEF TasksTrue, Truthful
  <2>4. store.tasks[i].result \in told'[d]
    BY <2>1, <2>3 DEF ToSet
  <2> QED
    BY <2>4 DEF Means
<1>7. ASSUME store'.tasks # store.tasks PROVE TasksTrue(d)'
  <2>1. /\ Ask(c).name = "sendScreenLockEvent" /\ Decides(c).code = E_SCREENLOCK.OK
        /\ store'.unlocks = store.unlocks /\ store'.locks = store.locks
    BY <1>4, <1>7
  <2>2. SameLists(d)
    BY <2>1 DEF SameLists, Unlocking, Locking
  <2>3. CASE d = c
    <3>1. ~Waits(store', d)
      BY <1>1, <1>3, <2>2, <2>3, UnreachedIs DEF Reached
    <3> QED
      BY <3>1 DEF TasksTrue
  <2>4. CASE d # c
    <3>1. told[d] \subseteq told'[d] /\ (d \in Answered(c) => Arg(c, 2) \in told'[d])
      BY <1>0, <1>2, <2>4
    <3>2. /\ Arg(c, 1) = "unlockScreenResult" => Answered(c) = Waiting("unlockScreen")
          /\ Arg(c, 1) = "lockScreenResult" => Answered(c) = Waiting("lockScreen")
      BY <2>1 DEF Answered
    <3>3. ASSUME NEW kindOf, Passes(store, store', kindOf, Arg(c, 2), scenario.caller.user),
                 \/ kindOf = "unlock" /\ Arg(c, 1) = "unlockScreenResult"
                 \/ kindOf = "lock" /\ Arg(c, 1) = "lockScreenResult"
          PROVE  TasksTrue(d)'
      <4>1. Waits(store', d) /\ (kindOf = "lock") = (Ask(d).name = "lock") => Arg(c, 2) \in told'[d]
        BY <1>3, <2>2, <3>1, <3>2, <3>3, WaitingIs DEF CallInv
      <4> QED
        BY <1>0, <1>1, <1>3, <2>2, <3>1, <3>3, <4>1, TasksPass DEF Waiters
    <3> QED
      BY <1>4, <1>7, <3>3
  <2> QED
    BY <2>3, <2>4
<1> QED
  BY <1>5, <1>6, <1>7

\* What is left of a list was in it.
LEMMA TailComes ==
  ASSUME NEW s, Listed(s), s # <<>>
  PROVE  \A i \in DOMAIN Tail(s) : \E j \in DOMAIN s : Tail(s)[i] = s[j]
<1> DEFINE t == Tail(s)
<1>1. /\ Listed(t) /\ Len(t) = Len(s) - 1
      /\ \A i \in 1..(Len(s) - 1) : t[i] = s[i + 1]
  BY TailList
<1> HIDE DEF t
<1>2. Len(s) \in Nat /\ DOMAIN s = 1..Len(s) /\ DOMAIN t = 1..(Len(s) - 1)
  BY <1>1, ListDomain
<1>3. \A i \in DOMAIN t : i + 1 \in DOMAIN s /\ t[i] = s[i + 1]
  BY <1>1, <1>2
<1> QED
  BY <1>3 DEF t

\* A task that has run is no longer there.
LEMMA RunTaskTrue ==
  ASSUME scenario \in Scenarios, QueuesInv, RunTask, NEW d \in Pending, TasksTrue(d)
  PROVE  TasksTrue(d)'
<1>0. scenario.binding # "native"
  BY PendingIs, Zenon
<1>1. UNCHANGED <<scenario, told>>
  BY Zenon DEF RunTask
<1>2. /\ Listed(store.tasks) /\ store.tasks # <<>> /\ store'.tasks = Tail(store.tasks)
      /\ IF Head(store.tasks).kind = "unlock"
         THEN Unlocking(store', d) = {} /\ Locking(store', d) = Locking(store, d)
         ELSE Locking(store', d) = {} /\ Unlocking(store', d) = Unlocking(store, d)
  BY <1>0, RunTaskLists
<1>3. Waits(store', d) => Waits(store, d)
  BY <1>2 DEF Waits
<1>4. \A i \in DOMAIN store'.tasks : \E j \in DOMAIN store.tasks : store'.tasks[i] = store.tasks[j]
  BY <1>2, TailComes
<1> QED
  BY <1>1, <1>3, <1>4, TasksKept

\* The tasks after a step: those that were, fewer, or one more.
LEMMA TasksStep ==
  ASSUME scenario \in Scenarios, Carried, QueuesInv, scenario.binding # "native", [Next]_vars
  PROVE  \/ \A i \in DOMAIN store'.tasks : \E j \in DOMAIN store.tasks : store'.tasks[i] = store.tasks[j]
         \/ \E kindOf \in {"unlock", "lock"}, user \in {App.user, scenario.caller.user} :
              \E answer : Passes(store, store', kindOf, answer, user)
<1>0. Waiters(store) /\ HasFields(store)
  BY DEF QueuesInv, Waiters
<1>1. CASE store'.tasks = store.tasks
  BY <1>1
<1>2. CASE store'.tasks = <<>>
  BY <1>2, EmptyList
<1>3. CASE RunTask
  <2>1. Listed(store.tasks) /\ store.tasks # <<>> /\ store'.tasks = Tail(store.tasks)
    BY <1>3, RunTaskLists
  <2> QED
    BY <2>1, TailComes
<1>4. CASE AppAnswers
  BY <1>0, <1>1, <1>4, AppPasses
<1>5. ASSUME NEW c \in Calls, CallHandle(c)
      PROVE  \/ store'.tasks = store.tasks
             \/ \E kindOf \in {"unlock", "lock"}, user \in {App.user, scenario.caller.user} :
                  \E answer : Passes(store, store', kindOf, answer, user)
  BY <1>5, HandleTasks
<1>6. CASE Starts
  BY <1>0, <1>2, <1>6, StartEffect, Zenon DEF Starts
<1>7. CASE \/ \E c \in Calls : \/ EndAtOnce(c) \/ CallBegin(c) \/ CallGetProxy(c) \/ CallWithhold(c)
                               \/ CallStoreListener(c) \/ CallTransact(c) \/ CallReply(c) \/ CallFinish(c)
           \/ \E i \in DOMAIN loop : JsRuns(i)
           \/ Dies \/ Connection \/ UNCHANGED vars
  <2>1. store' = store
    BY <1>7, Zenon DEF EndAtOnce, CallBegin, CallGetProxy, CallWithhold, CallStoreListener, CallTransact, CallReply,
       CallFinish, JsRuns, Dies, Connection, vars, dataVars
  <2> QED
    BY <1>1, <2>1
<1> QED
  BY <1>1, <1>3, <1>4, <1>5, <1>6, <1>7, Zenon DEF Next

\* What is in a list after it grew was in it, or is what was added.
LEMMA AppendComes ==
  ASSUME NEW s, Listed(s), NEW entry
  PROVE  \A i \in DOMAIN Append(s, entry) : (\E j \in DOMAIN s : Append(s, entry)[i] = s[j]) \/ Append(s, entry)[i] = entry
<1> DEFINE t == Append(s, entry)
           n == Len(s)
<1>1. /\ Listed(t) /\ Len(t) = n + 1 /\ t[n + 1] = entry
      /\ \A j \in 1..n : t[j] = s[j]
  BY AppendList
<1> HIDE DEF t
<1>2. n \in Nat /\ DOMAIN s = 1..n /\ DOMAIN t = 1..(n + 1)
  BY <1>1, ListDomain
<1> HIDE DEF n
<1>3. \A i \in 1..(n + 1) : i \in 1..n \/ i = n + 1
  BY <1>2
<1>4. \A i \in DOMAIN t : (\E j \in DOMAIN s : t[i] = s[j]) \/ t[i] = entry
  BY <1>1, <1>2, <1>3
<1> QED
  BY <1>4 DEF t

\* A task answers a request to lock or to unlock.
LEMMA KindsStep ==
  ASSUME scenario \in Scenarios, Carried, QueuesInv, scenario.binding # "native", [Next]_vars,
         \A i \in DOMAIN store.tasks : store.tasks[i].kind \in {"unlock", "lock"}
  PROVE  \A i \in DOMAIN store'.tasks : store'.tasks[i].kind \in {"unlock", "lock"}
<1>1. Listed(store.tasks)
  BY DEF QueuesInv, Waiters
<1>2. ASSUME NEW kindOf \in {"unlock", "lock"}, NEW user, NEW answer, Passes(store, store', kindOf, answer, user)
      PROVE  \A i \in DOMAIN store'.tasks : store'.tasks[i].kind \in {"unlock", "lock"}
  <2>1. PICK entry : store'.tasks = Append(store.tasks, entry) /\ entry.kind = kindOf
    BY <1>2 DEF Passes
  <2>2. \A i \in DOMAIN store'.tasks : (\E j \in DOMAIN store.tasks : store'.tasks[i] = store.tasks[j])
                                      \/ store'.tasks[i] = entry
    BY <1>1, <2>1, AppendComes
  <2> QED
    BY <1>2, <2>1, <2>2
<1> QED
  BY <1>2, TasksStep

-----------------------------------------------------------------------------
(* Calls that are given what the library returned.                         *)

\* Nothing is queued of a call that is not done, unless it is a request.
LEMMA NothingQueued ==
  ASSUME Queued(loop, Finished), NEW c \in Calls, c \notin Pending, pc[c] # "done" \/ Plan(c).mode # "async"
  PROVE  Coming(loop, c) = {}
BY DEF Queued, Completes, Finished, Coming

\* Such a call has one outcome.
LEMMA OnceStep ==
  ASSUME ClientTypeOK, scenario \in Scenarios, Shapes, Carried, QueuesInv, GivenInv, [Next]_vars,
         NEW c \in Calls, c \notin Pending, Once(c)
  PROVE  Once(c)'
<1>0. Listed(loop) /\ Listed(outcome[c]) /\ Queued(loop, Finished)
  BY DEF QueuesInv, Queued, GivenInv
<1>1. ASSUME Coming(loop', c) = Coming(loop, c), outcome'[c] = outcome[c]
      PROVE  Once(c)'
  BY <1>1 DEF Once
<1>2. ASSUME Coming(loop, c) = {}, outcome[c] = <<>>, loop' = loop, NEW given, outcome'[c] = Append(outcome[c], given)
      PROVE  Once(c)'
  <2>1. Len(outcome'[c]) <= 1
    BY <1>0, <1>2, AppendList, EmptyList
  <2> QED
    BY <1>2, <2>1 DEF Once, Single
<1>3. ASSUME NEW x \in Calls, EndAtOnce(x) PROVE Once(c)'
  <2>1. loop' = loop /\ outcome' = [outcome EXCEPT ![x] = Append(@, Plan(x).outcome)]
    BY <1>3 DEF EndAtOnce, Give
  <2>2. CASE x # c
    BY <1>1, <2>1, <2>2 DEF Shapes
  <2>3. CASE x = c
    <3>1. Coming(loop, c) = {} /\ outcome[c] = <<>>
      BY <1>0, <1>3, <2>3, NothingQueued DEF EndAtOnce
    <3>2. outcome'[c] = Append(outcome[c], Plan(x).outcome)
      BY <2>1, <2>3 DEF Shapes
    <3> QED
      BY <1>2, <2>1, <3>1, <3>2
  <2> QED
    BY <2>2, <2>3
<1>4. ASSUME NEW x \in Calls, CallFinish(x) PROVE Once(c)'
  <2>1. pc[x] = "returned" /\ Makes(x)
    BY <1>4 DEF CallFinish, Finish, Carried
  <2>2. CASE Plan(x).mode = "sync"
    <3>1. loop' = loop /\ outcome' = [outcome EXCEPT ![x] = Append(@, Returns(x))]
      BY <1>4, <2>2 DEF CallFinish, Give
    <3>2. CASE x # c
      BY <1>1, <3>1, <3>2 DEF Shapes
    <3>3. CASE x = c
      <4>1. Coming(loop, c) = {} /\ outcome[c] = <<>>
        BY <1>0, <2>1, <2>2, <3>3, NothingQueued DEF GivenInv
      <4>2. outcome'[c] = Append(outcome[c], Returns(x))
        BY <3>1, <3>3 DEF Shapes
      <4> QED
        BY <1>2, <3>1, <4>1, <4>2
    <3> QED
      BY <3>2, <3>3
  <2>3. CASE Plan(x).mode # "sync"
    <3>1. Plan(x).mode \in {"async", "listener"} /\ scenario.binding \in {"napi", "ani"}
      BY <2>1, <2>3, PlanModes, CallPathAssumption
    <3>2. loop' = loop \o Posted(x) /\ outcome' = outcome
      BY <1>4, <2>3, Zenon DEF CallFinish
    <3>3. Listed(Posted(x)) /\ Single(Coming(Posted(x), c)) /\ (c # x => Coming(Posted(x), c) = {})
      BY <3>1, PostedComing
    <3>4. /\ Coming(Posted(x), c) = {} => Coming(loop', c) = Coming(loop, c)
          /\ Coming(loop, c) = {} => Single(Coming(loop', c))
      BY <1>0, <3>2, <3>3, ConcatComing
    <3>5. CASE x # c
      BY <1>1, <3>2, <3>3, <3>4, <3>5
    <3>6. CASE x = c
      <4>1. Plan(c).mode = "async" /\ pc[c] # "done"
        BY <2>1, <3>1, <3>6 DEF Pending
      <4>2. Coming(loop, c) = {} /\ outcome[c] = <<>>
        BY <1>0, <4>1, NothingQueued DEF GivenInv
      <4>3. Single(Coming(loop', c)) /\ outcome'[c] = <<>>
        BY <3>2, <3>4, <4>2
      <4> QED
        BY <4>3, EmptyList DEF Once
    <3> QED
      BY <3>5, <3>6
  <2> QED
    BY <2>2, <2>3
<1>5. ASSUME NEW i \in DOMAIN loop, JsRuns(i) PROVE Once(c)'
  <2>1. loop' = RemoveAt(loop, i) /\ outcome' = [outcome EXCEPT ![loop[i].call] = Append(@, Settled(loop[i]))]
    BY <1>5, Zenon DEF JsRuns, Give
  <2>2. /\ Coming(loop, c) = {} => Coming(loop', c) = {}
        /\ Single(Coming(loop, c)) => Single(Coming(loop', c)) /\ (loop[i].call = c => Coming(loop', c) = {})
    BY <1>0, <2>1, RemoveComing
  <2>3. CASE loop[i].call # c
    <3>1. outcome'[c] = outcome[c]
      BY <2>1, <2>3 DEF Shapes
    <3> QED
      BY <2>2, <3>1 DEF Once
  <2>4. CASE loop[i].call = c
    <3>1. i \in Coming(loop, c)
      BY <2>4 DEF Coming
    <3>2. outcome[c] = <<>> /\ Coming(loop', c) = {}
      BY <2>2, <2>4, <3>1 DEF Once
    <3>3. outcome'[c] = Append(outcome[c], Settled(loop[i]))
      BY <2>1, <2>4 DEF Shapes
    <3>4. Len(outcome'[c]) <= 1
      BY <1>0, <3>2, <3>3, AppendList, EmptyList
    <3> QED
      BY <3>2, <3>4 DEF Once, Single
  <2> QED
    BY <2>3, <2>4
<1>6. ASSUME RunTask PROVE Once(c)'
  <2>1. outcome' = outcome
    BY <1>6, Zenon DEF RunTask
  <2>2. CASE scenario.binding = "native"
    <3>1. loop' = loop
      BY <1>6, <2>2 DEF RunTask
    <3> QED
      BY <1>1, <2>1, <3>1
  <2>3. CASE scenario.binding # "native"
    <3>1. Unlocking(store, c) = {} /\ Locking(store, c) = {}
      BY <2>3 DEF QueuesInv, Waiters, Unlocking, Locking
    <3>2. Coming(loop', c) = Coming(loop, c)
      BY <1>6, <2>3, <3>1, RunTaskComes
    <3> QED
      BY <1>1, <2>1, <3>2
  <2> QED
    BY <2>2, <2>3
<1>7. CASE \/ \E x \in Calls : \/ CallBegin(x) \/ CallGetProxy(x) \/ CallWithhold(x) \/ CallStoreListener(x)
                               \/ CallTransact(x) \/ CallHandle(x) \/ CallReply(x)
           \/ AppAnswers \/ Dies \/ Starts \/ Connection \/ UNCHANGED vars
  <2>1. loop' = loop /\ outcome' = outcome
    BY <1>7, Zenon DEF CallBegin, CallGetProxy, CallWithhold, CallStoreListener, CallTransact, CallHandle, CallReply,
       AppAnswers, Dies, Starts, Connection, vars, dataVars
  <2> QED
    BY <1>1, <2>1
<1> QED
  BY <1>3, <1>4, <1>5, <1>6, <1>7, Zenon DEF Next

-----------------------------------------------------------------------------
(* One outcome, step by step.                                              *)

\* A request keeps its invariant in every step.
LEMMA PendingStep ==
  ASSUME ClientInv, scenario \in Scenarios, ReturnInv, ReturnInv', QueuesInv, GivenInv, OnceInv, [Next]_vars,
         NEW d \in Pending
  PROVE  CallInv(d)' /\ TasksTrue(d)'
<1>0. /\ ClientTypeOK /\ Shapes /\ Carried /\ CallInv(d) /\ TasksTrue(d) /\ d \in Calls
      /\ scenario.binding # "native" /\ scenario' = scenario
  BY PendingIs, SameScenario, Zenon DEF ClientInv, ReturnInv, OnceInv
<1>1. ASSUME store' = store, told' = told PROVE TasksTrue(d)'
  BY <1>0, <1>1, TasksKept
<1>2. CASE \/ \E c \in Calls : \/ EndAtOnce(c) \/ CallBegin(c) \/ CallGetProxy(c) \/ CallWithhold(c)
                               \/ CallStoreListener(c) \/ CallTransact(c) \/ CallReply(c)
           \/ Connection \/ UNCHANGED vars
  <2>1. store' = store /\ told' = told
    BY <1>2, Zenon DEF EndAtOnce, CallBegin, CallGetProxy, CallWithhold, CallStoreListener, CallTransact, CallReply,
       Connection, vars, dataVars
  <2>2. CallInv(d)'
    BY <1>0, <1>2, QuietKeeps
  <2> QED
    BY <1>1, <2>1, <2>2
<1>3. ASSUME NEW c \in Calls, CallHandle(c) PROVE CallInv(d)' /\ TasksTrue(d)'
  BY <1>0, <1>3, HandleKeepsCalls, HandleTrue
<1>4. ASSUME NEW c \in Calls, CallFinish(c) PROVE CallInv(d)' /\ TasksTrue(d)'
  <2>1. store' = store /\ told' = told
    BY <1>4, Zenon DEF CallFinish
  <2> QED
    BY <1>0, <1>1, <1>4, <2>1, FinishKeepsCalls
<1>5. ASSUME NEW i \in DOMAIN loop, JsRuns(i) PROVE CallInv(d)' /\ TasksTrue(d)'
  <2>1. store' = store /\ told' = told
    BY <1>5, Zenon DEF JsRuns
  <2> QED
    BY <1>0, <1>1, <1>5, <2>1, JsRunsKeeps
<1>6. CASE RunTask
  <2>1. Listed(store.tasks) /\ store.tasks # <<>>
    BY <1>0, <1>6, RunTaskLists
  <2>2. 1 \in DOMAIN store.tasks /\ Head(store.tasks) = store.tasks[1]
    BY <2>1, TailList, ListDomain
  <2>3. Head(store.tasks).kind \in {"unlock", "lock"}
    BY <1>0, <2>2 DEF OnceInv
  <2> QED
    BY <1>0, <1>6, <2>3, RunTaskKeeps, RunTaskTrue
<1>7. CASE AppAnswers
  BY <1>0, <1>7, AppAnswersKeeps, AppAnswersTrue
<1>8. CASE Dies
  <2>1. store' = store /\ told' = told
    BY <1>8, Zenon DEF Dies
  <2> QED
    BY <1>0, <1>1, <1>8, <2>1, DiesKeeps
<1>9. CASE Starts
  <2>1. CallInv(d)' /\ store'.tasks = <<>>
    BY <1>0, <1>9, StartsKeeps
  <2> QED
    BY <2>1, EmptyList DEF TasksTrue
<1> QED
  BY <1>2, <1>3, <1>4, <1>5, <1>6, <1>7, <1>8, <1>9, Zenon DEF Next

\* So do the others.
LEMMA OnceInvStep ==
  ASSUME ClientInv, scenario \in Scenarios, ReturnInv, ReturnInv', QueuesInv, GivenInv, OnceInv, [Next]_vars
  PROVE  OnceInv'
<1>0. /\ ClientTypeOK /\ Shapes /\ Carried /\ scenario' = scenario /\ Pending' = Pending
  BY SameScenario, SamePending, Zenon DEF ClientInv, ReturnInv
<1>1. ASSUME NEW c \in Calls \ Pending PROVE Once(c)'
  BY <1>0, OnceStep DEF OnceInv
<1>2. ASSUME NEW c \in Pending PROVE CallInv(c)' /\ TasksTrue(c)'
  BY PendingStep
<1>3. scenario.binding # "native" => \A i \in DOMAIN store'.tasks : store'.tasks[i].kind \in {"unlock", "lock"}
  BY <1>0, KindsStep DEF OnceInv
<1> QED
  BY <1>0, <1>1, <1>2, <1>3 DEF OnceInv

\* At first no call has an outcome, and the service holds nothing.
LEMMA OnceInit ==
  ASSUME Init
  PROVE  OnceInv
<1>1. /\ scenario \in Scenarios /\ store = scenario.store /\ loop = <<>> /\ outcome = [c \in Calls |-> <<>>]
  BY Zenon DEF Init
<1>2. store.unlocks = <<>> /\ store.locks = <<>> /\ store.tasks = <<>>
  BY <1>1, CallPathAssumption
<1>3. ASSUME NEW c \in Calls PROVE CallInv(c) /\ TasksTrue(c) /\ Once(c)
  <2>1. Unlocking(store, c) = {} /\ Locking(store, c) = {} /\ Coming(loop, c) = {} /\ outcome[c] = <<>>
    BY <1>1, <1>2, EmptyList, NothingComing DEF Unlocking, Locking
  <2>2. ~Waits(store, c) /\ Once(c)
    BY <2>1, EmptyList DEF Waits, Once, Single
  <2> QED
    BY <2>1, <2>2 DEF CallInv, HeldInv, EarlyInv, TasksTrue, Single
<1> QED
  BY <1>2, <1>3, EmptyList DEF OnceInv, Pending

\* More than one outcome comes of a service that answered and died before it replied.
LEMMA OnceSettles ==
  ASSUME OnceInv
  PROVE  SettledOnce
<1> SUFFICES ASSUME NEW c \in Calls, Len(outcome[c]) > 1
             PROVE  via[c] # running /\ ~won[c] /\ told[c] # {}
  BY DEF SettledOnce
<1>1. ~Once(c)
  <2> SUFFICES ASSUME Len(outcome[c]) <= 1 PROVE FALSE
    BY DEF Once
  <2> QED
    OBVIOUS
<1>2. c \in Pending
  BY <1>1 DEF OnceInv
<1> QED
  BY <1>1, <1>2 DEF OnceInv, CallInv, Outlived

-----------------------------------------------------------------------------
(* The answers are true.                                                   *)

\* Who waits to be unlocked after a step: those who waited, fewer, or the caller too.
LEMMA UnlocksStep ==
  ASSUME scenario \in Scenarios, Carried, QueuesInv, scenario.binding # "native", [Next]_vars
  PROVE  \A i \in DOMAIN store'.unlocks : \/ \E j \in DOMAIN store.unlocks : store'.unlocks[i] = store.unlocks[j]
                                         \/ store'.unlocks[i].user = scenario.caller.user
<1>0. Waiters(store) /\ HasFields(store)
  BY DEF QueuesInv, Waiters
<1>1. CASE store'.unlocks = store.unlocks
  BY <1>1
<1>2. CASE store'.unlocks = <<>>
  BY <1>2, EmptyList
<1>3. CASE RunTask
  <2>1. store' = Service!AfterTask(store)
    BY <1>3, Zenon DEF RunTask
  <2>2. store'.unlocks = <<>> \/ store'.unlocks = store.unlocks
    BY <1>0, <2>1, TaskEffect
  <2> QED
    BY <1>1, <1>2, <2>2
<1>4. ASSUME AppAnswers PROVE store'.unlocks = store.unlocks
  BY <1>0, <1>4, AppLists
<1>5. ASSUME NEW c \in Calls, CallHandle(c)
      PROVE  \/ store'.unlocks = store.unlocks
             \/ \E entry : store'.unlocks = Append(store.unlocks, entry) /\ entry.user = scenario.caller.user
  <2>1. Makes(c) /\ store' = Decides(c).store
    BY <1>5, HandledAsMeant
  <2>2. Ask(c).name \in JsFunctions
    BY <2>1, JsAsks
  <2>3. \/ KeepsLists(store, store')
        \/ JoinsUnlocks(store, store', c, scenario.caller.user)
        \/ JoinsLocks(store, store', c)
        \/ \E kindOf : Reported(store, store', kindOf, Arg(c, 2), scenario.caller.user)
    BY <1>0, <2>1, <2>2, DecidesEffect, Zenon
  <2>4. \/ store'.unlocks = store.unlocks
        \/ JoinsUnlocks(store, store', c, scenario.caller.user)
    BY <2>3, Zenon DEF KeepsLists, JoinsLocks, Reported
  <2> QED
    BY <2>4 DEF JoinsUnlocks
<1>6. CASE \E entry : store'.unlocks = Append(store.unlocks, entry) /\ entry.user = scenario.caller.user
  BY <1>0, <1>6, AppendComes DEF Waiters
<1>7. CASE Starts
  BY <1>0, <1>2, <1>7, StartEffect, Zenon DEF Starts
<1>8. CASE \/ \E c \in Calls : \/ EndAtOnce(c) \/ CallBegin(c) \/ CallGetProxy(c) \/ CallWithhold(c)
                               \/ CallStoreListener(c) \/ CallTransact(c) \/ CallReply(c) \/ CallFinish(c)
           \/ \E i \in DOMAIN loop : JsRuns(i)
           \/ Dies \/ Connection \/ UNCHANGED vars
  <2>1. store' = store
    BY <1>8, Zenon DEF EndAtOnce, CallBegin, CallGetProxy, CallWithhold, CallStoreListener, CallTransact, CallReply,
       CallFinish, JsRuns, Dies, Connection, vars, dataVars
  <2> QED
    BY <1>1, <2>1
<1> QED
  BY <1>1, <1>3, <1>4, <1>5, <1>6, <1>7, <1>8, Zenon DEF Next

\* What a call was told it stays told, once it has an outcome or one is queued.
LEMMA ToldStays ==
  ASSUME scenario \in Scenarios, Shapes, OnceInv, [Next]_vars, NEW d \in Pending,
         Coming(loop, d) # {} \/ outcome[d] # <<>>
  PROVE  told[d] \subseteq told'[d]
<1>0. d \in Calls /\ CallInv(d)
  BY PendingIs DEF OnceInv
<1>1. ASSUME NEW c \in Calls, CallHandle(c) PROVE told[d] \subseteq told'[d]
  <2>1. d # c
    BY <1>1, UnreachedIs, <1>0 DEF CallHandle, Handle, Reached
  <2> QED
    BY <1>0, <1>1, <2>1 DEF CallHandle
<1>2. CASE AppAnswers
  BY <1>0, <1>2 DEF AppAnswers, Shapes
<1>3. CASE \/ \E c \in Calls : \/ EndAtOnce(c) \/ CallBegin(c) \/ CallGetProxy(c) \/ CallWithhold(c)
                               \/ CallStoreListener(c) \/ CallTransact(c) \/ CallReply(c) \/ CallFinish(c)
           \/ \E i \in DOMAIN loop : JsRuns(i)
           \/ RunTask \/ Dies \/ Starts \/ Connection \/ UNCHANGED vars
  <2>1. told' = told
    BY <1>3, Zenon DEF EndAtOnce, CallBegin, CallGetProxy, CallWithhold, CallStoreListener, CallTransact, CallReply,
       CallFinish, JsRuns, RunTask, Dies, Starts, Connection, vars, dataVars
  <2> QED
    BY <2>1
<1> QED
  BY <1>1, <1>2, <1>3, Zenon DEF Next

\* A refusal is neither a success nor the user's giving up.
LEMMA RefusalIsNoAnswer ==
  ASSUME scenario \in Scenarios, ReturnInv, NEW c \in Pending, pc[c] = "returned", result[c].code # E_SCREENLOCK.OK
  PROVE  result[c].code \notin {SCREEN.SUCC, SCREEN.CANCEL}
<1>1. Agrees(c)
  BY PendingIs, Zenon DEF ReturnInv, ResultInv
<1>2. \/ result[c].code \in {E_SCREENLOCK.NULLPTR, E_SCREENLOCK.SENDREQUEST_FAILED}
      \/ result[c].code \in Codes
  BY <1>1 DEF Agrees
<1> QED
  BY <1>2, CodesDiffer DEF Codes

\* What the worker posts is no such answer.
LEMMA PostedIsNoAnswer ==
  ASSUME scenario \in Scenarios, ReturnInv, NEW c \in Calls, pc[c] = "returned", Plan(c).mode \in {"async", "listener"},
         scenario.binding \in {"napi", "ani"}
  PROVE  \A i \in DOMAIN Posted(c) :
           Posted(c)[i].kind = "callback" => Posted(c)[i].event.result \notin {SCREEN.SUCC, SCREEN.CANCEL}
<1>1. CASE Plan(c).mode = "async"
  <2>1. Posted(c) = <<Completion(c)>> /\ Completion(c).kind = "complete"
    BY <1>1 DEF Posted, Completion
  <2> QED
    BY <2>1, SingleList
<1>2. CASE Plan(c).mode = "listener"
  <2> DEFINE code == result[c].code
             answers == IF scenario.binding = "napi" THEN Napi!AsyncCallFunc(code) ELSE Ani!ScreenLockRequest(code)
  <2>1. Posted(c) = Callbacks(c, answers)
    BY <1>2 DEF Posted
  <2>2. IF code = E_SCREENLOCK.OK THEN answers = <<>> ELSE \E event : answers = <<event>> /\ event.result = code
    <3>1. CASE code = E_SCREENLOCK.OK
      BY <3>1, BindingErrors DEF Napi!AsyncCallFunc, Ani!ScreenLockRequest
    <3>2. CASE code # E_SCREENLOCK.OK
      <4>1. answers = IF scenario.binding = "napi" THEN <<[result |-> code, code |-> Napi!GetErrorInfo(code)]>>
                      ELSE <<[result |-> code, code |-> Ani!GetErrorInfo(code)]>>
        BY <3>2, BindingErrors, Zenon DEF Napi!AsyncCallFunc, Ani!ScreenLockRequest
      <4> HIDE DEF answers
      <4> QED
        BY <3>2, <4>1
    <3> QED
      BY <3>1, <3>2
  <2> HIDE DEF answers
  <2>3. \A i \in DOMAIN Posted(c) : i \in DOMAIN answers /\ Posted(c)[i].event = answers[i]
    BY <2>1 DEF Callbacks
  <2>4. CASE code = E_SCREENLOCK.OK
    BY <2>2, <2>3, <2>4, EmptyList
  <2>5. CASE code # E_SCREENLOCK.OK
    <3>1. code \notin {SCREEN.SUCC, SCREEN.CANCEL}
      BY <1>2, <2>5, RefusalIsNoAnswer DEF Pending
    <3>2. PICK event : answers = <<event>> /\ event.result = code
      BY <2>2, <2>5
    <3> HIDE DEF code
    <3>3. \A i \in DOMAIN answers : answers[i] = event
      BY <3>2, SingleList
    <3> QED
      BY <2>3, <3>1, <3>2, <3>3
  <2> QED
    BY <2>4, <2>5
<1> QED
  BY <1>1, <1>2

\* What a task hands to the loop.
LEMMA CalledFaithful ==
  ASSUME scenario \in Scenarios, QueuesInv, OnceInv, AnswersInv, OwnAnswers, store.tasks # <<>>,
         NEW entries, NEW heard,
         entries = [i \in DOMAIN Service!Called(store) |->
                      [call |-> Service!Called(store)[i].listener, kind |-> "callback", event |-> heard[i]]],
         \A i \in DOMAIN Service!Called(store) : heard[i].result = Service!Called(store)[i].result
  PROVE  \A i \in DOMAIN entries : Faithful(entries[i])
<1> DEFINE called == Service!Called(store)
           task == Head(store.tasks)
<1>1. 1 \in DOMAIN store.tasks /\ task = store.tasks[1] /\ Waiters(store)
  BY TailList, ListDomain DEF QueuesInv, OwnAnswers, Waiters
<1>2. task.user = App.user /\ task.kind \in {"unlock", "lock"}
  BY <1>1 DEF AnswersInv, OwnAnswers, OnceInv
<1>3. CASE task.kind = "unlock"
  <2>1. /\ DOMAIN called = DOMAIN store.unlocks
        /\ \A i \in DOMAIN store.unlocks :
             /\ called[i].listener = store.unlocks[i].listener
             /\ called[i].result = Service!CallbackUnlockListener(store, store.unlocks[i], task)
    BY <1>3 DEF Service!Called
  <2>2. \A i \in DOMAIN store.unlocks : Service!CallbackUnlockListener(store, store.unlocks[i], task) = task.result
    BY <1>2 DEF Service!CallbackUnlockListener, AnswersInv, OwnAnswers
  <2> HIDE DEF called, task
  <2>3. ASSUME NEW i \in DOMAIN called PROVE Truthful(called[i].listener, called[i].result)
    <3> DEFINE d == called[i].listener
    <3>1. d \in Pending /\ d = store.unlocks[i].listener /\ called[i].result = task.result
      BY <1>1, <2>1, <2>2 DEF Waiters
    <3>2. i \in Unlocking(store, d)
      BY <2>1, <3>1 DEF Unlocking
    <3>3. Waits(store, d) /\ Ask(d).name # "lock" /\ TasksTrue(d)
      BY <3>1, <3>2 DEF Waits, OnceInv, CallInv, HeldInv
    <3> QED
      BY <1>1, <1>3, <3>1, <3>3 DEF TasksTrue
  <2> QED
    BY <2>3 DEF Faithful, called
<1>4. CASE task.kind = "lock"
  <2>1. /\ DOMAIN called = DOMAIN store.locks
        /\ \A i \in DOMAIN store.locks : called[i].listener = store.locks[i] /\ called[i].result = task.result
    BY <1>4 DEF Service!Called
  <2> HIDE DEF called, task
  <2>3. ASSUME NEW i \in DOMAIN called PROVE Truthful(called[i].listener, called[i].result)
    <3> DEFINE d == called[i].listener
    <3>1. d \in Pending /\ d = store.locks[i] /\ called[i].result = task.result
      BY <1>1, <2>1 DEF Waiters
    <3>2. i \in Locking(store, d)
      BY <2>1, <3>1 DEF Locking
    <3>3. Waits(store, d) /\ Ask(d).name = "lock" /\ TasksTrue(d)
      BY <3>1, <3>2 DEF Waits, OnceInv, CallInv, HeldInv
    <3> QED
      BY <1>1, <1>4, <3>1, <3>3 DEF TasksTrue
  <2> QED
    BY <2>3 DEF Faithful, called
<1> QED
  BY <1>2, <1>3, <1>4

\* What is put into the loop, and by whom.
LEMMA LoopStep ==
  ASSUME Listed(loop), [Next]_vars
  PROVE  \/ \A i \in DOMAIN loop' : \E j \in DOMAIN loop : loop'[i] = loop[j]
         \/ \E c \in Calls : CallFinish(c) /\ Plan(c).mode # "sync" /\ loop' = loop \o Posted(c)
         \/ RunTask /\ scenario.binding # "native"
<1>1. CASE loop' = loop
  BY <1>1
<1>2. ASSUME NEW i \in DOMAIN loop, JsRuns(i)
      PROVE  \A k \in DOMAIN loop' : \E j \in DOMAIN loop : loop'[k] = loop[j]
  <2>1. loop' = RemoveAt(loop, i)
    BY <1>2, Zenon DEF JsRuns
  <2> DEFINE t == RemoveAt(loop, i)
  <2>2. /\ Listed(t) /\ Len(t) = Len(loop) - 1
        /\ \A j \in 1..(Len(loop) - 1) : t[j] = loop[IF j < i THEN j ELSE j + 1]
    BY RemoveList
  <2> HIDE DEF t
  <2>3. Len(loop) \in Nat /\ DOMAIN loop = 1..Len(loop) /\ DOMAIN t = 1..(Len(loop) - 1)
    BY <2>2, ListDomain
  <2>4. \A k \in DOMAIN t : (IF k < i THEN k ELSE k + 1) \in DOMAIN loop
    BY <2>3
  <2> QED
    BY <2>1, <2>2, <2>3, <2>4 DEF t
<1>3. ASSUME NEW c \in Calls, CallFinish(c)
      PROVE  loop' = loop \/ (Plan(c).mode # "sync" /\ loop' = loop \o Posted(c))
  BY <1>3, Zenon DEF CallFinish
<1>4. ASSUME RunTask PROVE loop' = loop \/ scenario.binding # "native"
  BY <1>4, Zenon DEF RunTask
<1>5. CASE \/ \E c \in Calls : \/ EndAtOnce(c) \/ CallBegin(c) \/ CallGetProxy(c) \/ CallWithhold(c)
                               \/ CallStoreListener(c) \/ CallTransact(c) \/ CallHandle(c) \/ CallReply(c)
           \/ AppAnswers \/ Dies \/ Starts \/ Connection \/ UNCHANGED vars
  <2>1. loop' = loop
    BY <1>5, Zenon DEF EndAtOnce, CallBegin, CallGetProxy, CallWithhold, CallStoreListener, CallTransact, CallHandle,
       CallReply, AppAnswers, Dies, Starts, Connection, vars, dataVars
  <2> QED
    BY <1>1, <2>1
<1> QED
  BY <1>1, <1>2, <1>3, <1>4, <1>5, Zenon DEF Next

\* What is in two lists put together was in one of them.
LEMMA ConcatComes ==
  ASSUME NEW s, NEW u, Listed(s), Listed(u)
  PROVE  \A i \in DOMAIN (s \o u) : \/ \E j \in DOMAIN s : (s \o u)[i] = s[j]
                                    \/ \E j \in DOMAIN u : (s \o u)[i] = u[j]
<1> DEFINE t == s \o u
           n == Len(s)
<1>1. /\ Listed(t) /\ Len(t) = n + Len(u)
      /\ \A j \in 1..n : t[j] = s[j]
      /\ \A j \in 1..Len(u) : t[n + j] = u[j]
  BY ConcatList
<1> HIDE DEF t
<1>2. n \in Nat /\ DOMAIN s = 1..n /\ Len(u) \in Nat /\ DOMAIN u = 1..Len(u) /\ DOMAIN t = 1..(n + Len(u))
  BY <1>1, ListDomain
<1> HIDE DEF n
<1>3. ASSUME NEW i \in DOMAIN t PROVE (\E j \in DOMAIN s : t[i] = s[j]) \/ (\E j \in DOMAIN u : t[i] = u[j])
  <2>1. CASE i \in 1..n
    BY <1>1, <1>2, <2>1
  <2>2. CASE i \notin 1..n
    <3>1. i - n \in 1..Len(u) /\ n + (i - n) = i
      BY <1>2, <2>2
    <3> QED
      BY <1>1, <1>2, <3>1
  <2> QED
    BY <2>1, <2>2
<1> QED
  BY <1>3 DEF t

\* What is in the loop and said what the app said, still does.
LEMMA StaysFaithful ==
  ASSUME scenario \in Scenarios, Shapes, QueuesInv, OnceInv, [Next]_vars, NEW j \in DOMAIN loop, Faithful(loop[j]),
         loop[j].kind = "callback", loop[j].event.result \in {SCREEN.SUCC, SCREEN.CANCEL}
  PROVE  told'[loop[j].call] \cap Means(loop[j].event.result) # {}
<1> DEFINE d == loop[j].call
<1>1. d \in Pending
  BY DEF QueuesInv, Queued, Completes
<1>2. j \in Coming(loop, d)
  BY DEF Coming
<1>3. told[d] \subseteq told'[d]
  BY <1>1, <1>2, ToldStays
<1>4. told[d] \cap Means(loop[j].event.result) # {}
  BY DEF Faithful, Truthful
<1> QED
  BY <1>3, <1>4

\* So what is in the loop says what the app said.
LEMMA LoopFaithful ==
  ASSUME scenario \in Scenarios, ReturnInv, QueuesInv, OnceInv, AnswersInv, OwnAnswers, [Next]_vars,
         NEW i \in DOMAIN loop', loop'[i].kind = "callback", loop'[i].event.result \in {SCREEN.SUCC, SCREEN.CANCEL}
  PROVE  told'[loop'[i].call] \cap Means(loop'[i].event.result) # {}
<1>0. Listed(loop) /\ Shapes /\ Carried /\ Waiters(store) /\ scenario.binding \in {"napi", "ani"}
  BY CallPathAssumption, Zenon DEF QueuesInv, Queued, ReturnInv, OwnAnswers
<1>1. \A j \in DOMAIN loop : Faithful(loop[j])
  BY DEF AnswersInv
<1>2. ASSUME NEW j \in DOMAIN loop, loop'[i] = loop[j]
      PROVE  told'[loop'[i].call] \cap Means(loop'[i].event.result) # {}
  BY <1>0, <1>1, <1>2, StaysFaithful
<1>3. ASSUME NEW c \in Calls, CallFinish(c), Plan(c).mode # "sync", loop' = loop \o Posted(c)
      PROVE  \E j \in DOMAIN loop : loop'[i] = loop[j]
  <2>1. pc[c] = "returned" /\ Makes(c)
    BY <1>0, <1>3 DEF CallFinish, Finish, Carried
  <2>2. Plan(c).mode \in {"async", "listener"}
    BY <1>3, <2>1, PlanModes
  <2>3. Listed(Posted(c))
    BY <1>0, <2>2, PostedComing
  <2>4. \A j \in DOMAIN Posted(c) :
          Posted(c)[j].kind = "callback" => Posted(c)[j].event.result \notin {SCREEN.SUCC, SCREEN.CANCEL}
    BY <1>0, <2>1, <2>2, PostedIsNoAnswer
  <2>5. (\E j \in DOMAIN loop : loop'[i] = loop[j]) \/ (\E j \in DOMAIN Posted(c) : loop'[i] = Posted(c)[j])
    BY <1>0, <1>3, <2>3, ConcatComes
  <2> QED
    BY <2>4, <2>5
<1>4. ASSUME RunTask, ~\E j \in DOMAIN loop : loop'[i] = loop[j]
      PROVE  told'[loop'[i].call] \cap Means(loop'[i].event.result) # {}
  <2> DEFINE called == Service!Called(store)
             event(result_) == IF scenario.binding = "napi" THEN Napi!OnCallBack(result_) ELSE Ani!OnCallBack(result_)
             heard == [k \in DOMAIN called |-> event(called[k].result)]
             entries == [k \in DOMAIN called |->
                           [call |-> called[k].listener, kind |-> "callback", event |-> event(called[k].result)]]
  <2>1. loop' = loop \o entries /\ told' = told /\ store.tasks # <<>>
    BY <1>0, <1>4, Zenon DEF RunTask
  <2>2. entries = [k \in DOMAIN called |-> [call |-> called[k].listener, kind |-> "callback", event |-> heard[k]]]
    OBVIOUS
  <2>3. \A k \in DOMAIN called : heard[k].result = called[k].result
    BY DEF Napi!OnCallBack, Ani!OnCallBack
  <2> HIDE DEF entries, heard
  <2>4. Listed(entries)
    BY <1>0, <2>2, CalledQueued, Zenon DEF Queued
  <2>5. \A k \in DOMAIN entries : Faithful(entries[k])
    BY <2>1, <2>2, <2>3, CalledFaithful
  <2>6. \E k \in DOMAIN entries : loop'[i] = entries[k]
    BY <1>0, <1>4, <2>1, <2>4, ConcatComes
  <2>7. Faithful(loop'[i])
    BY <2>5, <2>6
  <2> QED
    BY <2>1, <2>7 DEF Faithful, Truthful
<1> QED
  BY <1>0, <1>2, <1>3, <1>4, LoopStep

\* What the service and the loop hold is of the app's user, and so is what they
\* come to hold.
LEMMA AnswersStep ==
  ASSUME scenario \in Scenarios, ReturnInv, QueuesInv, OnceInv, AnswersInv, [Next]_vars
  PROVE  AnswersInv'
<1>0. scenario' = scenario /\ Carried
  BY SameScenario DEF ReturnInv
<1> SUFFICES ASSUME OwnAnswers
             PROVE  /\ \A i \in DOMAIN store'.unlocks : store'.unlocks[i].user = App.user
                    /\ \A i \in DOMAIN store'.tasks : store'.tasks[i].user = App.user
                    /\ \A i \in DOMAIN loop' :
                         loop'[i].kind = "callback" /\ loop'[i].event.result \in {SCREEN.SUCC, SCREEN.CANCEL} =>
                           told'[loop'[i].call] \cap Means(loop'[i].event.result) # {}
  BY <1>0 DEF AnswersInv, OwnAnswers, Faithful, Truthful
<1>1. scenario.binding # "native" /\ scenario.caller.user = App.user /\ Listed(store.tasks)
  BY DEF OwnAnswers, QueuesInv, Waiters
<1>2. /\ \A i \in DOMAIN store.unlocks : store.unlocks[i].user = App.user
      /\ \A i \in DOMAIN store.tasks : store.tasks[i].user = App.user
  BY DEF AnswersInv
<1>3. \A i \in DOMAIN store'.unlocks : store'.unlocks[i].user = App.user
  BY <1>0, <1>1, <1>2, UnlocksStep
<1>4. \A i \in DOMAIN store'.tasks : store'.tasks[i].user = App.user
  <2>1. ASSUME NEW kindOf, NEW answer, Passes(store, store', kindOf, answer, App.user)
        PROVE  \A i \in DOMAIN store'.tasks : store'.tasks[i].user = App.user
    <3>1. PICK entry : store'.tasks = Append(store.tasks, entry) /\ entry.user = App.user
      BY <2>1 DEF Passes
    <3>2. \A i \in DOMAIN store'.tasks : (\E j \in DOMAIN store.tasks : store'.tasks[i] = store.tasks[j])
                                        \/ store'.tasks[i] = entry
      BY <1>1, <3>1, AppendComes
    <3> QED
      BY <1>2, <3>1, <3>2
  <2> QED
    BY <1>0, <1>1, <1>2, <2>1, TasksStep
<1>5. \A i \in DOMAIN loop' :
        loop'[i].kind = "callback" /\ loop'[i].event.result \in {SCREEN.SUCC, SCREEN.CANCEL} =>
          told'[loop'[i].call] \cap Means(loop'[i].event.result) # {}
  BY LoopFaithful
<1> QED
  BY <1>3, <1>4, <1>5

\* What an outcome says the app said.
Says(c, given) ==
  IF Plan(c).gives = "UNLOCK" /\ given.value = 0 THEN {SCREEN.CANCEL} ELSE {SCREEN.SUCC, SCREEN.ALREADY_UNLOCKED}

\* The callback of a listener gives what the app said.
LEMMA SettledTrue ==
  ASSUME scenario \in Scenarios, NEW entry, entry.kind = "callback", entry.call \in Pending, Faithful(entry),
         Settled(entry).ok
  PROVE  told[entry.call] \cap Says(entry.call, Settled(entry)) # {}
<1> DEFINE plan == Plan(entry.call)
           answer == entry.event.result
           given == Settled(entry)
<1>1. given = IF scenario.binding = "napi" THEN Napi!UvWorkOnCallBack(plan, entry.event)
              ELSE Ani!SendCallBackEvent(plan, entry.event)
  BY PendingIs DEF Settled
<1>2. /\ Napi!SCREEN = SCREEN /\ Ani!SCREEN = SCREEN /\ SCREEN.SUCC # SCREEN.CANCEL
  BY DEF Napi!SCREEN, Ani!SCREEN, SCREEN
<1>3. /\ answer = SCREEN.SUCC \/ (plan.gives = "UNLOCK" /\ answer = SCREEN.CANCEL)
      /\ plan.gives = "UNLOCK" => given.value = IF answer = SCREEN.SUCC THEN 1 ELSE 0
  BY <1>1, <1>2 DEF Napi!UvWorkOnCallBack, Ani!SendCallBackEvent, Napi!Outcome, Ani!Outcome, Napi!Bit, Ani!Bit
<1>4. told[entry.call] \cap Means(answer) # {}
  BY <1>3 DEF Faithful, Truthful
<1> HIDE DEF given, answer
<1>5. Means(answer) = IF plan.gives = "UNLOCK" /\ given.value = 0 THEN {SCREEN.CANCEL}
                      ELSE {SCREEN.SUCC, SCREEN.ALREADY_UNLOCKED}
  BY <1>2, <1>3 DEF Means
<1> QED
  BY <1>4, <1>5 DEF Says, given

\* What a caller was told, it was told by the app.
LEMMA AnswerTrueStep ==
  ASSUME scenario \in Scenarios, ReturnInv, QueuesInv, GivenInv, OnceInv, AnswersInv, AnswerTrue, [Next]_vars
  PROVE  AnswerTrue'
<1>0. scenario' = scenario /\ Shapes
  BY SameScenario DEF ReturnInv
<1>1. \A c \in Calls : Plan(c)' = Plan(c)
  BY <1>0, SamePlans
<1> SUFFICES ASSUME NEW c \in Calls, Plan(c).mode = "listener", scenario.caller.user = App.user,
                    NEW given \in ToSet(outcome'[c]), given.ok
             PROVE  told'[c] \cap Says(c, given) # {}
  BY <1>0, <1>1, Zenon DEF AnswerTrue, Says
<1>2. c \in Pending /\ OwnAnswers /\ Listed(outcome[c])
  BY PendingIs, Zenon DEF Pending, OwnAnswers, GivenInv
<1>3. CASE given \in ToSet(outcome[c])
  <2>1. outcome[c] # <<>>
    BY <1>3, EmptyList DEF ToSet
  <2>2. told[c] \subseteq told'[c]
    BY <1>0, <1>2, <2>1, ToldStays
  <2>3. told[c] \cap Says(c, given) # {}
    BY <1>3, Zenon DEF AnswerTrue, Says
  <2> QED
    BY <2>2, <2>3
<1>4. CASE given \notin ToSet(outcome[c])
  <2>1. outcome'[c] # outcome[c]
    BY <1>4
  <2>2. ASSUME NEW x \in Calls, NEW g, Give(x, g), Plan(x).mode # "listener"
        PROVE  FALSE
    BY <1>0, <2>1, <2>2 DEF Give, Shapes
  <2>3. PICK i \in DOMAIN loop : JsRuns(i)
    <3>1. ASSUME NEW x \in Calls, EndAtOnce(x) PROVE FALSE
      BY <2>2, <3>1 DEF EndAtOnce
    <3>2. ASSUME NEW x \in Calls, Plan(x).mode = "sync", Give(x, Returns(x)) PROVE FALSE
      BY <2>2, <3>2
    <3> QED
      BY <2>1, <3>1, <3>2, OnlyGives, Zenon
  <2>4. told' = told /\ outcome' = [outcome EXCEPT ![loop[i].call] = Append(@, Settled(loop[i]))]
    BY <2>3, Zenon DEF JsRuns, Give
  <2>5. loop[i].call = c
    BY <1>0, <2>1, <2>4 DEF Shapes
  <2>6. outcome'[c] = Append(outcome[c], Settled(loop[i]))
    BY <1>0, <2>4, <2>5 DEF Shapes
  <2>7. given = Settled(loop[i])
    BY <1>2, <1>4, <2>6, ToSetAppend
  <2>8. loop[i].kind = "callback"
    BY <2>5 DEF QueuesInv, Queued, Completes
  <2>9. Faithful(loop[i])
    BY <1>2 DEF AnswersInv
  <2>10. told[c] \cap Says(c, given) # {}
    BY <1>2, <2>5, <2>7, <2>8, <2>9, SettledTrue
  <2> QED
    BY <2>4, <2>10
<1> QED
  BY <1>3, <1>4

-----------------------------------------------------------------------------

\* A call has one outcome: the one way to two is a service that answers the
\* listener and dies before it replies; for any programs, deaths, answers and
\* interleavings of the worker, the task and the loop.
THEOREM SettlesOnce == Spec => []SettledOnce
<1>1. ClientInv /\ ReturnInv /\ ReturnInv' /\ PathInv /\ OnceInv /\ [Next]_vars => OnceInv'
  BY OnceInvStep DEF PathInv
<1> QED
  BY <1>1, OnceInit, OnceSettles, PathUsesClient, ClientInvariant, ReturnInvariant, PathInvariant, PTL DEF Spec

\* A caller is told that the screen was locked or unlocked only when the app said
\* so, and that the user gave up only when the user did.
THEOREM AnswersAreTrue == Spec => []AnswerTrue
<1> DEFINE Inv == OnceInv /\ AnswersInv /\ AnswerTrue
<1>1. Init => Inv
  <2> SUFFICES ASSUME Init PROVE AnswersInv /\ AnswerTrue
    BY OnceInit
  <2>1. scenario \in Scenarios /\ store = scenario.store /\ loop = <<>> /\ outcome = [c \in Calls |-> <<>>]
    BY Zenon DEF Init
  <2>2. store.unlocks = <<>> /\ store.tasks = <<>>
    BY <2>1, CallPathAssumption
  <2>3. AnswersInv
    BY <2>1, <2>2, EmptyList DEF AnswersInv
  <2>4. AnswerTrue
    BY <2>1, EmptyList DEF AnswerTrue, ToSet
  <2> QED
    BY <2>3, <2>4
<1>2. ClientInv /\ ReturnInv /\ ReturnInv' /\ PathInv /\ Inv /\ [Next]_vars => Inv'
  BY OnceInvStep, AnswersStep, AnswerTrueStep DEF PathInv
<1>3. Inv => AnswerTrue
  OBVIOUS
<1> QED
  BY <1>1, <1>2, <1>3, PathUsesClient, ClientInvariant, ReturnInvariant, PathInvariant, PTL DEF Spec
=============================================================================
