-------------------------- MODULE UnlockFlow_proofs --------------------------
(***************************************************************************)
(* Theorems about UnlockFlow, for any accounts, requests, app threads and  *)
(* bounds.                                                                 *)
(***************************************************************************)
EXTENDS UnlockFlow, TLAPS

USE DEF Reqs, Results

-----------------------------------------------------------------------------
(* Type correctness.                                                       *)

LEMMA Counting ==
  ASSUME NEW D, NEW f \in [D -> Nat], NEW k
  PROVE  /\ [f EXCEPT ![k] = @ + 1] \in [D -> Nat]
         /\ k \in D /\ f[k] > 0 => [f EXCEPT ![k] = @ - 1] \in [D -> Nat]
<1>1. CASE k \in D
  <2>1. f[k] \in Nat /\ f[k] + 1 \in Nat /\ (f[k] > 0 => f[k] - 1 \in Nat)
    BY <1>1
  <2>2. ASSUME NEW x \in Nat PROVE [f EXCEPT ![k] = x] \in [D -> Nat]
    BY <1>1, <2>2
  <2> QED
    BY <2>1, <2>2
<1>2. CASE k \notin D
  <2>1. ASSUME NEW x PROVE [f EXCEPT ![k] = x] \in [D -> Nat]
    BY <1>2, <2>1
  <2> QED
    BY <1>2, <2>1
<1> QED
  BY <1>1, <1>2

LEMMA NoLocks == [u \in {} |-> TRUE] \in PartialLocks
<1>1. [u \in {} |-> TRUE] \in [{} -> BOOLEAN]
  OBVIOUS
<1>2. {} \in SUBSET Users
  OBVIOUS
<1> QED
  BY <1>1, <1>2, Zenon DEF PartialLocks

LEMMA ServingFields ==
  ASSUME TypeOK, serving.on
  PROVE  serving \in [on : {TRUE}, result : {"SUCC", "CANCEL"}, user : Users,
                      todo : SUBSET UnlockReqs]
<1>1. Free.on = FALSE
  BY DEF Free
<1>2. serving # Free
  BY <1>1
<1> QED
  BY <1>2 DEF TypeOK, Servings

LEMMA InitType == Init => TypeOK
<1> SUFFICES ASSUME Init PROVE TypeOK
  OBVIOUS
<1>1. isScreenlockedMap \in PartialLocks
  BY NoLocks DEF Init
<1>2. inbox \in Seq({"UNLOCK", "LOCK"})
  BY DEF Init
<1> QED
  BY <1>1, <1>2 DEF Init, TypeOK, Idle, Free, Calls, Servings

LEMMA SetScreenlockedType ==
  ASSUME TypeOK, NEW locked \in BOOLEAN, NEW u \in Users, SetScreenlocked(locked, u)
  PROVE  isScreenlockedMap' \in PartialLocks
<1>1. PICK S \in SUBSET Users : isScreenlockedMap \in [S -> BOOLEAN]
  BY DEF TypeOK, PartialLocks
<1>2. isScreenlockedMap' \in [S \cup {u} -> BOOLEAN]
  BY <1>1 DEF SetScreenlocked
<1>3. S \cup {u} \in SUBSET Users
  OBVIOUS
<1> QED
  BY <1>2, <1>3 DEF PartialLocks

LEMMA CallType ==
  ASSUME TypeOK, NEW t \in AppThreads, NEW where \in {"publish", "notify", "done"},
         call[t] # Idle, Step(t, where)
  PROVE  call' \in [AppThreads -> Calls]
<1>1. call[t] \in [pc : {"enter", "publish", "notify"}, event : {"UNLOCK", "LOCK"},
                   result : Results, user : Users]
  BY DEF TypeOK, Calls
<1>2. where # "done" => [call[t] EXCEPT !.pc = where] \in Calls
  BY <1>1 DEF Calls
<1>3. Idle \in Calls
  BY DEF Calls
<1> QED
  BY <1>2, <1>3 DEF TypeOK, Step

LEMMA ClientType == TypeOK /\ ClientStep => TypeOK'
<1> SUFFICES ASSUME TypeOK, ClientStep PROVE TypeOK'
  OBVIOUS
<1>1. ASSUME NEW e \in {"UNLOCK", "LOCK"}, SystemEventCallBack(e)
      PROVE  inbox' \in Seq({"UNLOCK", "LOCK"})
  BY <1>1 DEF SystemEventCallBack, TypeOK
<1>2. ASSUME NEW r \in Reqs, Advance(r)
      PROVE  pc' \in [Reqs -> {"idle", "half", "returned", "lost"}]
  BY <1>2 DEF Advance, TypeOK
<1>3. ASSUME NEW r \in UnlockReqs, UnlockInner(r) PROVE TypeOK'
  <2>1. inbox' \in Seq({"UNLOCK", "LOCK"})
    BY <1>1, <1>3 DEF UnlockInner, PushUnlock, EventUnlock, TypeOK
  <2>2. unlockVec' \in SUBSET UnlockReqs
    BY <1>3 DEF UnlockInner, PushUnlock, EventUnlock, TypeOK
  <2> QED
    BY <2>1, <2>2, <1>2, <1>3 DEF UnlockInner, TypeOK, taskVars
<1>4. ASSUME NEW r \in LockReqs, LockWithListener(r) PROVE TypeOK'
  <2>1. inbox' \in Seq({"UNLOCK", "LOCK"})
    BY <1>1, <1>4 DEF LockWithListener, TypeOK
  <2>2. lockVec' \in SUBSET LockReqs
    BY <1>4 DEF LockWithListener, TypeOK
  <2> QED
    BY <2>1, <2>2, <1>2, <1>4 DEF LockWithListener, TypeOK, taskVars
<1>5. CASE LockUserId
  BY <1>1, <1>5 DEF LockUserId, TypeOK, taskVars, reqVars
<1> QED
  BY <1>3, <1>4, <1>5 DEF ClientStep

LEMMA AppType == TypeOK /\ AppStep => TypeOK'
<1> SUFFICES ASSUME TypeOK, AppStep PROVE TypeOK'
  OBVIOUS
<1>1. ASSUME NEW t \in AppThreads, NEW u \in Users, NEW e \in {"UNLOCK", "LOCK"},
             NEW x \in Results, AppCalls(t, e, x, u)
      PROVE  call' \in [AppThreads -> Calls]
  BY <1>1 DEF AppCalls, Call, Calls, TypeOK
<1>2. inbox # <<>> => Tail(inbox) \in Seq({"UNLOCK", "LOCK"})
  BY DEF TypeOK
<1>3. ASSUME NEW t \in AppThreads, NEW u \in Users, NEW e \in {"UNLOCK", "LOCK"},
             NEW x \in Results, AppAnswers(t, u, e, x) \/ AppActs(t, u, e, x)
      PROVE  TypeOK'
  <2>1. AppCalls(t, e, x, u)
    BY <1>3 DEF AppAnswers, AppActs
  <2>2. inbox' \in Seq({"UNLOCK", "LOCK"})
    BY <1>2, <1>3 DEF AppAnswers, AppActs, TypeOK
  <2> QED
    BY <2>1, <2>2, <1>1 DEF AppCalls, TypeOK, taskVars, reqVars
<1>4. CASE OnSystemEvent
  BY <1>4 DEF OnSystemEvent, TypeOK, taskVars, reqVars, appVars
<1>5. CASE AppDies
  BY <1>5, BoundAssumption DEF AppDies, TypeOK, taskVars, reqVars
<1> QED
  BY <1>3, <1>4, <1>5 DEF AppStep

LEMMA HandlerType == ASSUME TypeOK, NEW t \in AppThreads, HandlerStep(t) PROVE TypeOK'
<1>1. CASE SetState(t)
  <2>1. call[t] \in [pc : {"enter", "publish", "notify"}, event : {"UNLOCK", "LOCK"},
                     result : Results, user : Users]
    BY <1>1 DEF SetState, TypeOK, Calls
  <2>2. call' \in [AppThreads -> Calls]
    BY <1>1, CallType DEF SetState
  <2>3. isScreenlockedMap' \in PartialLocks
    BY <1>1, <2>1, SetScreenlockedType DEF SetState, TypeOK
  <2>4. unlockReported' \in SUBSET Users
    BY <1>1, <2>1 DEF SetState, TypeOK
  <2> QED
    BY <1>1, <2>2, <2>3, <2>4 DEF SetState, TypeOK, taskVars, reqVars
<1>2. CASE PublishUnlock(t)
  <2>1. call' \in [AppThreads -> Calls]
    BY <1>2, CallType DEF PublishUnlock
  <2> QED
    BY <1>2, <2>1 DEF PublishUnlock, TypeOK, taskVars, reqVars
<1>3. CASE NotifyUnlockListener(t)
  <2>1. call' \in [AppThreads -> Calls]
    BY <1>3, CallType DEF NotifyUnlockListener
  <2>2. unlockTasks' \in [NotifyKinds -> Nat]
    BY <1>3, Counting DEF NotifyUnlockListener, TypeOK
  <2> QED
    BY <1>3, <2>1, <2>2 DEF NotifyUnlockListener, TypeOK, reqVars
<1>4. CASE NotifyLockListener(t)
  <2>1. call' \in [AppThreads -> Calls]
    BY <1>4, CallType DEF NotifyLockListener
  <2>2. lockTasks' \in [{"SUCC", "FAIL", "CANCEL"} -> Nat]
    BY <1>4, Counting DEF NotifyLockListener, TypeOK
  <2>3. published' \in [Users -> {"none", "LOCKED", "EXITING", "UNLOCKED"}]
    BY <1>4 DEF NotifyLockListener, TypeOK
  <2> QED
    BY <1>4, <2>1, <2>2, <2>3 DEF NotifyLockListener, TypeOK, reqVars
<1> QED
  BY <1>1, <1>2, <1>3, <1>4 DEF HandlerStep

LEMMA TaskType == TypeOK /\ TaskStep => TypeOK'
<1> SUFFICES ASSUME TypeOK, TaskStep PROVE TypeOK'
  OBVIOUS
<1>1. ASSUME NEW k \in NotifyKinds, StartUnlockTask(k) PROVE TypeOK'
  <2>1. unlockTasks' \in [NotifyKinds -> Nat]
    BY <1>1, Counting DEF StartUnlockTask, TypeOK
  <2>2. serving' \in Servings
    BY <1>1 DEF StartUnlockTask, TypeOK, Servings, NotifyKinds
  <2> QED
    BY <1>1, <2>1, <2>2 DEF StartUnlockTask, TypeOK, reqVars, appVars
<1>2. ASSUME NEW r \in UnlockReqs, CallbackUnlockListener(r) PROVE TypeOK'
  <2>1. serving \in [on : {TRUE}, result : {"SUCC", "CANCEL"}, user : Users,
                     todo : SUBSET UnlockReqs]
    BY <1>2, ServingFields DEF CallbackUnlockListener
  <2>2. serving' \in Servings
    BY <1>2, <2>1 DEF CallbackUnlockListener, Servings
  <2>3. UnlockResult(r) \in Results
    BY <2>1 DEF UnlockResult
  <2>4. answer' \in [Reqs -> Results \cup {"none"}] /\ called' \in [Reqs -> Nat]
    BY <1>2, <2>3 DEF CallbackUnlockListener, TypeOK
  <2> QED
    BY <1>2, <2>2, <2>4 DEF CallbackUnlockListener, TypeOK, appVars
<1>3. CASE EndUnlockTask
  BY <1>3 DEF EndUnlockTask, ClearedList, TypeOK, Servings, reqVars, appVars
<1>4. ASSUME NEW x \in {"SUCC", "FAIL", "CANCEL"}, RunLockTask(x) PROVE TypeOK'
  <2>1. lockTasks' \in [{"SUCC", "FAIL", "CANCEL"} -> Nat]
    BY <1>4, Counting DEF RunLockTask, TypeOK
  <2>2. answer' \in [Reqs -> Results \cup {"none"}] /\ called' \in [Reqs -> Nat]
    BY <1>4 DEF RunLockTask, TypeOK
  <2> QED
    BY <1>4, <2>1, <2>2 DEF RunLockTask, TypeOK, appVars
<1> QED
  BY <1>1, <1>2, <1>3, <1>4 DEF TaskStep

LEMMA AccountType == TypeOK /\ AccountStep => TypeOK'
<1> SUFFICES ASSUME TypeOK, AccountStep PROVE TypeOK'
  OBVIOUS
<1>1. ASSUME NEW u \in Users, AuthStateInit(u) PROVE TypeOK'
  BY <1>1, SetScreenlockedType DEF AuthStateInit, TypeOK, reqVars, taskVars, appVars
<1>2. ASSUME NEW u \in Users, OnRemoveUser(u) PROVE TypeOK'
  <2>1. PICK S \in SUBSET Users : isScreenlockedMap \in [S -> BOOLEAN]
    BY DEF TypeOK, PartialLocks
  <2>2. isScreenlockedMap' \in [S \ {u} -> BOOLEAN]
    BY <1>2, <2>1 DEF OnRemoveUser
  <2>3. isScreenlockedMap' \in PartialLocks
    BY <2>2 DEF PartialLocks
  <2> QED
    BY <1>2, <2>3 DEF OnRemoveUser, TypeOK, reqVars, taskVars, appVars
<1> QED
  BY <1>1, <1>2 DEF AccountStep

LEMMA RestartType == TypeOK /\ Restart => TypeOK'
<1> SUFFICES ASSUME TypeOK, Restart PROVE TypeOK'
  OBVIOUS
<1>1. isScreenlockedMap' \in PartialLocks
  BY NoLocks DEF Restart
<1>2. inbox' \in Seq({"UNLOCK", "LOCK"})
  BY DEF Restart
<1>3. restarts' \in Nat
  BY BoundAssumption DEF Restart, TypeOK
<1> QED
  BY <1>1, <1>2, <1>3 DEF Restart, TypeOK, Idle, Free, Calls, Servings

LEMMA NextType == TypeOK /\ [Next]_vars => TypeOK'
<1>1. TypeOK /\ UNCHANGED vars => TypeOK'
  BY DEF TypeOK, vars, reqVars, taskVars, appVars
<1> QED
  BY <1>1, ClientType, AppType, HandlerType, TaskType, AccountType, RestartType DEF Next

\* Every variable keeps its type.
THEOREM TypeCorrect == Spec => []TypeOK
  BY InitType, NextType, PTL DEF Spec

-----------------------------------------------------------------------------
(* A listener is called at most once.                                      *)

LEMMA InitOnce == Init => OnceInv
  BY DEF Init, OnceInv, CalledAtMostOnce, Free

LEMMA ClientOnce == TypeOK /\ OnceInv /\ ClientStep => OnceInv'
<1> SUFFICES ASSUME TypeOK, OnceInv, ClientStep PROVE OnceInv'
  OBVIOUS
<1> USE DEF OnceInv, CalledAtMostOnce
<1>1. ASSUME NEW r \in UnlockReqs, UnlockInner(r) PROVE OnceInv'
  <2>1. UNCHANGED <<called, lockVec, serving>>
    BY <1>1 DEF UnlockInner, taskVars
  <2>2. CASE pc[r] = "idle"
    <3>1. ~serving.on /\ unlockVec' = unlockVec \cup {r} /\ pc' = [pc EXCEPT ![r] = "half"]
      BY <1>1, <2>2 DEF UnlockInner, PushUnlock, MutexFree, Advance
    <3>2. called[r] = 0 /\ r \notin lockVec
      BY <2>2
    <3> QED
      BY <2>1, <3>1, <3>2 DEF TypeOK
  <2>3. CASE pc[r] = "half"
    <3>1. unlockVec' = unlockVec /\ pc' = [pc EXCEPT ![r] = "returned"]
      BY <1>1, <2>3 DEF UnlockInner, EventUnlock, Advance
    <3> QED
      BY <2>1, <3>1 DEF TypeOK
  <2> QED
    BY <1>1, <2>2, <2>3 DEF UnlockInner, Advance
<1>2. ASSUME NEW r \in LockReqs, LockWithListener(r) PROVE OnceInv'
  <2>1. UNCHANGED <<called, unlockVec, serving>>
    BY <1>2 DEF LockWithListener, taskVars
  <2>2. CASE pc[r] = "idle"
    <3>1. lockVec' = lockVec \cup {r} /\ pc' = [pc EXCEPT ![r] = "half"]
      BY <1>2, <2>2 DEF LockWithListener, Advance
    <3>2. called[r] = 0 /\ r \notin unlockVec
      BY <2>2
    <3> QED
      BY <2>1, <3>1, <3>2 DEF TypeOK
  <2>3. CASE pc[r] = "half"
    <3>1. lockVec' = lockVec /\ pc' = [pc EXCEPT ![r] = "returned"]
      BY <1>2, <2>3 DEF LockWithListener, Advance
    <3> QED
      BY <2>1, <3>1 DEF TypeOK
  <2> QED
    BY <1>2, <2>2, <2>3 DEF LockWithListener, Advance
<1>3. CASE LockUserId
  BY <1>3 DEF LockUserId, reqVars, taskVars
<1> QED
  BY <1>1, <1>2, <1>3 DEF ClientStep

LEMMA TaskOnce == TypeOK /\ OnceInv /\ TaskStep => OnceInv'
<1> SUFFICES ASSUME TypeOK, OnceInv, TaskStep PROVE OnceInv'
  OBVIOUS
<1> USE DEF OnceInv, CalledAtMostOnce
<1>1. ASSUME NEW k \in NotifyKinds, StartUnlockTask(k) PROVE OnceInv'
  <2>1. /\ ~serving.on /\ serving'.on /\ serving'.todo = unlockVec
        /\ UNCHANGED <<pc, called, unlockVec, lockVec>>
    BY <1>1 DEF StartUnlockTask, MutexFree, reqVars
  <2> QED
    BY <2>1
<1>2. ASSUME NEW r \in UnlockReqs, CallbackUnlockListener(r) PROVE OnceInv'
  <2>1. serving \in [on : {TRUE}, result : {"SUCC", "CANCEL"}, user : Users,
                     todo : SUBSET UnlockReqs]
    BY <1>2, ServingFields DEF CallbackUnlockListener
  <2>2. /\ serving'.on /\ serving'.todo = serving.todo \ {r}
        /\ called' = [called EXCEPT ![r] = @ + 1]
        /\ UNCHANGED <<pc, unlockVec, lockVec>>
    BY <1>2, <2>1 DEF CallbackUnlockListener
  <2>3. r \in unlockVec /\ called[r] = 0 /\ pc[r] # "idle" /\ r \notin lockVec
    BY <1>2, DisjointAssumption DEF CallbackUnlockListener, TypeOK
  <2>4. called'[r] = 1 /\ \A q \in Reqs \ {r} : called'[q] = called[q]
    BY <2>2, <2>3 DEF TypeOK
  <2>5. unlockVec \subseteq Reqs /\ lockVec \subseteq Reqs
    BY DEF TypeOK
  <2>6. CalledAtMostOnce'
    BY <2>4
  <2>7. \A q \in unlockVec' : (serving'.on => q \in serving'.todo) => called'[q] = 0
    BY <1>2, <2>2, <2>4, <2>5 DEF CallbackUnlockListener
  <2>8. \A q \in lockVec' : called'[q] = 0
    BY <2>2, <2>3, <2>4, <2>5
  <2>9. \A q \in Reqs : pc'[q] = "idle" =>
          q \notin unlockVec' \cup lockVec' /\ called'[q] = 0
    BY <2>2, <2>3, <2>4
  <2>10. serving'.todo \subseteq unlockVec'
    BY <1>2, <2>2 DEF CallbackUnlockListener
  <2> HIDE DEF CalledAtMostOnce
  <2> QED
    BY <2>6, <2>7, <2>8, <2>9, <2>10
<1>3. CASE EndUnlockTask
  <2>1. ~serving'.on /\ unlockVec' = {} /\ UNCHANGED <<pc, called, lockVec>>
    BY <1>3 DEF EndUnlockTask, ClearedList, Free, reqVars
  <2> QED
    BY <2>1
<1>4. ASSUME NEW x \in {"SUCC", "FAIL", "CANCEL"}, RunLockTask(x) PROVE OnceInv'
  <2>1. /\ called' = [r \in Reqs |-> IF r \in lockVec THEN called[r] + 1 ELSE called[r]]
        /\ lockVec' = {} /\ UNCHANGED <<pc, unlockVec, serving>>
    BY <1>4 DEF RunLockTask
  <2>2. \A r \in Reqs : called'[r] <= 1 /\ (r \notin lockVec => called'[r] = called[r])
    BY <2>1 DEF TypeOK
  <2>3. unlockVec \cap lockVec = {} /\ unlockVec \subseteq Reqs
    BY DisjointAssumption DEF TypeOK
  <2> QED
    BY <2>1, <2>2, <2>3
<1> QED
  BY <1>1, <1>2, <1>3, <1>4 DEF TaskStep

LEMMA NextOnce == TypeOK /\ OnceInv /\ [Next]_vars => OnceInv'
<1> SUFFICES ASSUME TypeOK, OnceInv, [Next]_vars PROVE OnceInv'
  OBVIOUS
<1>1. ASSUME UNCHANGED <<pc, called, unlockVec, lockVec, serving>> PROVE OnceInv'
  BY <1>1 DEF OnceInv, CalledAtMostOnce
<1>2. CASE AppStep
  BY <1>1, <1>2 DEF AppStep, AppAnswers, AppActs, AppCalls, OnSystemEvent, AppDies,
                    reqVars, taskVars
<1>3. CASE \E t \in AppThreads : HandlerStep(t)
  BY <1>1, <1>3 DEF HandlerStep, SetState, PublishUnlock, NotifyUnlockListener,
                    NotifyLockListener, reqVars, taskVars
<1>4. CASE AccountStep
  BY <1>1, <1>4 DEF AccountStep, AuthStateInit, OnRemoveUser, reqVars, taskVars
<1>5. CASE Restart
  <2>1. /\ unlockVec' = {} /\ lockVec' = {} /\ ~serving'.on /\ called' = called
        /\ \A r \in Reqs : pc'[r] = "idle" => pc[r] = "idle"
    BY <1>5 DEF Restart, Free
  <2> QED
    BY <2>1 DEF OnceInv, CalledAtMostOnce
<1>6. CASE UNCHANGED vars
  BY <1>1, <1>6 DEF vars, reqVars, taskVars
<1> QED
  BY <1>2, <1>3, <1>4, <1>5, <1>6, ClientOnce, TaskOnce DEF Next

\* No listener is called twice, however tasks, late requests, accounts and
\* restarts interleave.
THEOREM CalledOnce == Spec => []CalledAtMostOnce
<1>1. OnceInv => CalledAtMostOnce
  BY DEF OnceInv
<1> QED
  BY <1>1, InitType, NextType, InitOnce, NextOnce, PTL DEF Spec

-----------------------------------------------------------------------------
(* A successful unlock request goes back to an unlocking of its user.      *)

LEMMA InitReport == Init => ReportInv
  BY DEF Init, ReportInv, Free

LEMMA CallFields ==
  ASSUME TypeOK, NEW t \in AppThreads, call[t] # Idle
  PROVE  call[t] \in [pc : {"enter", "publish", "notify"}, event : {"UNLOCK", "LOCK"},
                      result : Results, user : Users]
  BY DEF TypeOK, Calls

\* What a handler that moves on does to the calls in progress.
LEMMA StepCall ==
  ASSUME TypeOK, NEW t \in AppThreads, call[t] # Idle,
         NEW where \in {"publish", "notify", "done"}, Step(t, where)
  PROVE  /\ \A s \in AppThreads \ {t} : call'[s] = call[s]
         /\ call'[t] # Idle =>
              /\ call'[t].event = call[t].event
              /\ call'[t].result = call[t].result
              /\ call'[t].user = call[t].user
<1>1. CASE where = "done"
  BY <1>1 DEF Step, TypeOK
<1>2. CASE where # "done"
  <2>1. call' = [call EXCEPT ![t] = [call[t] EXCEPT !.pc = where]]
    BY <1>2 DEF Step
  <2> QED
    BY <2>1, CallFields DEF TypeOK
<1> QED
  BY <1>1, <1>2

LEMMA SetStateReport ==
  ASSUME TypeOK, ReportInv, NEW t \in AppThreads, SetState(t)
  PROVE  ReportInv'
<1>1. call[t] \in [pc : {"enter", "publish", "notify"}, event : {"UNLOCK", "LOCK"},
                   result : Results, user : Users]
  BY CallFields DEF SetState
<1>2. /\ unlockReported \subseteq unlockReported'
      /\ call[t].event = "UNLOCK" /\ call[t].result \in {"SUCC", "EARLY", "ALREADY"}
           => call[t].user \in unlockReported'
  BY DEF SetState
<1>3. /\ \A s \in AppThreads \ {t} : call'[s] = call[s]
      /\ call'[t] # Idle =>
           /\ call'[t].event = call[t].event
           /\ call'[t].result = call[t].result
           /\ call'[t].user = call[t].user
  BY StepCall DEF SetState
<1>4. UNCHANGED <<unlockTasks, serving>>
  BY DEF SetState, taskVars
<1>5. \A u \in DOMAIN isScreenlockedMap' : ~isScreenlockedMap'[u] => u \in unlockReported'
  <2>1. CASE UNCHANGED isScreenlockedMap
    BY <1>2, <2>1 DEF ReportInv
  <2>2. CASE /\ SetScreenlocked(call[t].event = "LOCK", call[t].user)
             /\ call[t].result = "SUCC" \/ (call[t].event = "UNLOCK" /\ call[t].result = "EARLY")
    <3>1. \A u \in DOMAIN isScreenlockedMap' :
            IF u = call[t].user THEN isScreenlockedMap'[u] = (call[t].event = "LOCK")
            ELSE u \in DOMAIN isScreenlockedMap /\ isScreenlockedMap'[u] = isScreenlockedMap[u]
      BY <2>2 DEF SetScreenlocked
    <3>2. call[t].event # "LOCK" => call[t].user \in unlockReported'
      BY <1>1, <1>2, <2>2
    <3> QED
      BY <1>2, <3>1, <3>2 DEF ReportInv
  <2> QED
    BY <2>1, <2>2 DEF SetState
<1> QED
  BY <1>2, <1>3, <1>4, <1>5 DEF ReportInv

LEMMA HandlerReport ==
  ASSUME TypeOK, ReportInv, NEW t \in AppThreads, HandlerStep(t)
  PROVE  ReportInv'
<1>1. CASE SetState(t)
  BY <1>1, SetStateReport
<1>2. CASE PublishUnlock(t)
  <2>1. /\ UNCHANGED <<isScreenlockedMap, unlockTasks, serving, unlockReported>>
        /\ call[t].pc = "publish" /\ call[t] # Idle
    BY <1>2 DEF PublishUnlock, taskVars
  <2>2. /\ \A s \in AppThreads \ {t} : call'[s] = call[s]
        /\ call'[t] # Idle =>
             /\ call'[t].event = call[t].event
             /\ call'[t].result = call[t].result
             /\ call'[t].user = call[t].user
    BY <1>2, StepCall DEF PublishUnlock
  <2> QED
    BY <2>1, <2>2 DEF ReportInv
<1>3. CASE NotifyUnlockListener(t)
  <2>1. /\ UNCHANGED <<isScreenlockedMap, serving, unlockReported>>
        /\ call[t].pc = "notify" /\ call[t] # Idle /\ call[t].event = "UNLOCK"
        /\ Step(t, "done")
    BY <1>3 DEF NotifyUnlockListener
  <2>2. call' = [call EXCEPT ![t] = Idle]
    BY <2>1 DEF Step
  <2>3. ASSUME NEW k \in NotifyKinds, k.result = "SUCC", unlockTasks'[k] > 0
        PROVE  k.user \in unlockReported
    <3>1. unlockTasks[k] \in Nat
      BY DEF TypeOK
    <3> DEFINE c == call[t]
               m == [result |-> IF c.result = "ALREADY" THEN "SUCC" ELSE c.result,
                     user |-> c.user]
    <3>2. \/ unlockTasks' = [unlockTasks EXCEPT ![m] = @ + 1]
          \/ unlockTasks' = unlockTasks
      BY <1>3 DEF NotifyUnlockListener
    <3>3. CASE k # m
      BY <2>3, <3>2, <3>3 DEF ReportInv, TypeOK
    <3>4. CASE k = m
      <4>1. c.result \in {"SUCC", "ALREADY"} /\ k.user = c.user
        BY <2>3, <3>4
      <4> QED
        BY <2>1, <4>1 DEF ReportInv
    <3> QED
      BY <3>3, <3>4
  <2> QED
    BY <2>1, <2>2, <2>3 DEF ReportInv, TypeOK
<1>4. CASE NotifyLockListener(t)
  <2>1. /\ UNCHANGED <<isScreenlockedMap, unlockTasks, serving, unlockReported>>
        /\ Step(t, "done")
    BY <1>4 DEF NotifyLockListener
  <2>2. call' = [call EXCEPT ![t] = Idle]
    BY <2>1 DEF Step
  <2> QED
    BY <2>1, <2>2 DEF ReportInv, TypeOK
<1> QED
  BY <1>1, <1>2, <1>3, <1>4 DEF HandlerStep

LEMMA TaskReport == TypeOK /\ ReportInv /\ TaskStep => ReportInv'
<1> SUFFICES ASSUME TypeOK, ReportInv, TaskStep PROVE ReportInv'
  OBVIOUS
<1>1. ASSUME NEW k \in NotifyKinds, StartUnlockTask(k) PROVE ReportInv'
  <2>1. /\ UNCHANGED <<isScreenlockedMap, unlockReported, call>>
        /\ unlockTasks' = [unlockTasks EXCEPT ![k] = @ - 1]
        /\ unlockTasks[k] > 0
        /\ serving'.result = k.result /\ serving'.user = k.user
    BY <1>1 DEF StartUnlockTask, appVars
  <2>2. \A m \in NotifyKinds : unlockTasks'[m] > 0 => unlockTasks[m] > 0
    <3> TAKE m \in NotifyKinds
    <3>1. CASE m = k
      BY <2>1, <3>1
    <3>2. CASE m # k
      BY <2>1, <3>2 DEF TypeOK
    <3> QED
      BY <3>1, <3>2
  <2> QED
    BY <2>1, <2>2 DEF ReportInv
<1>2. ASSUME NEW r \in UnlockReqs, CallbackUnlockListener(r) PROVE ReportInv'
  <2>1. serving \in [on : {TRUE}, result : {"SUCC", "CANCEL"}, user : Users,
                     todo : SUBSET UnlockReqs]
    BY <1>2, ServingFields DEF CallbackUnlockListener
  <2>2. /\ UNCHANGED <<isScreenlockedMap, unlockTasks, unlockReported, call>>
        /\ serving.on
        /\ serving'.result = serving.result /\ serving'.user = serving.user
    BY <1>2, <2>1 DEF CallbackUnlockListener, appVars
  <2> QED
    BY <2>2 DEF ReportInv
<1>3. CASE EndUnlockTask
  <2>1. UNCHANGED <<isScreenlockedMap, unlockTasks, unlockReported, call>> /\ ~serving'.on
    BY <1>3 DEF EndUnlockTask, Free, appVars
  <2> QED
    BY <2>1 DEF ReportInv
<1>4. ASSUME NEW x \in {"SUCC", "FAIL", "CANCEL"}, RunLockTask(x) PROVE ReportInv'
  BY <1>4 DEF RunLockTask, ReportInv, appVars
<1> QED
  BY <1>1, <1>2, <1>3, <1>4 DEF TaskStep

LEMMA AppReport == TypeOK /\ ReportInv /\ AppStep => ReportInv'
<1> SUFFICES ASSUME TypeOK, ReportInv, AppStep PROVE ReportInv'
  OBVIOUS
<1>1. ASSUME NEW t \in AppThreads, NEW u \in Users, NEW e \in {"UNLOCK", "LOCK"},
             NEW x \in Results, AppCalls(t, e, x, u)
      PROVE  ReportInv'
  <2>1. /\ UNCHANGED <<isScreenlockedMap, unlockTasks, serving, unlockReported>>
        /\ call' = [call EXCEPT ![t] = Call(e, x, u)]
        /\ Call(e, x, u).pc = "enter"
    BY <1>1 DEF AppCalls, Call, taskVars
  <2> QED
    BY <2>1 DEF ReportInv, TypeOK
<1>2. CASE OnSystemEvent
  BY <1>2 DEF OnSystemEvent, ReportInv, taskVars, appVars
<1>3. CASE AppDies
  BY <1>3 DEF AppDies, ReportInv, taskVars
<1> QED
  BY <1>1, <1>2, <1>3 DEF AppStep, AppAnswers, AppActs

LEMMA AccountReport == TypeOK /\ ReportInv /\ AccountStep => ReportInv'
<1> SUFFICES ASSUME TypeOK, ReportInv, AccountStep PROVE ReportInv'
  OBVIOUS
<1>1. ASSUME NEW u \in Users, AuthStateInit(u) PROVE ReportInv'
  <2>1. \A v \in DOMAIN isScreenlockedMap' : ~isScreenlockedMap'[v] =>
          v \in DOMAIN isScreenlockedMap /\ ~isScreenlockedMap[v]
    BY <1>1 DEF AuthStateInit, SetScreenlocked
  <2>2. UNCHANGED <<unlockTasks, serving, unlockReported, call>>
    BY <1>1 DEF AuthStateInit, taskVars, appVars
  <2> QED
    BY <2>1, <2>2 DEF ReportInv
<1>2. ASSUME NEW u \in Users, OnRemoveUser(u) PROVE ReportInv'
  <2>1. \A v \in DOMAIN isScreenlockedMap' : ~isScreenlockedMap'[v] =>
          v \in DOMAIN isScreenlockedMap /\ ~isScreenlockedMap[v]
    BY <1>2 DEF OnRemoveUser
  <2>2. UNCHANGED <<unlockTasks, serving, unlockReported, call>>
    BY <1>2 DEF OnRemoveUser, taskVars, appVars
  <2> QED
    BY <2>1, <2>2 DEF ReportInv
<1> QED
  BY <1>1, <1>2 DEF AccountStep

LEMMA NextReport == TypeOK /\ ReportInv /\ [Next]_vars => ReportInv'
<1> SUFFICES ASSUME TypeOK, ReportInv, [Next]_vars PROVE ReportInv'
  OBVIOUS
<1>1. ASSUME UNCHANGED <<isScreenlockedMap, unlockTasks, serving, unlockReported, call>>
      PROVE  ReportInv'
  BY <1>1 DEF ReportInv
<1>2. CASE ClientStep
  BY <1>1, <1>2 DEF ClientStep, UnlockInner, LockWithListener, LockUserId, taskVars
<1>3. CASE Restart
  BY <1>3 DEF Restart, ReportInv, Free
<1>4. CASE UNCHANGED vars
  BY <1>1, <1>4 DEF vars, taskVars, appVars
<1> QED
  BY <1>2, <1>3, <1>4, AppReport, HandlerReport, TaskReport, AccountReport DEF Next

\* The answer given by the task that runs.
LEMMA UnlockResultReported ==
  ASSUME TypeOK, ReportInv, NEW r \in UnlockReqs, serving.on, UnlockResult(r) = "SUCC"
  PROVE  Owner[r] \in unlockReported
<1>1. CASE Owner[r] = serving.user
  BY <1>1 DEF UnlockResult, ReportInv
<1>2. CASE Owner[r] # serving.user
  <2>1. ~ScreenLocked(Owner[r])
    BY <1>2 DEF UnlockResult
  <2>2. Owner[r] \in DOMAIN isScreenlockedMap /\ ~isScreenlockedMap[Owner[r]]
    BY <2>1 DEF ScreenLocked
  <2> QED
    BY <2>2 DEF ReportInv
<1> QED
  BY <1>1, <1>2

LEMMA StepSuccess ==
  ASSUME TypeOK, ReportInv, [Next]_vars
  PROVE  \A r \in UnlockReqs : answer[r] = "none" /\ answer'[r] = "SUCC"
           => Owner[r] \in unlockReported
<1> SUFFICES ASSUME NEW r \in UnlockReqs, answer[r] = "none", answer'[r] = "SUCC"
             PROVE  Owner[r] \in unlockReported
  OBVIOUS
<1>1. ASSUME NEW q \in UnlockReqs, CallbackUnlockListener(q)
      PROVE  Owner[r] \in unlockReported
  <2>1. answer' = [answer EXCEPT ![q] = UnlockResult(q)] /\ serving.on
    BY <1>1 DEF CallbackUnlockListener
  <2>2. q = r /\ UnlockResult(r) = "SUCC"
    BY <2>1 DEF TypeOK
  <2> QED
    BY <2>1, <2>2, UnlockResultReported
<1>2. ASSUME NEW x \in {"SUCC", "FAIL", "CANCEL"}, RunLockTask(x) PROVE FALSE
  <2>1. r \notin lockVec
    BY DisjointAssumption DEF TypeOK
  <2> QED
    BY <1>2, <2>1 DEF RunLockTask
<1>3. CASE UNCHANGED answer
  BY <1>3
<1>4. CASE ClientStep \/ AppStep \/ AccountStep \/ Restart \/ UNCHANGED vars
  <2>1. UNCHANGED answer
    BY <1>4 DEF ClientStep, UnlockInner, LockWithListener, LockUserId, AppStep, AppAnswers,
                AppActs, AppCalls, OnSystemEvent, AppDies, AccountStep, AuthStateInit,
                OnRemoveUser, Restart, vars, reqVars
  <2> QED
    BY <2>1, <1>3
<1>5. CASE \E t \in AppThreads : HandlerStep(t)
  BY <1>3, <1>5 DEF HandlerStep, SetState, PublishUnlock, NotifyUnlockListener,
                    NotifyLockListener, reqVars
<1>6. CASE TaskStep
  BY <1>1, <1>2, <1>3, <1>6 DEF TaskStep, StartUnlockTask, EndUnlockTask, reqVars
<1> QED
  BY <1>4, <1>5, <1>6 DEF Next

\* A request is told SCREEN_SUCC only after its own user was reported unlocked
\* to this process.
THEOREM SuccessReported == Spec => SuccessNeedsUnlock
<1>1. TypeOK /\ ReportInv /\ [Next]_vars =>
        [\A r \in UnlockReqs : answer[r] = "none" /\ answer'[r] = "SUCC"
           => Owner[r] \in unlockReported]_vars
  BY StepSuccess
<1> QED
  BY <1>1, InitType, NextType, InitReport, NextReport, PTL DEF Spec, SuccessNeedsUnlock

-----------------------------------------------------------------------------
(* The request flow implements RequestPromise.                             *)

LEMMA InitWaiting == Init => WaitingInv
  BY DEF Init, WaitingInv

LEMMA NextWaiting == TypeOK /\ OnceInv /\ WaitingInv /\ [Next]_vars => WaitingInv'
<1> SUFFICES ASSUME TypeOK, OnceInv, WaitingInv, [Next]_vars PROVE WaitingInv'
  OBVIOUS
<1>1. ASSUME UNCHANGED <<pc, called, answer, unlockVec, lockVec>> PROVE WaitingInv'
  BY <1>1 DEF WaitingInv
<1>2. ASSUME NEW r \in UnlockReqs, UnlockInner(r) PROVE WaitingInv'
  <2>1. UNCHANGED <<called, answer, lockVec>>
    BY <1>2 DEF UnlockInner
  <2>2. /\ pc[r] \in {"idle", "half"} /\ pc'[r] \in {"half", "returned"}
        /\ \A q \in Reqs \ {r} : pc'[q] = pc[q]
        /\ unlockVec' \subseteq unlockVec \cup {r}
    BY <1>2 DEF UnlockInner, Advance, PushUnlock, EventUnlock, TypeOK
  <2> QED
    BY <2>1, <2>2 DEF WaitingInv, TypeOK
<1>3. ASSUME NEW r \in LockReqs, LockWithListener(r) PROVE WaitingInv'
  <2>1. UNCHANGED <<called, answer, unlockVec>>
    BY <1>3 DEF LockWithListener
  <2>2. /\ pc[r] \in {"idle", "half"} /\ pc'[r] \in {"half", "returned"}
        /\ \A q \in Reqs \ {r} : pc'[q] = pc[q]
        /\ lockVec' \subseteq lockVec \cup {r}
    BY <1>3 DEF LockWithListener, Advance, TypeOK
  <2> QED
    BY <2>1, <2>2 DEF WaitingInv, TypeOK
<1>4. ASSUME NEW r \in UnlockReqs, CallbackUnlockListener(r) PROVE WaitingInv'
  <2>1. UnlockResult(r) # "none"
    BY <1>4, ServingFields DEF CallbackUnlockListener, UnlockResult
  <2>2. /\ answer' = [answer EXCEPT ![r] = UnlockResult(r)]
        /\ called' = [called EXCEPT ![r] = @ + 1]
        /\ UNCHANGED <<pc, unlockVec, lockVec>>
    BY <1>4 DEF CallbackUnlockListener
  <2>3. called[r] \in Nat /\ called'[r] # 0 /\ answer'[r] # "none"
    BY <2>1, <2>2 DEF TypeOK
  <2>4. \A q \in Reqs \ {r} : called'[q] = called[q] /\ answer'[q] = answer[q]
    BY <2>2 DEF TypeOK
  <2> QED
    BY <2>2, <2>3, <2>4 DEF WaitingInv
<1>5. ASSUME NEW x \in {"SUCC", "FAIL", "CANCEL"}, RunLockTask(x) PROVE WaitingInv'
  <2>1. \A r \in Reqs :
          IF r \in lockVec THEN called'[r] # 0 /\ answer'[r] # "none"
          ELSE called'[r] = called[r] /\ answer'[r] = answer[r]
    BY <1>5 DEF RunLockTask, TypeOK
  <2>2. lockVec' = {} /\ UNCHANGED <<pc, unlockVec>>
    BY <1>5 DEF RunLockTask
  <2> QED
    BY <2>1, <2>2 DEF WaitingInv
<1>6. CASE EndUnlockTask
  BY <1>6 DEF EndUnlockTask, ClearedList, WaitingInv, reqVars
<1>7. CASE Restart
  BY <1>7 DEF Restart, WaitingInv
<1>8. CASE LockUserId \/ AppStep \/ AccountStep \/ UNCHANGED vars
  <2>1. CASE LockUserId \/ UNCHANGED vars
    BY <1>1, <2>1 DEF LockUserId, vars, reqVars
  <2>2. CASE AppStep
    <3>1. ASSUME NEW t, NEW e, NEW x, NEW u, AppCalls(t, e, x, u)
          PROVE  UNCHANGED <<pc, called, answer, unlockVec, lockVec>>
      BY <3>1, SMT DEF AppCalls, reqVars
    <3>2. CASE OnSystemEvent \/ AppDies
      BY <1>1, <3>2, SMT DEF OnSystemEvent, AppDies, reqVars
    <3> QED
      BY <1>1, <2>2, <3>1, <3>2, Zenon DEF AppStep, AppAnswers, AppActs
  <2>3. CASE AccountStep
    BY <1>1, <2>3, Zenon DEF AccountStep, AuthStateInit, OnRemoveUser, reqVars
  <2> QED
    BY <1>8, <2>1, <2>2, <2>3
<1>9. CASE \E t \in AppThreads : HandlerStep(t)
  BY <1>1, <1>9 DEF HandlerStep, SetState, PublishUnlock, NotifyUnlockListener,
                    NotifyLockListener, reqVars
<1>10. CASE \E k \in NotifyKinds : StartUnlockTask(k)
  BY <1>1, <1>10 DEF StartUnlockTask, reqVars
<1> QED
  BY <1>2, <1>3, <1>4, <1>5, <1>6, <1>7, <1>8, <1>9, <1>10 DEF Next, ClientStep, TaskStep

LEMMA PromiseInit == Init => Promise!Init
  BY DEF Init, Promise!Init, Promise!Reqs, Status

\* A step that leaves the status of every request and the reports alone.
LEMMA Stutter ==
  ASSUME UNCHANGED <<pc, answer, unlockReported>>
  PROVE  UNCHANGED <<[r \in Reqs |-> Status(r)], unlockReported>>
  BY DEF Status

LEMMA PromiseStep ==
  ASSUME TypeOK, OnceInv, WaitingInv, ReportInv, [Next]_vars
  PROVE  [Promise!Next]_<<[r \in Reqs |-> Status(r)], unlockReported>>
<1> DEFINE st == [r \in Reqs |-> Status(r)]
<1>1. ASSUME NEW r \in Reqs, Advance(r), UNCHANGED <<answer, unlockReported>>
      PROVE  [Promise!Next]_<<st, unlockReported>>
  <2>1. CASE pc[r] = "idle"
    <3>1. pc' = [pc EXCEPT ![r] = "half"]
      BY <1>1, <2>1 DEF Advance
    <3>2. answer[r] = "none"
      BY <2>1 DEF OnceInv, WaitingInv
    <3>3. st[r] = "new" /\ st' = [st EXCEPT ![r] = "waiting"]
      BY <1>1, <2>1, <3>1, <3>2 DEF Status, TypeOK
    <3>4. Promise!Ask(r)
      BY <1>1, <3>3 DEF Promise!Ask
    <3> QED
      BY <3>4 DEF Promise!Next, Promise!Reqs
  <2>2. CASE pc[r] = "half"
    <3>1. pc' = [pc EXCEPT ![r] = "returned"]
      BY <1>1, <2>2 DEF Advance
    <3>2. st' = st
      BY <1>1, <2>2, <3>1 DEF Status, TypeOK
    <3> QED
      BY <1>1, <3>2
  <2> QED
    BY <1>1, <2>1, <2>2 DEF Advance
<1>2. ASSUME NEW t \in AppThreads, SetState(t)
      PROVE  [Promise!Next]_<<st, unlockReported>>
  <2>1. call[t].user \in Users
    BY <1>2, CallFields DEF SetState
  <2>2. st' = st
    BY <1>2 DEF SetState, reqVars, Status
  <2>3. unlockReported' = unlockReported \cup {call[t].user} \/ unlockReported' = unlockReported
    BY <1>2 DEF SetState
  <2> QED
    BY <2>1, <2>2, <2>3 DEF Promise!Next, Promise!Report
<1>3. ASSUME NEW r \in UnlockReqs, CallbackUnlockListener(r)
      PROVE  [Promise!Next]_<<st, unlockReported>>
  <2> DEFINE x == UnlockResult(r)
  <2>1. serving \in [on : {TRUE}, result : {"SUCC", "CANCEL"}, user : Users,
                     todo : SUBSET UnlockReqs]
    BY <1>3, ServingFields DEF CallbackUnlockListener
  <2>2. x \in {"SUCC", "FAIL", "CANCEL"}
    BY <2>1 DEF UnlockResult
  <2>3. x = "SUCC" => Owner[r] \in unlockReported
    BY <1>3, UnlockResultReported DEF CallbackUnlockListener
  <2>4. answer[r] = "none" /\ pc[r] \in {"half", "returned"}
    BY <1>3 DEF CallbackUnlockListener, OnceInv, WaitingInv
  <2>5. answer' = [answer EXCEPT ![r] = x] /\ UNCHANGED <<pc, unlockReported>>
    BY <1>3 DEF CallbackUnlockListener
  <2>6. st[r] = "waiting"
    BY <2>4 DEF Status
  <2>7. st' = [st EXCEPT ![r] = x]
    <3> HIDE DEF x
    <3>1. \A q \in Reqs : st'[q] = IF q = r THEN x ELSE st[q]
      BY <2>2, <2>5 DEF Status, TypeOK
    <3> QED
      BY <3>1
  <2> HIDE DEF x, st
  <2>8. Promise!AnswerUnlock(r, x)
    BY <2>3, <2>5, <2>6, <2>7 DEF Promise!AnswerUnlock, st
  <2> QED
    BY <2>2, <2>8 DEF Promise!Next, Promise!Answers
<1>4. ASSUME NEW x \in {"SUCC", "FAIL", "CANCEL"}, RunLockTask(x)
      PROVE  [Promise!Next]_<<st, unlockReported>>
  <2>1. \A r \in lockVec : st[r] = "waiting"
    BY DEF Status, OnceInv, WaitingInv, TypeOK
  <2>2. UNCHANGED <<pc, unlockReported>> /\
        answer' = [r \in Reqs |-> IF r \in lockVec THEN x ELSE answer[r]]
    BY <1>4 DEF RunLockTask
  <2>3. st' = [r \in Reqs |-> IF r \in lockVec THEN x ELSE st[r]]
    <3>1. \A q \in Reqs : st'[q] = IF q \in lockVec THEN x ELSE st[q]
      BY <2>2 DEF Status
    <3> QED
      BY <3>1
  <2>4. lockVec \in SUBSET LockReqs
    BY DEF TypeOK
  <2>5. Promise!AnswerLocks(lockVec, x)
    BY <2>1, <2>2, <2>3 DEF Promise!AnswerLocks, Promise!Reqs
  <2> QED
    BY <2>4, <2>5 DEF Promise!Next, Promise!Answers
<1>5. CASE Restart
  <2>1. \A r \in Reqs : st'[r] = IF st[r] = "waiting" THEN "lost" ELSE st[r]
    BY <1>5 DEF Restart, Status, TypeOK
  <2>2. st' = [r \in Reqs |-> IF st[r] = "waiting" THEN "lost" ELSE st[r]]
    BY <2>1
  <2>3. unlockReported' = {}
    BY <1>5 DEF Restart
  <2> QED
    BY <2>2, <2>3 DEF Promise!Next, Promise!Crash, Promise!Reqs
<1>6. CASE LockUserId \/ AppStep \/ AccountStep \/ UNCHANGED vars
  BY <1>6, Stutter DEF LockUserId, AppStep, AppAnswers, AppActs, AppCalls, OnSystemEvent,
           AppDies, AccountStep, AuthStateInit, OnRemoveUser, vars, reqVars
<1>7. ASSUME NEW t \in AppThreads,
             PublishUnlock(t) \/ NotifyUnlockListener(t) \/ NotifyLockListener(t)
      PROVE  [Promise!Next]_<<st, unlockReported>>
  BY <1>7, Stutter DEF PublishUnlock, NotifyUnlockListener, NotifyLockListener, reqVars
<1>8. CASE (\E k \in NotifyKinds : StartUnlockTask(k)) \/ EndUnlockTask
  BY <1>8, Stutter DEF StartUnlockTask, EndUnlockTask, reqVars
<1>9. CASE ClientStep /\ ~LockUserId
  BY <1>1, <1>9 DEF ClientStep, UnlockInner, LockWithListener
<1> QED
  BY <1>2, <1>3, <1>4, <1>5, <1>6, <1>7, <1>8, <1>9 DEF Next, HandlerStep, TaskStep

\* Every behaviour of the request flow is one RequestPromise allows.
THEOREM FlowKeepsPromise == Spec => KeepsPromise
<1>1. TypeOK /\ OnceInv /\ WaitingInv /\ ReportInv /\ [Next]_vars =>
        [Promise!Next]_<<[r \in Reqs |-> Status(r)], unlockReported>>
  BY PromiseStep
<1> QED
  BY <1>1, InitType, NextType, InitOnce, NextOnce, InitWaiting, NextWaiting, InitReport,
     NextReport, PromiseInit, PTL DEF Spec, KeepsPromise, Promise!Spec

-----------------------------------------------------------------------------
(* The published events and the stored states.                             *)

LEMMA InitPublished == Init => PublishedInv
  BY DEF Init, PublishedInv, PublishedRight, Publishing

\* A step that leaves these four alone, or only ever ends calls.
LEMMA PublishedKept ==
  ASSUME PublishedInv, UNCHANGED <<call, published, isScreenlockedMap, removed, restarts>>
  PROVE  PublishedInv'
BY DEF PublishedInv, PublishedRight, Publishing

LEMMA SetStatePublished ==
  ASSUME TypeOK, PublishedInv, SerialCalls, NEW t \in AppThreads, SetState(t)
  PROVE  PublishedInv'
<1> DEFINE c == call[t]
<1>1. /\ c # Idle /\ c.pc = "enter" /\ c.event \in {"UNLOCK", "LOCK"} /\ c.user \in Users
      /\ UNCHANGED <<published, removed, restarts>>
  BY CallFields DEF SetState
<1>2. /\ \A s \in AppThreads \ {t} : call'[s] = call[s]
      /\ call'[t] # Idle =>
           /\ call'[t].event = c.event /\ call'[t].result = c.result /\ call'[t].user = c.user
  BY StepCall DEF SetState
<1>3. /\ call'[t] # Idle /\ call'[t].pc = "publish" =>
           c.event = "UNLOCK" /\ c.result \in {"SUCC", "EARLY"}
      /\ c.event = "UNLOCK" /\ c.result \in {"SUCC", "EARLY"} =>
           call'[t] # Idle /\ call'[t].pc = "publish"
      /\ c.event = "LOCK" => call'[t] # Idle /\ call'[t].pc = "notify"
  <2>1. ASSUME NEW where \in {"publish", "notify", "done"}, Step(t, where)
        PROVE  IF where = "done" THEN call'[t] = Idle ELSE call'[t] # Idle /\ call'[t].pc = where
    <3>1. CASE where = "done"
      BY <2>1, <3>1 DEF Step, TypeOK
    <3>2. CASE where # "done"
      <4>1. call'[t] = [c EXCEPT !.pc = where]
        BY <2>1, <3>2 DEF Step, TypeOK
      <4>2. call'[t].pc = where
        BY <1>1, <4>1, CallFields
      <4> QED
        BY <3>2, <4>1, <4>2, <1>2, <1>1, CallFields DEF Idle
    <3> QED
      BY <3>1, <3>2
  <2>2. CASE c.event = "LOCK"
    <3>1. Step(t, "notify")
      BY <2>2 DEF SetState
    <3> QED
      BY <1>1, <2>1, <2>2, <3>1
  <2>3. CASE c.event # "LOCK" /\ c.result \in {"SUCC", "EARLY"}
    BY <1>1, <2>1, <2>3 DEF SetState
  <2>4. CASE c.event # "LOCK" /\ c.result = "FAIL"
    BY <2>1, <2>4 DEF SetState
  <2>5. CASE c.event # "LOCK" /\ c.result \notin {"SUCC", "EARLY", "FAIL"}
    BY <2>1, <2>5 DEF SetState
  <2> QED
    BY <2>2, <2>3, <2>4, <2>5
<1>4. \A u \in Users, s \in AppThreads \ {t} : Publishing(s, u)' <=> Publishing(s, u)
  BY <1>2 DEF Publishing
<1>5. \A u \in Users : ~Publishing(t, u)
  BY <1>1 DEF Publishing
<1>6. \A u \in Users : Publishing(t, u)' =>
        /\ u = c.user
        /\ c.result = "SUCC" \/ (c.event = "UNLOCK" /\ c.result = "EARLY")
  BY <1>2, <1>3 DEF Publishing
<1> HIDE DEF c
<1>7. CASE c.result = "SUCC" \/ (c.event = "UNLOCK" /\ c.result = "EARLY")
  <2>1. /\ DOMAIN isScreenlockedMap' = DOMAIN isScreenlockedMap \cup {c.user}
        /\ isScreenlockedMap'[c.user] = (c.event = "LOCK")
        /\ \A u \in DOMAIN isScreenlockedMap \ {c.user} :
             isScreenlockedMap'[u] = isScreenlockedMap[u]
    BY <1>7, Zenon DEF SetState, SetScreenlocked, c
  <2>2. \A s \in AppThreads \ {t} : ~Publishing(s, c.user)
    BY <1>1 DEF SerialCalls, Publishing, c
  <2>3. call'[t].event = c.event /\ \A u \in Users : u = c.user => Publishing(t, u)'
    <3>1. CASE c.event = "LOCK"
      BY <1>2, <1>3, <1>7, <3>1 DEF Publishing
    <3>2. CASE c.event = "UNLOCK"
      BY <1>2, <1>3, <1>7, <3>2 DEF Publishing
    <3> QED
      BY <1>1, <3>1, <3>2 DEF c
  <2>4. ASSUME restarts = 0, NEW u \in Users \ removed
        PROVE  PublishedRight(u)'
    <3>1. PublishedRight(u)
      BY <2>4 DEF PublishedInv
    <3>2. CASE u = c.user
      <4>1. \A s \in AppThreads \ {t} : ~Publishing(s, u)'
        BY <1>4, <2>2, <2>4, <3>2
      <4> QED
        BY <2>1, <2>3, <3>2, <4>1 DEF PublishedRight
    <3>3. CASE u # c.user
      <4>1. ~Publishing(t, u)' /\ ~Publishing(t, u)
        BY <1>5, <1>6, <2>4, <3>3
      <4>2. u \in DOMAIN isScreenlockedMap =>
              u \in DOMAIN isScreenlockedMap' /\ isScreenlockedMap'[u] = isScreenlockedMap[u]
        BY <2>1, <3>3
      <4>3. \A s \in AppThreads : Publishing(s, u)' <=> Publishing(s, u)
        BY <1>4, <2>4, <4>1
      <4>4. \A s \in AppThreads : Publishing(s, u)' => call'[s] = call[s]
        BY <1>2, <4>1
      <4>5. published'[u] = published[u]
        BY <1>1
      <4> QED
        BY <3>1, <4>2, <4>3, <4>4, <4>5 DEF PublishedRight
    <3> QED
      BY <3>2, <3>3
  <2> QED
    BY <1>1, <1>2, <1>3, <2>4 DEF PublishedInv, c
<1>8. CASE ~(c.result = "SUCC" \/ (c.event = "UNLOCK" /\ c.result = "EARLY"))
  <2>1. UNCHANGED isScreenlockedMap
    BY <1>8 DEF SetState, c
  <2>2. \A u \in Users, s \in AppThreads : Publishing(s, u)' <=> Publishing(s, u)
    BY <1>4, <1>5, <1>6, <1>8
  <2>3. \A u \in Users, s \in AppThreads : Publishing(s, u)' => call'[s].event = call[s].event
    BY <1>2 DEF Publishing, c
  <2>4. ASSUME restarts = 0, NEW u \in Users \ removed PROVE PublishedRight(u)'
    BY <1>1, <2>1, <2>2, <2>3, <2>4 DEF PublishedInv, PublishedRight
  <2> QED
    BY <1>1, <1>2, <1>3, <2>4 DEF PublishedInv, c
<1> QED
  BY <1>7, <1>8

\* A call that publishes what it set, or has nothing to publish.
LEMMA PublishPublished ==
  ASSUME TypeOK, PublishedInv, SerialCalls, NEW t \in AppThreads,
         PublishUnlock(t) \/ NotifyUnlockListener(t) \/ NotifyLockListener(t)
  PROVE  PublishedInv'
<1> DEFINE c == call[t]
<1>1. /\ c # Idle /\ c.user \in Users
      /\ UNCHANGED <<isScreenlockedMap, removed, restarts>>
  BY CallFields DEF PublishUnlock, NotifyUnlockListener, NotifyLockListener
<1>2. /\ \A s \in AppThreads \ {t} : call'[s] = call[s]
      /\ call'[t] # Idle =>
           call'[t].event = c.event /\ call'[t].user = c.user /\ c.event = "UNLOCK"
           /\ call'[t].pc = "notify"
  <2>1. \A s \in AppThreads \ {t} : call'[s] = call[s]
    BY StepCall DEF PublishUnlock, NotifyUnlockListener, NotifyLockListener
  <2>2. CASE Step(t, "done")
    <3>1. call'[t] = Idle
      BY <2>2 DEF Step, TypeOK
    <3> QED
      BY <2>1, <3>1
  <2>3. CASE PublishUnlock(t) /\ Step(t, "notify")
    <3>1. call'[t] = [c EXCEPT !.pc = "notify"]
      BY <2>3 DEF Step, TypeOK
    <3>2. c.event = "UNLOCK"
      BY <2>3 DEF PublishUnlock, PublishedInv
    <3> QED
      BY <1>1, <2>1, <3>1, <3>2, CallFields
  <2> QED
    BY <2>2, <2>3 DEF PublishUnlock, NotifyUnlockListener, NotifyLockListener
<1>3. \A u \in Users, s \in AppThreads \ {t} : Publishing(s, u)' <=> Publishing(s, u)
  BY <1>2 DEF Publishing
<1>4. \A u \in Users : ~Publishing(t, u)'
  BY <1>2 DEF Publishing
<1>5. \A s \in AppThreads : call'[s] # Idle /\ call'[s].pc = "publish" =>
        call'[s].event = "UNLOCK" /\ call'[s].result \in {"SUCC", "EARLY"}
  BY <1>2 DEF PublishedInv
<1>6. CASE Publishing(t, c.user)
  <2>1. \A s \in AppThreads \ {t} : ~Publishing(s, c.user)
    BY <1>1 DEF SerialCalls, Publishing
  <2>2. published' = [published EXCEPT ![c.user] =
          IF c.event = "LOCK" THEN "LOCKED"
          ELSE IF c.result = "EARLY" THEN "EXITING" ELSE "UNLOCKED"]
    <3>1. CASE PublishUnlock(t)
      BY <3>1 DEF PublishUnlock, PublishedInv
    <3>2. CASE NotifyLockListener(t)
      BY <1>6, <3>2 DEF NotifyLockListener, LockPublishes, Publishing
    <3>3. CASE NotifyUnlockListener(t)
      BY <1>6, <3>3 DEF NotifyUnlockListener, Publishing
    <3> QED
      BY <3>1, <3>2, <3>3
  <2>3. published' \in [Users -> {"none", "LOCKED", "EXITING", "UNLOCKED"}]
        /\ published'[c.user] # "none" /\ (published'[c.user] = "LOCKED" <=> c.event = "LOCK")
        /\ \A u \in Users \ {c.user} : published'[u] = published[u]
    BY <1>1, <2>2 DEF TypeOK
  <2> HIDE DEF c
  <2>4. restarts = 0 /\ c.user \notin removed =>
          /\ c.user \in DOMAIN isScreenlockedMap
          /\ isScreenlockedMap[c.user] = (c.event = "LOCK")
    BY <1>1, <1>6 DEF PublishedInv, PublishedRight, c
  <2>5. \A u \in Users \ {c.user} : ~Publishing(t, u)
    BY DEF Publishing, c
  <2>6. restarts = 0 => \A u \in Users \ removed :
          PublishedRight(u)'
    <3> SUFFICES ASSUME restarts = 0, NEW u \in Users \ removed PROVE PublishedRight(u)'
      OBVIOUS
    <3>1. CASE u = c.user
      BY <1>1, <1>3, <1>4, <2>1, <2>3, <2>4, <3>1 DEF PublishedRight
    <3>2. CASE u # c.user
      BY <1>1, <1>2, <1>3, <1>4, <2>3, <2>5, <3>2 DEF PublishedInv, PublishedRight
    <3> QED
      BY <3>1, <3>2
  <2> QED
    BY <1>1, <1>5, <2>6 DEF PublishedInv
<1>7. CASE ~Publishing(t, c.user)
  <2>1. UNCHANGED published
    BY <1>1, <1>7 DEF PublishUnlock, NotifyUnlockListener, NotifyLockListener, LockPublishes,
       Publishing
  <2>2. \A u \in Users : ~Publishing(t, u)
    BY <1>7 DEF Publishing
  <2>3. ASSUME restarts = 0, NEW u \in Users \ removed PROVE PublishedRight(u)'
    BY <1>1, <1>2, <1>3, <1>4, <2>1, <2>2, <2>3 DEF PublishedInv, PublishedRight
  <2> QED
    BY <1>1, <1>5, <2>3 DEF PublishedInv
<1> QED
  BY <1>6, <1>7

LEMMA AppPublished ==
  ASSUME TypeOK, PublishedInv, NEW t \in AppThreads, NEW e \in {"UNLOCK", "LOCK"},
         NEW x \in Results, NEW v \in Users, AppCalls(t, e, x, v)
  PROVE  PublishedInv'
<1>1. /\ UNCHANGED <<published, isScreenlockedMap, removed, restarts>>
      /\ call' = [call EXCEPT ![t] = Call(e, x, v)]
      /\ call[t] = Idle /\ Call(e, x, v).pc = "enter"
  BY DEF AppCalls, Call
<1>2. \A s \in AppThreads : s # t => call'[s] = call[s]
  BY <1>1 DEF TypeOK
<1>3. call'[t].pc = "enter"
  BY <1>1 DEF TypeOK
<1>4. \A u \in Users, s \in AppThreads : Publishing(s, u)' <=> Publishing(s, u)
  BY <1>1, <1>2, <1>3 DEF Publishing
<1> QED
  BY <1>1, <1>2, <1>3, <1>4 DEF PublishedInv, PublishedRight, Publishing

LEMMA AccountPublished == TypeOK /\ PublishedInv /\ AccountStep => PublishedInv'
<1>1. ASSUME TypeOK, PublishedInv, NEW u \in Users, AuthStateInit(u) PROVE PublishedInv'
  <2>1. /\ UNCHANGED <<call, published, removed, restarts>>
        /\ u \notin DOMAIN isScreenlockedMap
        /\ DOMAIN isScreenlockedMap' = DOMAIN isScreenlockedMap \cup {u}
        /\ \A v \in DOMAIN isScreenlockedMap : isScreenlockedMap'[v] = isScreenlockedMap[v]
    BY <1>1 DEF AuthStateInit, SetScreenlocked, appVars
  <2> QED
    BY <1>1, <2>1 DEF PublishedInv, PublishedRight, Publishing
<1>2. ASSUME TypeOK, PublishedInv, NEW u \in Users, OnRemoveUser(u) PROVE PublishedInv'
  <2>1. /\ UNCHANGED <<call, published, restarts>>
        /\ removed' = removed \cup {u}
        /\ DOMAIN isScreenlockedMap' = DOMAIN isScreenlockedMap \ {u}
        /\ \A v \in DOMAIN isScreenlockedMap' : isScreenlockedMap'[v] = isScreenlockedMap[v]
    BY <1>2 DEF OnRemoveUser, appVars
  <2> QED
    BY <1>2, <2>1 DEF PublishedInv, PublishedRight, Publishing
<1> QED
  BY <1>1, <1>2 DEF AccountStep

LEMMA NextPublished == TypeOK /\ SerialCalls /\ PublishedInv /\ [Next]_vars => PublishedInv'
<1> SUFFICES ASSUME TypeOK, SerialCalls, PublishedInv, [Next]_vars PROVE PublishedInv'
  OBVIOUS
<1>1. CASE ClientStep
  BY <1>1, PublishedKept DEF ClientStep, UnlockInner, LockWithListener, LockUserId
<1>2. CASE AppStep
  <2>1. CASE OnSystemEvent \/ AppDies
    BY <2>1, PublishedKept DEF OnSystemEvent, AppDies, appVars
  <2> QED
    BY <1>2, <2>1, AppPublished DEF AppStep, AppAnswers, AppActs
<1>3. ASSUME NEW t \in AppThreads, HandlerStep(t) PROVE PublishedInv'
  BY <1>3, SetStatePublished, PublishPublished DEF HandlerStep
<1>4. CASE TaskStep
  BY <1>4, PublishedKept DEF TaskStep, StartUnlockTask, CallbackUnlockListener, EndUnlockTask,
     RunLockTask, appVars
<1>5. CASE Restart
  <2>1. restarts' # 0 /\ \A t \in AppThreads : call'[t] = Idle
    BY <1>5 DEF Restart, TypeOK
  <2> QED
    BY <2>1 DEF PublishedInv
<1>6. CASE UNCHANGED vars
  BY <1>6, PublishedKept DEF vars, appVars
<1> QED
  BY <1>1, <1>2, <1>3, <1>4, <1>5, <1>6, AccountPublished DEF Next

(* However many threads the app has, as long as it reports the results of one
   user one after the other: once its calls have returned, the last published
   lock event of a user agrees with what IsScreenLocked answers
   (UnlockScreenEvent, LockScreenEvent, PublishEvent). *)
THEOREM PublishedInAgreement == Spec /\ []SerialCalls => []PublishedAgrees
<1>1. TypeOK /\ PublishedInv => PublishedAgrees
  <2> SUFFICES ASSUME TypeOK, PublishedInv, \A t \in AppThreads : call[t] = Idle,
                      NEW u \in DOMAIN isScreenlockedMap \ removed,
                      published[u] # "none", restarts = 0
               PROVE  (published[u] = "LOCKED") = isScreenlockedMap[u]
    BY DEF PublishedAgrees
  <2>1. u \in Users
    BY DEF TypeOK, PartialLocks
  <2> QED
    BY <2>1 DEF PublishedInv, PublishedRight, Publishing
<1> QED
  BY <1>1, InitType, NextType, InitPublished, NextPublished, PTL DEF Spec

(* The case of an app that calls SendScreenLockEvent on one thread. *)
THEOREM PublishedByOneThread ==
  ASSUME \A s, t \in AppThreads : s = t
  PROVE  Spec => []PublishedAgrees
<1>1. SerialCalls
  BY DEF SerialCalls
<1>2. []SerialCalls
  BY <1>1, PTL
<1> QED
  BY <1>2, PublishedInAgreement, PTL
=============================================================================
