----------------------- MODULE LockPreferences_proofs ------------------------
(***************************************************************************)
(* Theorems about LockPreferences, for any users and bounds, with the      *)
(* callbacks and calls interleaving freely and the service dying.          *)
(***************************************************************************)
EXTENDS LockPreferences, SequenceTheorems, TLAPS

Thread == [user : Users \cup {"nobody"}, value : {"off", "on"}, todo : Seq(Ops)]

-----------------------------------------------------------------------------
(* Threads.                                                                *)

\* Steps as StepsOK wants them, of a sequence rather than of a thread.
OrderlyAt(s, todo, k) ==
  /\ todo[k] \in {"put", "unset"} => k + 1 = Len(todo) /\ todo[k + 1] = "flush"
  /\ todo[k] = "erase" => s = "remove" /\ k + 1 = Len(todo) /\ todo[k + 1] = "unsetPolicy"

Orderly(s, todo) == \A k \in 1..Len(todo) : OrderlyAt(s, todo, k)

LEMMA PrefixOrderly ==
  ASSUME NEW s, NEW todo \in Seq(Ops), Orderly(s, todo),
         NEW op \in Ops \ {"put", "unset", "erase"}
  PROVE  <<op>> \o todo \in Seq(Ops) /\ Orderly(s, <<op>> \o todo)
<1>1. <<op>> \in Seq(Ops) /\ Len(<<op>>) = 1 /\ <<op>>[1] = op
  OBVIOUS
<1>2. /\ <<op>> \o todo \in Seq(Ops) /\ Len(<<op>> \o todo) = Len(todo) + 1 /\ Len(todo) \in Nat
      /\ \A i \in 1..Len(todo) + 1 : (<<op>> \o todo)[i] = IF i = 1 THEN op ELSE todo[i - 1]
  BY <1>1, ConcatProperties
<1>3. ASSUME NEW i \in 1..Len(todo) + 1, i # 1
      PROVE  i - 1 \in 1..Len(todo) /\ (<<op>> \o todo)[i] = todo[i - 1]
  BY <1>2, <1>3
<1>4. ASSUME NEW i \in 1..Len(todo) + 1, i # 1, (i - 1) + 1 = Len(todo)
      PROVE  i + 1 = Len(<<op>> \o todo) /\ (<<op>> \o todo)[i + 1] = todo[(i - 1) + 1]
  BY <1>2, <1>4
<1> DEFINE t == <<op>> \o todo
<1>5. ASSUME NEW k \in 1..Len(t) PROVE OrderlyAt(s, t, k)
  <2>1. CASE k = 1
    BY <1>2, <2>1 DEF OrderlyAt
  <2>2. CASE k # 1
    <3>1. k \in 1..Len(todo) + 1
      BY <1>2
    <3>2. k - 1 \in 1..Len(todo) /\ t[k] = todo[k - 1]
      BY <1>3, <2>2, <3>1
    <3>3. (k - 1) + 1 = Len(todo) => k + 1 = Len(t) /\ t[k + 1] = todo[(k - 1) + 1]
      BY <1>4, <2>2, <3>1
    <3>4. OrderlyAt(s, todo, k - 1)
      BY <3>2 DEF Orderly
    <3> QED
      BY <3>2, <3>3, <3>4 DEF OrderlyAt
  <2> QED
    BY <2>1, <2>2
<1> QED
  BY <1>2, <1>5 DEF Orderly

\* A check, the store and its flush.
LEMMA ThreeSteps ==
  ASSUME NEW s, NEW op \in Ops \ {"put", "unset", "erase"}
  PROVE  <<op, "put", "flush">> \in Seq(Ops) /\ Orderly(s, <<op, "put", "flush">>)
<1> DEFINE t == <<op, "put", "flush">>
<1>1. Len(t) = 3 /\ t[1] = op /\ t[2] = "put" /\ t[3] = "flush"
  OBVIOUS
<1>2. \A k \in 1..Len(t) : k = 1 \/ k = 2 \/ k = 3
  BY <1>1
<1>3. OrderlyAt(s, t, 1) /\ OrderlyAt(s, t, 2) /\ OrderlyAt(s, t, 3)
  BY <1>1 DEF OrderlyAt
<1>4. Orderly(s, t)
  BY <1>2, <1>3 DEF Orderly
<1>5. t \in Seq(Ops)
  <2>1. op \in Ops /\ "put" \in Ops /\ "flush" \in Ops
    BY DEF Ops
  <2> QED
    BY <2>1
<1> QED
  BY <1>4, <1>5

LEMMA TwoSteps ==
  ASSUME NEW s
  PROVE  /\ OnReceiveEventSteps \in Seq(Ops) /\ Orderly(s, OnReceiveEventSteps)
         /\ OnRemoveUserSteps \in Seq(Ops) /\ Orderly("remove", OnRemoveUserSteps)
<1>1. ASSUME NEW a, NEW b
      PROVE  /\ Len(<<a, b>>) = 2 /\ <<a, b>>[1] = a /\ <<a, b>>[2] = b
             /\ \A k \in 1..Len(<<a, b>>) : k = 1 \/ k = 2
  OBVIOUS
<1>2. Orderly(s, OnReceiveEventSteps)
  <2>1. OrderlyAt(s, OnReceiveEventSteps, 1) /\ OrderlyAt(s, OnReceiveEventSteps, 2)
    BY <1>1 DEF OrderlyAt, OnReceiveEventSteps
  <2> QED
    BY <1>1, <2>1 DEF Orderly, OnReceiveEventSteps
<1>3. Orderly("remove", OnRemoveUserSteps)
  <2>1. OrderlyAt("remove", OnRemoveUserSteps, 1) /\ OrderlyAt("remove", OnRemoveUserSteps, 2)
    BY <1>1 DEF OrderlyAt, OnRemoveUserSteps
  <2> QED
    BY <1>1, <2>1 DEF Orderly, OnRemoveUserSteps
<1>4. OnReceiveEventSteps \in Seq(Ops) /\ OnRemoveUserSteps \in Seq(Ops)
  BY DEF OnReceiveEventSteps, OnRemoveUserSteps, Ops
<1> QED
  BY <1>2, <1>3, <1>4

\* The handlers are such sequences.
LEMMA HandlersOrderly ==
  ASSUME NEW s, NEW b \in BOOLEAN
  PROVE  /\ SetScreenLockDisabledSteps(b) \in Seq(Ops) /\ Orderly(s, SetScreenLockDisabledSteps(b))
         /\ <<"active">> \o FreshDisabledState \in Seq(Ops)
         /\ Orderly(s, <<"active">> \o FreshDisabledState)
         /\ OnActiveUserSteps \in Seq(Ops) /\ Orderly(s, OnActiveUserSteps)
         /\ InitUserId \in Seq(Ops) /\ Orderly(s, InitUserId)
<1>1. "active" \in Ops /\ "secure" \in Ops /\ "differs" \in Ops /\ "notOn" \in Ops /\ "insert" \in Ops
  BY DEF Ops
<1>2. FreshDisabledState \in Seq(Ops) /\ Orderly(s, FreshDisabledState)
  BY <1>1, ThreeSteps DEF FreshDisabledState
<1>3. InitUserId \in Seq(Ops) /\ Orderly(s, InitUserId)
  BY <1>1, ThreeSteps DEF InitUserId
<1>4. OnActiveUserSteps \in Seq(Ops) /\ Orderly(s, OnActiveUserSteps)
  BY <1>1, <1>3, PrefixOrderly DEF OnActiveUserSteps
<1>5. <<"active">> \o FreshDisabledState \in Seq(Ops) /\ Orderly(s, <<"active">> \o FreshDisabledState)
  BY <1>1, <1>2, PrefixOrderly
<1>6. <<"secure">> \o FreshDisabledState \in Seq(Ops) /\ Orderly(s, <<"secure">> \o FreshDisabledState)
  BY <1>1, <1>2, PrefixOrderly
<1>7. /\ <<"active">> \o (<<"secure">> \o FreshDisabledState) \in Seq(Ops)
      /\ Orderly(s, <<"active">> \o (<<"secure">> \o FreshDisabledState))
  BY <1>1, <1>6, PrefixOrderly
<1> QED
  BY <1>3, <1>4, <1>5, <1>7 DEF SetScreenLockDisabledSteps

LEMMA EmptyOrderly == ASSUME NEW s PROVE <<>> \in Seq(Ops) /\ Orderly(s, <<>>)
BY DEF Orderly

LEMMA HeadIsFirst == ASSUME NEW t \in Seq(Ops), t # <<>> PROVE Head(t) = t[1]
OBVIOUS

LEMMA OneLess ==
  \A k, m, n \in Nat : (k + 1) + 1 = n /\ m = n - 1 => k + 1 = m
OBVIOUS

LEMMA TailOrderly ==
  ASSUME NEW s, NEW todo \in Seq(Ops), todo # <<>>, Orderly(s, todo)
  PROVE  Tail(todo) \in Seq(Ops) /\ Orderly(s, Tail(todo))
<1>1. /\ Tail(todo) \in Seq(Ops) /\ Len(Tail(todo)) = Len(todo) - 1 /\ Len(todo) \in Nat
      /\ \A k \in 1..Len(Tail(todo)) : Tail(todo)[k] = todo[k + 1]
  OBVIOUS
<1>2. ASSUME NEW k \in 1..Len(Tail(todo)) PROVE OrderlyAt(s, Tail(todo), k)
  <2>1. k + 1 \in 1..Len(todo) /\ Tail(todo)[k] = todo[k + 1]
    BY <1>1
  <2>2. OrderlyAt(s, todo, k + 1)
    BY <2>1 DEF Orderly
  <2>3. ASSUME (k + 1) + 1 = Len(todo)
        PROVE  k + 1 = Len(Tail(todo)) /\ Tail(todo)[k + 1] = todo[(k + 1) + 1]
    <3>1. k \in Nat /\ Len(Tail(todo)) \in Nat
      BY <1>1
    <3>2. k + 1 = Len(Tail(todo))
      BY <1>1, <2>3, <3>1, OneLess, Zenon
    <3>3. k + 1 \in 1..Len(Tail(todo))
      BY <3>1, <3>2
    <3> QED
      BY <1>1, <3>2, <3>3
  <2> QED
    BY <2>1, <2>2, <2>3 DEF OrderlyAt
<1> QED
  BY <1>1, <1>2 DEF Orderly

ThreadsOK ==
  /\ thread \in [Sources -> Thread]
  /\ \A s \in Sources : thread[s].todo # <<>> => thread[s].user \in Users
  /\ \A s \in Sources : Orderly(s, thread[s].todo)

LEMMA BeginThreads ==
  ASSUME ThreadsOK, NEW s \in Sources, NEW u \in Users, NEW v \in {"off", "on"},
         NEW todo \in Seq(Ops), Orderly(s, todo), Begin(s, u, v, todo)
  PROVE  ThreadsOK' /\ (\A r \in Sources : Busy(r) => thread'[r] = thread[r])
<1>1. [user |-> u, value |-> v, todo |-> todo] \in Thread
  BY DEF Thread
<1>2. thread' = [thread EXCEPT ![s] = [user |-> u, value |-> v, todo |-> todo]] /\ ~Busy(s)
  BY DEF Begin
<1> QED
  BY <1>1, <1>2 DEF ThreadsOK, Busy

\* A step of a thread takes its first operation away, or all.
LEMMA StepThreads ==
  ASSUME ThreadsOK, NEW s \in Sources, Busy(s), NEW b \in BOOLEAN, Continue(s, b)
  PROVE  /\ ThreadsOK'
         /\ \A r \in Sources \ {s} : thread'[r] = thread[r]
         /\ thread'[s].user = thread[s].user
         /\ b => thread'[s].todo = Tail(thread[s].todo)
<1> DEFINE todo == IF b THEN Tail(thread[s].todo) ELSE <<>>
<1>1. thread[s] \in Thread /\ thread[s].todo \in Seq(Ops) /\ thread[s].todo # <<>>
  BY DEF ThreadsOK, Thread, Busy
<1>2. todo \in Seq(Ops) /\ Orderly(s, todo)
  BY <1>1, TailOrderly, EmptyOrderly DEF ThreadsOK
<1>3. thread' = [thread EXCEPT ![s] = [thread[s] EXCEPT !.todo = todo]]
  BY DEF Continue, Goto
<1>4. [thread[s] EXCEPT !.todo = todo] \in Thread
  BY <1>1, <1>2 DEF Thread
<1>5. /\ thread' \in [Sources -> Thread]
      /\ thread'[s].user = thread[s].user /\ thread'[s].todo = todo
      /\ \A r \in Sources \ {s} : thread'[r] = thread[r]
  BY <1>1, <1>3, <1>4 DEF ThreadsOK, Thread
<1>6. ThreadsOK'
  BY <1>1, <1>2, <1>5 DEF ThreadsOK
<1> QED
  BY <1>5, <1>6

-----------------------------------------------------------------------------
(* Type correctness and the order of the steps.                            *)

OthersOK ==
  /\ disabled \in [Users -> Flag] /\ policy \in [Users -> Policies \cup {0}]
  /\ file \in [disabled : [Users -> Flag], policy : [Users -> Policies \cup {0}]]
  /\ flushing \in BOOLEAN
  /\ authStateInfo \in SUBSET Users
  /\ active \in Users /\ pin \in [Users -> BOOLEAN]
  /\ credEvents \in SUBSET Users /\ commonEvents \in SUBSET Users
  /\ granted \in SUBSET Users /\ overlapped \in SUBSET Users
  /\ calls \in Nat /\ crashes \in Nat

LEMMA TypeParts ==
  PreferencesTypeOK /\ (\A s \in Sources : StepsOK(s)) <=> OthersOK /\ ThreadsOK
<1>1. \A s \in Sources : StepsOK(s) <=> Orderly(s, thread[s].todo)
  BY DEF StepsOK, Orderly, OrderlyAt
<1> QED
  BY <1>1 DEF PreferencesTypeOK, OthersOK, ThreadsOK, Thread

LEMMA InitTypes == Init => OthersOK /\ ThreadsOK
<1> SUFFICES ASSUME Init PROVE OthersOK /\ ThreadsOK
  OBVIOUS
<1>1. OthersOK
  BY DEF Init, OthersOK, Flag
<1>2. NoThread \in Thread /\ NoThread.todo = <<>>
  BY DEF NoThread, Thread
<1>3. ThreadsOK
  BY <1>2, EmptyOrderly DEF Init, ThreadsOK
<1> QED
  BY <1>1, <1>3

\* The handlers that begin change nothing but their thread and what is outside.
Arrival ==
  \E u \in Users :
    \/ \E b \in BOOLEAN : SetScreenLockDisabled(u, b)
    \/ OnNotifyCredChangeEvent(u) \/ OnReceiveEvent(u) \/ OnActiveUser(u) \/ OnRemoveUser(u)

LEMMA ArrivalTypes ==
  ASSUME OthersOK, ThreadsOK, Arrival
  PROVE  /\ OthersOK' /\ ThreadsOK'
         /\ \A r \in Sources : Busy(r) => thread'[r] = thread[r]
         /\ UNCHANGED <<cache, file, flushing, authStateInfo, crashes>>
<1> DEFINE Good == /\ OthersOK' /\ ThreadsOK'
                   /\ \A r \in Sources : Busy(r) => thread'[r] = thread[r]
                   /\ UNCHANGED <<cache, file, flushing, authStateInfo, crashes>>
<1>1. ASSUME NEW u \in Users, NEW b \in BOOLEAN, SetScreenLockDisabled(u, b) PROVE Good
  <2>1. ThreadsOK' /\ \A r \in Sources : Busy(r) => thread'[r] = thread[r]
    BY <1>1, BeginThreads, HandlersOrderly DEF SetScreenLockDisabled, Sources
  <2>2. overlapped' \in SUBSET Users
    BY <1>1 DEF SetScreenLockDisabled, Begin, OthersOK
  <2> QED
    BY <1>1, <2>1, <2>2 DEF SetScreenLockDisabled, Counted, OthersOK, cache, outside
<1>2. ASSUME NEW u \in Users, OnNotifyCredChangeEvent(u) PROVE Good
  <2>1. ThreadsOK' /\ \A r \in Sources : Busy(r) => thread'[r] = thread[r]
    BY <1>2, BeginThreads, HandlersOrderly DEF OnNotifyCredChangeEvent, Sources
  <2>2. overlapped' \in SUBSET Users
    BY <1>2 DEF OnNotifyCredChangeEvent, Begin, OthersOK
  <2> QED
    BY <1>2, <2>1, <2>2 DEF OnNotifyCredChangeEvent, OthersOK, cache, counters
<1>3. ASSUME NEW u \in Users, OnReceiveEvent(u) PROVE Good
  <2>1. ThreadsOK' /\ \A r \in Sources : Busy(r) => thread'[r] = thread[r]
    BY <1>3, BeginThreads, TwoSteps DEF OnReceiveEvent, Sources
  <2>2. overlapped' \in SUBSET Users
    BY <1>3 DEF OnReceiveEvent, Begin, OthersOK
  <2> QED
    BY <1>3, <2>1, <2>2 DEF OnReceiveEvent, OthersOK, cache, counters
<1>4. ASSUME NEW u \in Users, OnActiveUser(u) PROVE Good
  <2>1. ThreadsOK' /\ \A r \in Sources : Busy(r) => thread'[r] = thread[r]
    BY <1>4, BeginThreads, HandlersOrderly DEF OnActiveUser, Sources
  <2>2. overlapped' \in SUBSET Users
    BY <1>4 DEF OnActiveUser, Begin, OthersOK
  <2> QED
    BY <1>4, <2>1, <2>2 DEF OnActiveUser, Counted, OthersOK, cache
<1>5. ASSUME NEW u \in Users, OnRemoveUser(u) PROVE Good
  <2>1. ThreadsOK' /\ \A r \in Sources : Busy(r) => thread'[r] = thread[r]
    BY <1>5, BeginThreads, TwoSteps DEF OnRemoveUser, Sources
  <2>2. overlapped' \in SUBSET Users
    BY <1>5 DEF OnRemoveUser, Begin, OthersOK
  <2> QED
    BY <1>5, <2>1, <2>2 DEF OnRemoveUser, Counted, OthersOK, cache
<1> QED
  BY <1>1, <1>2, <1>3, <1>4, <1>5 DEF Arrival

LEMMA StepTypes ==
  ASSUME OthersOK, ThreadsOK, NEW s \in Sources, Step(s)
  PROVE  /\ OthersOK' /\ ThreadsOK' /\ Busy(s)
         /\ \A r \in Sources \ {s} : thread'[r] = thread[r]
         /\ thread'[s].user = thread[s].user
         /\ UNCHANGED <<file, crashes>>
<1>1. Busy(s) /\ Here(s) \in Users /\ thread[s].value \in Flag
  <2>1. Busy(s)
    BY DEF Step, Check, SaveBool, RemoveKey, Refresh, AuthStateInit, EraseAuthState,
           DeleteUnlockPolicyForUser, At
  <2> QED
    BY <2>1 DEF ThreadsOK, Thread, Busy, Here, Flag
<1>2. \E b \in BOOLEAN : Continue(s, b)
  <2>1. CASE Check(s)
    <3>1. PICK op : Continue(s, Holds(s, op))
      BY <2>1 DEF Check
    <3>2. Continue(s, TRUE) \/ Continue(s, FALSE)
      BY <3>1 DEF Continue
    <3> QED
      BY <3>2
  <2>2. CASE ~Check(s)
    BY <2>2 DEF Step, SaveBool, RemoveKey, Refresh, AuthStateInit, EraseAuthState,
                DeleteUnlockPolicyForUser
  <2> QED
    BY <2>1, <2>2
<1>3. /\ ThreadsOK' /\ \A r \in Sources \ {s} : thread'[r] = thread[r]
      /\ thread'[s].user = thread[s].user
  BY <1>1, <1>2, StepThreads
<1>4. CASE Check(s)
  BY <1>1, <1>3, <1>4 DEF Check, OthersOK, cache, outside, counters
<1>5. CASE SaveBool(s)
  <2>1. disabled' \in [Users -> Flag]
    BY <1>1, <1>5 DEF SaveBool, OthersOK
  <2>2. granted' \in SUBSET Users
    BY <1>1, <1>5 DEF SaveBool, OthersOK
  <2> QED
    BY <1>1, <1>3, <1>5, <2>1, <2>2 DEF SaveBool, OthersOK, outside, counters
<1>6. CASE RemoveKey(s)
  BY <1>1, <1>3, <1>6 DEF RemoveKey, OthersOK, Flag, outside, counters
<1>7. CASE Refresh(s)
  BY <1>1, <1>3, <1>7 DEF Refresh, OthersOK, cache, outside, counters
<1>8. CASE AuthStateInit(s)
  BY <1>1, <1>3, <1>8 DEF AuthStateInit, OthersOK, cache, outside, counters
<1>9. CASE EraseAuthState(s)
  BY <1>1, <1>3, <1>9 DEF EraseAuthState, OthersOK, cache, outside, counters
<1>10. CASE DeleteUnlockPolicyForUser(s)
  <2>1. policy' \in [Users -> Policies \cup {0}]
    BY <1>1, <1>10 DEF DeleteUnlockPolicyForUser, DefaultPolicy, OthersOK
  <2> QED
    BY <1>1, <1>3, <1>10, <2>1 DEF DeleteUnlockPolicyForUser, OthersOK, outside, counters
<1> QED
  BY <1>4, <1>5, <1>6, <1>7, <1>8, <1>9, <1>10 DEF Step

\* What happens outside the handlers.
Rest ==
  \/ \E u \in Users :
       \/ \E p \in Policies \cup {0} : SetUnlockPolicy(u, p)
       \/ InsertAuthState(u) \/ AddPin(u) \/ DeletePin(u)
  \/ Write

LEMMA RestTypes ==
  ASSUME OthersOK, ThreadsOK, Rest
  PROVE  OthersOK' /\ ThreadsOK' /\ UNCHANGED <<disabled, thread, crashes>>
<1>1. ASSUME NEW u \in Users, NEW p \in Policies \cup {0}, SetUnlockPolicy(u, p)
      PROVE  OthersOK' /\ UNCHANGED <<disabled, thread, crashes>>
  <2>1. policy' \in [Users -> Policies \cup {0}]
    BY <1>1 DEF SetUnlockPolicy, OthersOK
  <2> QED
    BY <1>1, <2>1 DEF SetUnlockPolicy, Counted, OthersOK, outside
<1>2. ASSUME NEW u \in Users, InsertAuthState(u)
      PROVE  OthersOK' /\ UNCHANGED <<disabled, thread, crashes>>
  BY <1>2 DEF InsertAuthState, Counted, OthersOK, cache, outside
<1>3. ASSUME NEW u \in Users, AddPin(u)
      PROVE  OthersOK' /\ UNCHANGED <<disabled, thread, crashes>>
  BY <1>3 DEF AddPin, Counted, OthersOK, cache
<1>4. ASSUME NEW u \in Users, DeletePin(u)
      PROVE  OthersOK' /\ UNCHANGED <<disabled, thread, crashes>>
  BY <1>4 DEF DeletePin, Counted, OthersOK, cache
<1>5. ASSUME Write
      PROVE  OthersOK' /\ UNCHANGED <<disabled, thread, crashes>>
  BY <1>5 DEF Write, OthersOK, cache, outside, counters
<1>6. OthersOK' /\ UNCHANGED <<disabled, thread, crashes>>
  BY <1>1, <1>2, <1>3, <1>4, <1>5 DEF Rest
<1> QED
  BY <1>6 DEF ThreadsOK

LEMMA RestartTypes == ASSUME OthersOK, ThreadsOK, Restart PROVE OthersOK' /\ ThreadsOK'
<1>1. OthersOK'
  <2>1. file.disabled \in [Users -> Flag] /\ file.policy \in [Users -> Policies \cup {0}]
    BY DEF OthersOK
  <2>2. disabled' \in [Users -> Flag] /\ policy' \in [Users -> Policies \cup {0}]
    BY <2>1 DEF Restart
  <2>3. crashes' \in Nat /\ authStateInfo' \in SUBSET Users /\ flushing' \in BOOLEAN
    <3>1. crashes' = crashes + 1 /\ crashes \in Nat
      BY DEF Restart, OthersOK
    <3>2. authStateInfo' \in SUBSET Users /\ flushing' \in BOOLEAN
      BY Zenon DEF Restart
    <3> QED
      BY <3>1, <3>2
  <2>4. /\ credEvents' \in SUBSET Users /\ commonEvents' \in SUBSET Users /\ granted' \in SUBSET Users
        /\ overlapped' \in SUBSET Users
    BY DEF Restart
  <2>5. UNCHANGED <<file, active, pin, calls>>
    BY DEF Restart
  <2> QED
    BY <2>2, <2>3, <2>4, <2>5 DEF OthersOK
<1>2. NoThread \in Thread /\ NoThread.todo = <<>>
  BY DEF NoThread, Thread
<1>3. /\ [user |-> active, value |-> "off", todo |-> InitUserId] \in Thread
      /\ active \in Users /\ Orderly("account", InitUserId)
  BY HandlersOrderly DEF Thread, OthersOK
<1>4. ThreadsOK'
  BY <1>2, <1>3, EmptyOrderly DEF Restart, ThreadsOK
<1> QED
  BY <1>1, <1>4

LEMMA NextSplit == Next <=> Arrival \/ (\E s \in Sources : Step(s)) \/ Rest \/ Restart
BY DEF Next, Arrival, Rest

LEMMA UnchangedTypes ==
  ASSUME OthersOK, ThreadsOK, UNCHANGED vars PROVE OthersOK' /\ ThreadsOK'
<1>1. OthersOK'
  BY DEF OthersOK, vars, cache, outside, counters
<1>2. ThreadsOK'
  BY DEF ThreadsOK, vars
<1> QED
  BY <1>1, <1>2

LEMMA NextTypes == OthersOK /\ ThreadsOK /\ [Next]_vars => OthersOK' /\ ThreadsOK'
BY NextSplit, ArrivalTypes, StepTypes, RestTypes, RestartTypes, UnchangedTypes

\* Types: whatever handlers interleave and whenever the service dies, flags,
\* policies and the steps of each thread keep their types.
THEOREM TypeCorrect == Spec => []PreferencesTypeOK
<1>1. OthersOK /\ ThreadsOK => PreferencesTypeOK
  BY TypeParts
<1> QED
  BY <1>1, InitTypes, NextTypes, PTL DEF Spec

-----------------------------------------------------------------------------
(* The file and the policies.                                              *)

FileInv == flushing \/ file.disabled = disabled \/ \E s \in Sources : OneStepLeft(s, "flush")

PolicyInv(u) ==
  \/ policy[u] = 0 \/ u \in authStateInfo \/ crashes > 0
  \/ OneStepLeft("remove", "unsetPolicy") /\ Here("remove") = u

LEMMA InvParts ==
  PreferencesInv <=> OthersOK /\ ThreadsOK /\ FileInv /\ \A u \in Users : PolicyInv(u)
BY TypeParts DEF PreferencesInv, FileInv, PolicyInv

\* The operation of a thread whose steps are orderly comes at the right place.
LEMMA HeadOrderly ==
  ASSUME ThreadsOK, NEW s \in Sources, Busy(s)
  PROVE  /\ At(s, "put") \/ At(s, "unset")
              => Len(Tail(thread[s].todo)) = 1 /\ Tail(thread[s].todo)[1] = "flush"
         /\ At(s, "erase")
              => s = "remove" /\ Len(Tail(thread[s].todo)) = 1
                 /\ Tail(thread[s].todo)[1] = "unsetPolicy"
<1> DEFINE todo == thread[s].todo
<1>1. todo \in Seq(Ops) /\ todo # <<>> /\ Orderly(s, todo)
  BY DEF ThreadsOK, Thread, Busy
<1> HIDE DEF todo
<1>2. /\ Head(todo) = todo[1] /\ 1 \in 1..Len(todo) /\ Len(Tail(todo)) = Len(todo) - 1
      /\ Len(todo) = 2 => Tail(todo)[1] = todo[2]
  BY <1>1
<1>3. OrderlyAt(s, todo, 1)
  BY <1>1, <1>2 DEF Orderly
<1>0. 1 + 1 = Len(todo) => Len(Tail(todo)) = 1 /\ Tail(todo)[1] = todo[1 + 1]
  <2>1. Len(todo) = 2 => Len(Tail(todo)) = 1
    BY <1>2
  <2>2. 1 + 1 = 2
    OBVIOUS
  <2> QED
    BY <1>2, <2>1, <2>2, Zenon
<1>4. Head(todo) \in {"put", "unset"} => Len(Tail(todo)) = 1 /\ Tail(todo)[1] = "flush"
  BY <1>0, <1>2, <1>3 DEF OrderlyAt
<1>5. Head(todo) = "erase" => s = "remove" /\ Len(Tail(todo)) = 1 /\ Tail(todo)[1] = "unsetPolicy"
  BY <1>0, <1>2, <1>3 DEF OrderlyAt
<1> QED
  BY <1>4, <1>5 DEF At, todo

LEMMA OneStepBusy ==
  ASSUME NEW s \in Sources, NEW op, OneStepLeft(s, op)
  PROVE  thread[s].todo # <<>> /\ Busy(s)
<1>1. Len(<<>>) = 0
  OBVIOUS
<1> QED
  BY <1>1 DEF OneStepLeft, Busy

\* The last step is not a check: taking it is what its name says.
LEMMA LastStep ==
  ASSUME NEW s \in Sources, NEW op \in {"flush", "unsetPolicy"}, OneStepLeft(s, op), Step(s), ThreadsOK
  PROVE  IF op = "flush" THEN Refresh(s) ELSE DeleteUnlockPolicyForUser(s)
<1>1. thread[s].todo \in Seq(Ops) /\ thread[s].todo # <<>>
  BY OneStepBusy DEF ThreadsOK, Thread
<1>2. Head(thread[s].todo) = op
  <2>1. Head(thread[s].todo) = thread[s].todo[1]
    BY <1>1, HeadIsFirst
  <2> QED
    BY <2>1, Zenon DEF OneStepLeft
<1> QED
  BY <1>2 DEF Step, Check, SaveBool, RemoveKey, Refresh, AuthStateInit, EraseAuthState,
              DeleteUnlockPolicyForUser, At

LEMMA StepFile ==
  ASSUME OthersOK, ThreadsOK, FileInv, NEW s \in Sources, Step(s)
  PROVE  FileInv'
<1>1. /\ Busy(s) /\ UNCHANGED file /\ \A r \in Sources \ {s} : thread'[r] = thread[r]
  BY StepTypes
<1>2. CASE SaveBool(s) \/ RemoveKey(s)
  <2>1. thread' = [thread EXCEPT ![s].todo = Tail(thread[s].todo)] /\ (At(s, "put") \/ At(s, "unset"))
    BY <1>2 DEF SaveBool, RemoveKey, Continue, Goto
  <2>2. thread'[s].todo = Tail(thread[s].todo)
    BY <2>1 DEF ThreadsOK, Thread
  <2>3. OneStepLeft(s, "flush")'
    BY <1>1, <2>1, <2>2, HeadOrderly DEF OneStepLeft
  <2> QED
    BY <2>3 DEF FileInv
<1>3. CASE ~(SaveBool(s) \/ RemoveKey(s))
  <2>1. UNCHANGED disabled /\ (flushing => flushing')
    <3>1. ASSUME Check(s) PROVE UNCHANGED <<disabled, flushing>>
      BY <3>1 DEF Check, cache
    <3>2. ASSUME AuthStateInit(s) \/ EraseAuthState(s) PROVE UNCHANGED <<disabled, flushing>>
      BY <3>2 DEF AuthStateInit, EraseAuthState, cache
    <3>3. ASSUME Refresh(s) PROVE UNCHANGED disabled /\ flushing'
      BY <3>3 DEF Refresh, cache
    <3>4. ASSUME DeleteUnlockPolicyForUser(s) PROVE UNCHANGED <<disabled, flushing>>
      BY <3>4 DEF DeleteUnlockPolicyForUser
    <3> QED
      BY <1>3, <3>1, <3>2, <3>3, <3>4 DEF Step
  <2>2. CASE flushing \/ file.disabled = disabled
    BY <1>1, <2>1, <2>2 DEF FileInv
  <2>3. ASSUME NEW r \in Sources, OneStepLeft(r, "flush") PROVE FileInv'
    <3>1. CASE r = s
      BY <2>3, <3>1, LastStep DEF Refresh, FileInv
    <3>2. CASE r # s
      BY <1>1, <2>3, <3>2 DEF OneStepLeft, FileInv
    <3> QED
      BY <3>1, <3>2
  <2> QED
    BY <2>2, <2>3 DEF FileInv
<1> QED
  BY <1>2, <1>3

LEMMA StepPolicy ==
  ASSUME OthersOK, ThreadsOK, NEW u \in Users, PolicyInv(u), NEW s \in Sources, Step(s)
  PROVE  PolicyInv(u)'
<1>1. /\ Busy(s) /\ UNCHANGED crashes /\ thread'[s].user = thread[s].user
      /\ \A r \in Sources \ {s} : thread'[r] = thread[r]
  BY StepTypes
<1>2. CASE EraseAuthState(s) /\ Here(s) = u
  <2>1. thread' = [thread EXCEPT ![s].todo = Tail(thread[s].todo)] /\ At(s, "erase")
    BY <1>2 DEF EraseAuthState, Continue, Goto
  <2>2. thread'[s].todo = Tail(thread[s].todo)
    BY <2>1 DEF ThreadsOK, Thread
  <2>3. s = "remove" /\ OneStepLeft("remove", "unsetPolicy")'
    BY <1>1, <2>1, <2>2, HeadOrderly DEF OneStepLeft
  <2> QED
    BY <1>1, <1>2, <2>3 DEF PolicyInv, Here
<1>3. CASE ~(EraseAuthState(s) /\ Here(s) = u)
  <2>1. /\ policy'[u] = policy[u] \/ policy'[u] = 0
        /\ u \in authStateInfo => u \in authStateInfo'
    BY <1>3 DEF Step, Check, SaveBool, RemoveKey, Refresh, AuthStateInit, EraseAuthState,
                DeleteUnlockPolicyForUser, DefaultPolicy, cache, OthersOK
  <2>2. CASE policy[u] = 0 \/ u \in authStateInfo \/ crashes > 0
    BY <1>1, <2>1, <2>2 DEF PolicyInv
  <2>3. CASE OneStepLeft("remove", "unsetPolicy") /\ Here("remove") = u
    <3>1. CASE s = "remove"
      <4>1. DeleteUnlockPolicyForUser(s)
        BY <2>3, <3>1, LastStep
      <4>2. policy'[u] = 0
        BY <2>3, <3>1, <4>1 DEF DeleteUnlockPolicyForUser, DefaultPolicy, OthersOK
      <4> QED
        BY <4>2 DEF PolicyInv
    <3>2. CASE s # "remove"
      BY <1>1, <2>3, <3>2 DEF PolicyInv, OneStepLeft, Here, Sources
    <3> QED
      BY <3>1, <3>2
  <2> QED
    BY <2>2, <2>3 DEF PolicyInv
<1> QED
  BY <1>2, <1>3

LEMMA ArrivalInv ==
  ASSUME OthersOK, ThreadsOK, FileInv, \A u \in Users : PolicyInv(u), Arrival
  PROVE  FileInv' /\ \A u \in Users : PolicyInv(u)'
<1>1. /\ \A r \in Sources : Busy(r) => thread'[r] = thread[r]
      /\ UNCHANGED <<disabled, policy, file, flushing, authStateInfo, crashes>>
  BY ArrivalTypes DEF cache
<1>2. ASSUME NEW r \in Sources, NEW op, OneStepLeft(r, op) PROVE thread'[r] = thread[r]
  <2>1. Busy(r)
    BY <1>2, OneStepBusy
  <2> QED
    BY <1>1, <2>1
<1>3. FileInv'
  BY <1>1, <1>2 DEF FileInv, OneStepLeft
<1>4. ASSUME NEW u \in Users PROVE PolicyInv(u)'
  BY <1>1, <1>2 DEF PolicyInv, OneStepLeft, Here, Sources
<1> QED
  BY <1>3, <1>4

LEMMA RestInv ==
  ASSUME OthersOK, ThreadsOK, FileInv, \A u \in Users : PolicyInv(u), Rest
  PROVE  FileInv' /\ \A u \in Users : PolicyInv(u)'
<1>1. UNCHANGED <<disabled, thread, crashes>>
  BY RestTypes
<1>2. FileInv'
  <2>1. CASE Write
    BY <2>1 DEF Write, cache, FileInv, OthersOK
  <2>2. CASE ~Write
    <3>1. UNCHANGED file /\ (flushing => flushing')
      BY <2>2 DEF Rest, SetUnlockPolicy, InsertAuthState, AddPin, DeletePin
    <3> QED
      BY <1>1, <3>1 DEF FileInv, OneStepLeft
  <2> QED
    BY <2>1, <2>2
<1>3. ASSUME NEW u \in Users PROVE PolicyInv(u)'
  <2>1. /\ u \in authStateInfo => u \in authStateInfo'
        /\ policy'[u] = policy[u] \/ u \in authStateInfo
    BY DEF Rest, SetUnlockPolicy, ValidUsers, InsertAuthState, AddPin, DeletePin, Write, cache, OthersOK
  <2> QED
    BY <1>1, <2>1 DEF PolicyInv, OneStepLeft, Here
<1> QED
  BY <1>2, <1>3

LEMMA NextInv ==
  ASSUME OthersOK, ThreadsOK, FileInv, \A u \in Users : PolicyInv(u), [Next]_vars
  PROVE  FileInv' /\ \A u \in Users : PolicyInv(u)'
<1>1. CASE Restart
  <2>1. disabled' = file'.disabled /\ crashes' > 0
    BY <1>1 DEF Restart, OthersOK
  <2> QED
    BY <2>1 DEF FileInv, PolicyInv
<1>2. CASE UNCHANGED vars
  BY <1>2 DEF vars, cache, counters, FileInv, PolicyInv, OneStepLeft, Here
<1> QED
  BY <1>1, <1>2, NextSplit, ArrivalInv, StepFile, StepPolicy, RestInv

\* The inductive invariant: a flag is out of the file only while a Flush is
\* outstanding or some handler has nothing left to do but ask for it, and a
\* policy is without its user only while OnRemoveUser is about to delete it.
THEOREM Invariant == Spec => []PreferencesInv
<1>1. Init => PreferencesInv
  <2>1. Init => FileInv /\ \A u \in Users : PolicyInv(u)
    BY DEF Init, FileInv, PolicyInv
  <2> QED
    BY <2>1, InitTypes, InvParts
<1>2. PreferencesInv /\ [Next]_vars => PreferencesInv'
  <2> SUFFICES ASSUME PreferencesInv, [Next]_vars PROVE PreferencesInv'
    OBVIOUS
  <2>1. OthersOK' /\ ThreadsOK'
    BY NextTypes, InvParts
  <2>2. FileInv' /\ \A u \in Users : PolicyInv(u)'
    BY NextInv, InvParts
  <2>3. (OthersOK /\ ThreadsOK /\ FileInv /\ \A u \in Users : PolicyInv(u))' => PreferencesInv'
    BY InvParts, PTL
  <2> QED
    BY <2>1, <2>2, <2>3
<1> QED
  BY <1>1, <1>2, PTL DEF Spec

\* Every change of a flag is followed by a Flush, whichever handlers overlap.
THEOREM FlagsReachFile == Spec => []FlagsWritten
<1>1. PreferencesInv => FlagsWritten
  <2>1. \A s \in Sources : OneStepLeft(s, "flush") => Busy(s)
    BY OneStepBusy
  <2> QED
    BY <2>1 DEF PreferencesInv, FlagsWritten
<1> QED
  BY <1>1, Invariant, PTL

\* No SetUnlockPolicy that races with OnRemoveUser leaves a policy behind.
THEOREM PoliciesGo == Spec => []NoPolicyOfRemoved
<1>1. PreferencesInv => NoPolicyOfRemoved
  <2>1. OneStepLeft("remove", "unsetPolicy") => Busy("remove")
    BY OneStepBusy DEF Sources
  <2>2. ASSUME PreferencesInv, crashes = 0, NEW u \in Users, Quiet(u), policy[u] # 0
        PROVE  u \in authStateInfo
    <3>1. "remove" \in Sources /\ ~(crashes > 0)
      BY <2>2 DEF Sources
    <3>2. ~(OneStepLeft("remove", "unsetPolicy") /\ Here("remove") = u)
      BY <2>1, <2>2, <3>1 DEF Quiet, Here
    <3> QED
      BY <2>2, <3>1, <3>2 DEF PreferencesInv
  <2> QED
    BY <2>2 DEF NoPolicyOfRemoved
<1> QED
  BY <1>1, Invariant, PTL
-----------------------------------------------------------------------------
(* The flags of users whose handlers do not overlap.                       *)

\* What is left after each step of each handler.
LEMMA Remainders ==
  /\ Head(<<"flush">>) = "flush" /\ Tail(<<"flush">>) = <<>>
  /\ Head(<<"put", "flush">>) = "put" /\ Tail(<<"put", "flush">>) = <<"flush">>
  /\ Head(<<"unsetPolicy">>) = "unsetPolicy" /\ Tail(<<"unsetPolicy">>) = <<>>
  /\ Head(OnRemoveUserSteps) = "erase" /\ Tail(OnRemoveUserSteps) = <<"unsetPolicy">>
  /\ Head(OnReceiveEventSteps) = "unset" /\ Tail(OnReceiveEventSteps) = <<"flush">>
  /\ Head(FreshDisabledState) = "differs" /\ Tail(FreshDisabledState) = <<"put", "flush">>
  /\ Head(InitUserId) = "notOn" /\ Tail(InitUserId) = <<"put", "flush">>
<1>1. ASSUME NEW a PROVE Head(<<a>>) = a /\ Tail(<<a>>) = <<>>
  OBVIOUS
<1>2. ASSUME NEW a, NEW b PROVE Head(<<a, b>>) = a /\ Tail(<<a, b>>) = <<b>>
  OBVIOUS
<1>3. ASSUME NEW a, NEW b, NEW c PROVE Head(<<a, b, c>>) = a /\ Tail(<<a, b, c>>) = <<b, c>>
  OBVIOUS
<1>4. /\ Head(<<"flush">>) = "flush" /\ Tail(<<"flush">>) = <<>>
      /\ Head(<<"unsetPolicy">>) = "unsetPolicy" /\ Tail(<<"unsetPolicy">>) = <<>>
  BY <1>1
<1>5. /\ Head(<<"put", "flush">>) = "put" /\ Tail(<<"put", "flush">>) = <<"flush">>
      /\ Head(OnRemoveUserSteps) = "erase" /\ Tail(OnRemoveUserSteps) = <<"unsetPolicy">>
      /\ Head(OnReceiveEventSteps) = "unset" /\ Tail(OnReceiveEventSteps) = <<"flush">>
  BY <1>2 DEF OnRemoveUserSteps, OnReceiveEventSteps
<1>6. /\ Head(FreshDisabledState) = "differs" /\ Tail(FreshDisabledState) = <<"put", "flush">>
      /\ Head(InitUserId) = "notOn" /\ Tail(InitUserId) = <<"put", "flush">>
  BY <1>3 DEF FreshDisabledState, InitUserId
<1> QED
  BY <1>4, <1>5, <1>6

LEMMA Prefixed ==
  ASSUME NEW op \in Ops, NEW t \in Seq(Ops)
  PROVE  <<op>> \o t \in Seq(Ops) /\ Head(<<op>> \o t) = op /\ Tail(<<op>> \o t) = t
<1>1. <<op>> \in Seq(Ops) /\ Len(<<op>>) = 1 /\ <<op>>[1] = op
  OBVIOUS
<1>2. /\ <<op>> \o t \in Seq(Ops) /\ Len(<<op>> \o t) = Len(t) + 1 /\ Len(t) \in Nat
      /\ \A i \in 1..Len(t) + 1 : (<<op>> \o t)[i] = IF i = 1 THEN op ELSE t[i - 1]
  BY <1>1, ConcatProperties
<1>3. <<op>> \o t # <<>>
  BY <1>2
<1>4. Head(<<op>> \o t) = op
  BY <1>2, <1>3
<1>5. /\ Tail(<<op>> \o t) \in Seq(Ops) /\ Len(Tail(<<op>> \o t)) = Len(t)
      /\ \A i \in 1..Len(t) : Tail(<<op>> \o t)[i] = (<<op>> \o t)[i + 1]
  BY <1>2, <1>3
<1>6. ASSUME NEW i \in 1..Len(t) PROVE Tail(<<op>> \o t)[i] = t[i]
  <2>1. i + 1 \in 1..Len(t) + 1 /\ i + 1 # 1 /\ (i + 1) - 1 = i
    BY <1>2
  <2> QED
    BY <1>2, <1>5, <2>1
<1>7. Tail(<<op>> \o t) = t
  BY <1>5, <1>6, SeqEqual
<1> QED
  BY <1>2, <1>4, <1>7

LEMMA PrefixedRemainders ==
  /\ Head(SetScreenLockDisabledSteps(TRUE)) = "active"
  /\ Tail(SetScreenLockDisabledSteps(TRUE)) = <<"secure">> \o FreshDisabledState
  /\ Head(<<"secure">> \o FreshDisabledState) = "secure"
  /\ Tail(<<"secure">> \o FreshDisabledState) = FreshDisabledState
  /\ Head(<<"active">> \o FreshDisabledState) = "active"
  /\ Tail(<<"active">> \o FreshDisabledState) = FreshDisabledState
  /\ Head(OnActiveUserSteps) = "insert" /\ Tail(OnActiveUserSteps) = InitUserId
<1>1. "active" \in Ops /\ "secure" \in Ops /\ "insert" \in Ops /\ "differs" \in Ops /\ "notOn" \in Ops
  BY DEF Ops
<1>2. FreshDisabledState \in Seq(Ops) /\ InitUserId \in Seq(Ops)
  BY <1>1, ThreeSteps DEF FreshDisabledState, InitUserId
<1>3. <<"secure">> \o FreshDisabledState \in Seq(Ops)
  BY <1>1, <1>2, Prefixed, Zenon
<1> QED
  <2>1. SetScreenLockDisabledSteps(TRUE) = <<"active">> \o (<<"secure">> \o FreshDisabledState)
    <3>1. ASSUME NEW A, NEW B PROVE (IF TRUE THEN A ELSE B) = A
      OBVIOUS
    <3>2. (IF TRUE THEN <<"secure">> \o FreshDisabledState ELSE FreshDisabledState)
             = <<"secure">> \o FreshDisabledState
      BY <3>1, Zenon
    <3> QED
      BY <3>2, Zenon DEF SetScreenLockDisabledSteps
  <2>2. /\ Head(SetScreenLockDisabledSteps(TRUE)) = "active"
        /\ Tail(SetScreenLockDisabledSteps(TRUE)) = <<"secure">> \o FreshDisabledState
    <3> DEFINE rest == <<"secure">> \o FreshDisabledState
    <3>1. rest \in Seq(Ops)
      BY <1>3
    <3> HIDE DEF rest
    <3>2. Head(<<"active">> \o rest) = "active" /\ Tail(<<"active">> \o rest) = rest
      BY <1>1, <3>1, Prefixed, Zenon
    <3> QED
      BY <2>1, <3>2, Zenon DEF rest
  <2>3. /\ Head(<<"secure">> \o FreshDisabledState) = "secure"
        /\ Tail(<<"secure">> \o FreshDisabledState) = FreshDisabledState
        /\ Head(<<"active">> \o FreshDisabledState) = "active"
        /\ Tail(<<"active">> \o FreshDisabledState) = FreshDisabledState
    BY <1>1, <1>2, Prefixed
  <2>4. Head(OnActiveUserSteps) = "insert" /\ Tail(OnActiveUserSteps) = InitUserId
    BY <1>1, <1>2, Prefixed DEF OnActiveUserSteps
  <2> QED
    BY <2>2, <2>3, <2>4

\* What a thread is about to do tells which handler it is in and what is left.
LEMMA AtRemaining ==
  ASSUME NEW s \in Sources, InHandler(s), Busy(s)
  PROVE  /\ Tail(thread[s].todo) \in Remaining(s)
         /\ At(s, "put") => thread[s].todo = <<"put", "flush">> /\ s \in {"call", "cred", "account"}
         /\ At(s, "unset") => s = "common"
         /\ At(s, "differs") => thread[s].todo = FreshDisabledState
         /\ At(s, "notOn") => s = "account" /\ thread[s].todo = InitUserId
         /\ s = "account" => At(s, "insert") \/ At(s, "notOn") \/ At(s, "put") \/ At(s, "flush")
         /\ s = "common" => At(s, "unset") \/ At(s, "flush")
         /\ s = "remove" => At(s, "erase") \/ At(s, "unsetPolicy")
         /\ s = "call" /\ thread[s].value = "on" /\ Tail(thread[s].todo) \in Setting
              => (At(s, "secure") \/ At(s, "differs")) /\ thread[s].todo # <<"put", "flush">>
<1> DEFINE todo == thread[s].todo  h == Head(todo)  r == Tail(todo)
           F1 == <<"flush">>  F2 == <<"put", "flush">>  P1 == <<"unsetPolicy">>
           C4 == <<"secure">> \o FreshDisabledState  C5 == SetScreenLockDisabledSteps(TRUE)
           D4 == <<"active">> \o FreshDisabledState
           Good ==
             /\ r \in Remaining(s)
             /\ h = "put" => todo = F2 /\ s \in {"call", "cred", "account"}
             /\ h = "unset" => s = "common"
             /\ h = "differs" => todo = FreshDisabledState
             /\ h = "notOn" => s = "account" /\ todo = InitUserId
             /\ s = "account" => h \in {"insert", "notOn", "put", "flush"}
             /\ s = "common" => h \in {"unset", "flush"}
             /\ s = "remove" => h \in {"erase", "unsetPolicy"}
             /\ s = "call" /\ thread[s].value = "on" /\ r \in {F2, FreshDisabledState}
                  => h \in {"secure", "differs"} /\ todo # F2
<1>1. /\ todo = F1 => h = "flush" /\ r = <<>>
      /\ todo = F2 => h = "put" /\ r = F1
      /\ todo = P1 => h = "unsetPolicy" /\ r = <<>>
      /\ todo = OnRemoveUserSteps => h = "erase" /\ r = P1
      /\ todo = OnReceiveEventSteps => h = "unset" /\ r = F1
      /\ todo = FreshDisabledState => h = "differs" /\ r = F2
      /\ todo = InitUserId => h = "notOn" /\ r = F2
  BY Remainders, Zenon
<1>2. /\ todo = C5 => h = "active" /\ r = C4
      /\ todo = C4 => h = "secure" /\ r = FreshDisabledState
      /\ todo = D4 => h = "active" /\ r = FreshDisabledState
      /\ todo = OnActiveUserSteps => h = "insert" /\ r = InitUserId
  BY PrefixedRemainders, Zenon
<1>3. todo \in Remaining(s) /\ todo # <<>>
  BY DEF InHandler, Busy
<1>4. /\ s = "call" /\ thread[s].value = "on"
           => Remaining(s) = {<<>>, F1, C5, C4, F2, FreshDisabledState}
      /\ s \in {"call", "cred"} /\ ~(s = "call" /\ thread[s].value = "on")
           => Remaining(s) = {<<>>, F1, D4, F2, FreshDisabledState}
      /\ s = "common" => Remaining(s) = {<<>>, F1, OnReceiveEventSteps}
      /\ s = "account" => Remaining(s) = {<<>>, F1, F2, InitUserId, OnActiveUserSteps}
      /\ s = "remove" => Remaining(s) = {<<>>, P1, OnRemoveUserSteps}
  <2>1. Setting = {F2, FreshDisabledState}
    BY DEF Setting
  <2> HIDE DEF F1, F2
  <2>2. ASSUME s = "call" /\ thread[s].value = "on"
        PROVE  Remaining(s) = {<<>>, F1, C5, C4, F2, FreshDisabledState}
    BY <2>1, <2>2 DEF Remaining, F1, C5
  <2>3. ASSUME s \in {"call", "cred"} /\ ~(s = "call" /\ thread[s].value = "on")
        PROVE  Remaining(s) = {<<>>, F1, D4, F2, FreshDisabledState}
    BY <2>1, <2>3 DEF Remaining, F1
  <2>4. ASSUME s = "common" PROVE Remaining(s) = {<<>>, F1, OnReceiveEventSteps}
    BY <2>4 DEF Remaining, F1
  <2>5. ASSUME s = "account" PROVE Remaining(s) = {<<>>, F1, F2, InitUserId, OnActiveUserSteps}
    BY <2>5 DEF Remaining, F1, F2
  <2>6. ASSUME s = "remove" PROVE Remaining(s) = {<<>>, P1, OnRemoveUserSteps}
    BY <2>6 DEF Remaining
  <2> QED
    BY <2>2, <2>3, <2>4, <2>5, <2>6
<1>5. <<>> \notin {F2, FreshDisabledState} /\ F1 \notin {F2, FreshDisabledState}
      /\ C4 \notin {F2, FreshDisabledState}
  <2>1. <<>> \notin {F2, FreshDisabledState}
    BY DEF FreshDisabledState
  <2>2. /\ Head(F1) = "flush" /\ Head(F2) = "put" /\ Head(FreshDisabledState) = "differs"
        /\ Head(C4) = "secure"
    BY Remainders, PrefixedRemainders
  <2> HIDE DEF F1, F2, C4
  <2>3. F1 \notin {F2, FreshDisabledState} /\ C4 \notin {F2, FreshDisabledState}
    BY <2>2
  <2> QED
    BY <2>1, <2>3
<1>6. Good
  <2> HIDE DEF F1, F2, P1, C4, C5, D4, h, r, todo
  <2>1. CASE s = "call" /\ thread[s].value = "on"
    <3>1. todo \in {F1, C5, C4, F2, FreshDisabledState}
      BY <1>3, <1>4, <2>1
    <3>2. r \in {<<>>, F1, C4, F2, FreshDisabledState}
      BY <1>1, <1>2, <3>1
    <3>3. r \in Remaining(s)
      BY <1>4, <2>1, <3>2
    <3> QED
      BY <1>1, <1>2, <1>5, <2>1, <3>1, <3>3
  <2>2. CASE s \in {"call", "cred"} /\ ~(s = "call" /\ thread[s].value = "on")
    BY <1>1, <1>2, <1>3, <1>4, <2>2
  <2>3. CASE s = "common"
    BY <1>1, <1>2, <1>3, <1>4, <2>3
  <2>4. CASE s = "account"
    BY <1>1, <1>2, <1>3, <1>4, <2>4
  <2>5. CASE s = "remove"
    BY <1>1, <1>2, <1>3, <1>4, <2>5
  <2> QED
    BY <2>1, <2>2, <2>3, <2>4, <2>5 DEF Sources
<1>7. \A op : At(s, op) <=> h = op
  BY DEF At
<1>8. Setting = {F2, FreshDisabledState}
  BY DEF Setting
<1> HIDE DEF h, r
<1>9. /\ r \in Remaining(s)
      /\ At(s, "put") => todo = F2 /\ s \in {"call", "cred", "account"}
  BY <1>6, <1>7
<1> QED
  BY <1>6, <1>7, <1>8 DEF r
Handlers == \A s \in Sources : InHandler(s)

LEMMA InHandlerKept ==
  ASSUME NEW r \in Sources, thread'[r] = thread[r], InHandler(r)
  PROVE  InHandler(r)'
<1>1. Remaining(r)' = Remaining(r)
  BY DEF Remaining
<1> QED
  BY <1>1 DEF InHandler

\* A handler of the user has begun in thread s.
Began(s, u, v, todo) ==
  /\ Handlers' /\ ~Busy(s)
  /\ thread'[s].user = u /\ thread'[s].value = v /\ thread'[s].todo = todo
  /\ \A r \in Sources \ {s} : thread'[r] = thread[r]
  /\ \A w \in Users : OneAtATime(w) => OneAtATime(w)'
  /\ \A w \in Users \ overlapped' : w \notin overlapped /\ (w = u => Quiet(u))

LEMMA HandlerBegins ==
  ASSUME ThreadsOK, Handlers, NEW s \in Sources, NEW u \in Users, NEW v \in {"off", "on"},
         NEW todo, Begin(s, u, v, todo), v = "on" => s = "call",
         \/ s = "call" /\ v = "on" /\ todo = SetScreenLockDisabledSteps(TRUE)
         \/ s \in {"call", "cred"} /\ v = "off" /\ todo = <<"active">> \o FreshDisabledState
         \/ s = "common" /\ todo = OnReceiveEventSteps
         \/ s = "account" /\ todo = OnActiveUserSteps
         \/ s = "remove" /\ todo = OnRemoveUserSteps
  PROVE  Began(s, u, v, todo)
<1>1. /\ ~Busy(s) /\ overlapped' = IF Quiet(u) THEN overlapped ELSE overlapped \cup {u}
      /\ thread' = [thread EXCEPT ![s] = [user |-> u, value |-> v, todo |-> todo]]
  BY DEF Begin
<1>2. /\ thread'[s] = [user |-> u, value |-> v, todo |-> todo]
      /\ \A r \in Sources \ {s} : thread'[r] = thread[r]
  BY <1>1 DEF ThreadsOK
<1>3. \A w \in Users \ overlapped' : w \notin overlapped /\ (w = u => Quiet(u))
  BY <1>1
<1>4. ASSUME NEW w \in Users, OneAtATime(w) PROVE OneAtATime(w)'
  <2> SUFFICES ASSUME w \notin overlapped', NEW q \in Sources, NEW r \in Sources,
                      Busy(q)', Busy(r)', Here(q)' = w, Here(r)' = w
               PROVE  q = r
    BY DEF OneAtATime
  <2>1. w \notin overlapped /\ (w = u => Quiet(u))
    BY <1>3
  <2>2. CASE q # s /\ r # s
    BY <1>2, <1>4, <2>1, <2>2 DEF OneAtATime, Busy, Here
  <2>3. CASE q = s /\ r # s
    BY <1>2, <2>1, <2>3 DEF Quiet, Busy, Here
  <2>4. CASE q # s /\ r = s
    BY <1>2, <2>1, <2>4 DEF Quiet, Busy, Here
  <2> QED
    BY <2>2, <2>3, <2>4
<1>5. InHandler(s)'
  <2>1. thread'[s].value = v /\ thread'[s].todo = todo
    BY <1>2
  <2>2. todo \in Remaining(s)'
    <3> DEFINE D4 == <<"active">> \o FreshDisabledState
    <3> HIDE DEF D4
    <3>1. CASE s = "call" /\ v = "on" /\ todo = SetScreenLockDisabledSteps(TRUE)
      BY <2>1, <3>1 DEF Remaining
    <3>2. CASE s \in {"call", "cred"} /\ v = "off" /\ todo = D4
      BY <2>1, <3>2 DEF Remaining, D4
    <3>3. CASE s = "common" /\ todo = OnReceiveEventSteps
      BY <3>3 DEF Remaining
    <3>4. CASE s = "account" /\ todo = OnActiveUserSteps
      BY <3>4 DEF Remaining
    <3>5. CASE s = "remove" /\ todo = OnRemoveUserSteps
      BY <3>5 DEF Remaining
    <3> QED
      BY <3>1, <3>2, <3>3, <3>4, <3>5 DEF D4
  <2> QED
    BY <2>1, <2>2 DEF InHandler
<1>6. Handlers'
  BY <1>2, <1>5, InHandlerKept DEF Handlers
<1> QED
  BY <1>1, <1>2, <1>3, <1>4, <1>6 DEF Began

LEMMA HandlerSteps ==
  ASSUME ThreadsOK, Handlers, NEW s \in Sources, Step(s)
  PROVE  /\ Handlers' /\ Busy(s) /\ InHandler(s)
         /\ thread'[s].user = thread[s].user /\ thread'[s].value = thread[s].value
         /\ thread'[s].todo = <<>> \/ thread'[s].todo = Tail(thread[s].todo)
         /\ ~Check(s) => thread'[s].todo = Tail(thread[s].todo)
         /\ \A r \in Sources \ {s} : thread'[r] = thread[r]
         /\ \A w \in Users : OneAtATime(w) => OneAtATime(w)'
<1>1. Busy(s) /\ InHandler(s)
  BY DEF Step, Check, SaveBool, RemoveKey, Refresh, AuthStateInit, EraseAuthState,
         DeleteUnlockPolicyForUser, At, Handlers
<1>2. /\ UNCHANGED overlapped
      /\ \E b : Continue(s, b) /\ (~Check(s) => b)
  <2>1. CASE Check(s)
    BY <2>1 DEF Check
  <2>2. CASE ~Check(s)
    BY <2>2 DEF Step, SaveBool, RemoveKey, Refresh, AuthStateInit, EraseAuthState,
                DeleteUnlockPolicyForUser
  <2> QED
    BY <2>1, <2>2
<1>3. PICK b : Continue(s, b) /\ (~Check(s) => b)
  BY <1>2
<1>4. /\ thread'[s].user = thread[s].user /\ thread'[s].value = thread[s].value
      /\ thread'[s].todo = <<>> \/ thread'[s].todo = Tail(thread[s].todo)
      /\ ~Check(s) => thread'[s].todo = Tail(thread[s].todo)
      /\ \A r \in Sources \ {s} : thread'[r] = thread[r]
  <2> DEFINE rest == IF b THEN Tail(thread[s].todo) ELSE <<>>
  <2>1. thread' = [thread EXCEPT ![s].todo = rest]
    BY <1>3 DEF Continue, Goto
  <2>2. rest = <<>> \/ rest = Tail(thread[s].todo)
    OBVIOUS
  <2>3. ~Check(s) => rest = Tail(thread[s].todo)
    BY <1>3
  <2> HIDE DEF rest
  <2> QED
    BY <2>1, <2>2, <2>3 DEF ThreadsOK, Thread
<1>5. Handlers'
  <2>1. Tail(thread[s].todo) \in Remaining(s) /\ <<>> \in Remaining(s)
    <3>1. <<>> \in Remaining(s)
      BY DEF Remaining, Sources
    <3> QED
      BY <1>1, <3>1, AtRemaining
  <2>2. thread'[s].todo \in Remaining(s)
    BY <1>4, <2>1
  <2>3. Remaining(s)' = Remaining(s)
    BY <1>4 DEF Remaining
  <2>4. InHandler(s)'
    BY <1>1, <1>4, <2>2, <2>3 DEF InHandler
  <2> QED
    BY <1>4, <2>4, InHandlerKept DEF Handlers
<1>6. \A r \in Sources : (Busy(r)' => Busy(r)) /\ Here(r)' = Here(r)
  BY <1>1, <1>4 DEF Busy, Here
<1>7. ASSUME NEW w \in Users, OneAtATime(w) PROVE OneAtATime(w)'
  BY <1>2, <1>6, <1>7 DEF OneAtATime
<1> QED
  BY <1>1, <1>4, <1>5, <1>7
FlagsInv == \A u \in Users : OneAtATime(u) /\ RevokeInv(u) /\ GrantInv(u)

LEMMA InitFlags == Init => Handlers /\ FlagsInv
<1> SUFFICES ASSUME Init PROVE Handlers /\ FlagsInv
  OBVIOUS
<1>1. \A s \in Sources : thread[s].value = "off" /\ thread[s].todo = <<>>
  BY DEF Init, NoThread
<1>2. ASSUME NEW s \in Sources PROVE InHandler(s)
  <2>1. <<>> \in Remaining(s)
    BY DEF Remaining, Sources
  <2> QED
    BY <1>1, <2>1 DEF InHandler
<1>3. FlagsInv
  BY <1>1 DEF Init, FlagsInv, OneAtATime, RevokeInv, GrantInv, Busy
<1> QED
  BY <1>2, <1>3 DEF Handlers

\* What a thread does at its next operation.
LEMMA StepKinds ==
  ASSUME OthersOK, ThreadsOK, NEW s \in Sources, Step(s)
  PROVE  \/ /\ ~At(s, "put") /\ ~At(s, "unset") /\ UNCHANGED <<disabled, granted>>
         \/ At(s, "put") /\ SaveBool(s)
         \/ At(s, "unset") /\ RemoveKey(s) /\ UNCHANGED granted
BY DEF Step, Check, SaveBool, RemoveKey, Refresh, AuthStateInit, EraseAuthState,
       DeleteUnlockPolicyForUser, At, cache

LEMMA StepSurroundings ==
  ASSUME NEW s \in Sources, Step(s)
  PROVE  UNCHANGED <<active, pin, credEvents, commonEvents, overlapped, crashes>>
BY DEF Step, Check, SaveBool, RemoveKey, Refresh, AuthStateInit, EraseAuthState,
       DeleteUnlockPolicyForUser, outside, counters

\* GetSecure finds no PIN when SetScreenLockDisabled(TRUE) gets past its check.
LEMMA StoringBegins ==
  ASSUME ThreadsOK, Handlers, NEW s \in Sources, Step(s), NEW u \in Users, Storing(u)', ~Storing(u)
  PROVE  ~pin[u]
<1>1. /\ Busy(s) /\ InHandler(s)
      /\ thread'[s].user = thread[s].user /\ thread'[s].value = thread[s].value
      /\ thread'[s].todo = <<>> \/ thread'[s].todo = Tail(thread[s].todo)
      /\ \A r \in Sources \ {s} : thread'[r] = thread[r]
  BY HandlerSteps
<1>2. s = "call" /\ Here("call") = u /\ thread["call"].value = "on" /\ thread["call"].todo \notin Setting
  BY <1>1 DEF Storing, Here, Sources
<1>3. <<>> \notin Setting
  BY DEF Setting, FreshDisabledState
<1>4. thread'[s].todo \in Setting /\ thread'[s].todo = Tail(thread[s].todo)
  BY <1>1, <1>2, <1>3 DEF Storing
<1>5. At(s, "secure") \/ At(s, "differs")
  BY <1>1, <1>2, <1>4, AtRemaining
<1>6. ~At(s, "differs")
  BY <1>1, <1>2, AtRemaining DEF Setting
<1>7. At(s, "secure") /\ Check(s)
  BY <1>5, <1>6 DEF Step, SaveBool, RemoveKey, Refresh, AuthStateInit, EraseAuthState,
                    DeleteUnlockPolicyForUser, At
<1>8. Continue(s, Holds(s, "secure"))
  BY <1>7 DEF Check, At
<1>9. ASSUME pin[u] PROVE FALSE
  <2>1. ~Holds(s, "secure")
    BY <1>2, <1>9 DEF Holds
  <2>2. thread' = [thread EXCEPT ![s].todo = <<>>]
    BY <1>8, <2>1 DEF Continue, Goto
  <2>3. thread'[s].todo = <<>>
    BY <2>2 DEF ThreadsOK, Thread
  <2> QED
    BY <1>3, <1>4, <2>3
<1> QED
  BY <1>9
LEMMA StepRevoke ==
  ASSUME OthersOK, ThreadsOK, Handlers, NEW s \in Sources, Step(s),
         NEW u \in Users, OneAtATime(u), RevokeInv(u)
  PROVE  RevokeInv(u)'
<1> SUFFICES ASSUME crashes' = 0, u \notin overlapped', pin'[u], disabled'[u] = "on" \/ Storing(u)'
             PROVE  Revoking(u)'
  BY DEF RevokeInv
<1>1. /\ Busy(s) /\ InHandler(s) /\ Handlers'
      /\ thread'[s].user = thread[s].user /\ thread'[s].value = thread[s].value
      /\ thread'[s].todo = <<>> \/ thread'[s].todo = Tail(thread[s].todo)
      /\ ~Check(s) => thread'[s].todo = Tail(thread[s].todo)
      /\ \A r \in Sources \ {s} : thread'[r] = thread[r]
  BY HandlerSteps
<1>2. /\ UNCHANGED <<pin, commonEvents, overlapped, crashes>>
      /\ crashes = 0 /\ u \notin overlapped /\ pin[u]
  BY StepSurroundings
<1>3. Storing(u)' => Storing(u)
  BY <1>2, StoringBegins
<1>4. disabled[u] = "on" \/ Storing(u) => Revoking(u)
  BY <1>2 DEF RevokeInv
<1>5. Storing(u) => Busy("call") /\ Here("call") = u /\ thread["call"].value = "on"
  <2>1. <<>> \notin Setting
    BY DEF Setting, FreshDisabledState
  <2> QED
    BY <2>1 DEF Storing, Busy
<1>6. Revoking(u) /\ ~At(s, "unset") => Revoking(u)'
  <2>1. ASSUME Here("common") = u, At("common", "unset"), ~At(s, "unset") PROVE Revoking(u)'
    BY <1>1, <2>1 DEF Revoking, Here, At, Busy, Sources
  <2> QED
    BY <1>2, <2>1 DEF Revoking
<1>7. CASE ~At(s, "put") /\ ~At(s, "unset") /\ UNCHANGED <<disabled, granted>>
  BY <1>3, <1>4, <1>6, <1>7
<1>8. CASE At(s, "put") /\ SaveBool(s)
  <2>1. disabled' = [disabled EXCEPT ![Here(s)] = thread[s].value] /\ thread[s].todo = <<"put", "flush">>
    BY <1>1, <1>8, AtRemaining DEF SaveBool
  <2>2. ~At(s, "unset")
    BY <1>8 DEF At
  <2>3. CASE Here(s) = u /\ disabled'[u] = "on"
    <3>1. thread[s].value = "on" /\ s = "call"
      BY <1>1, <2>1, <2>3 DEF OthersOK, InHandler
    <3>2. Storing(u)
      BY <2>1, <2>3, <3>1 DEF Storing, Setting
    <3> QED
      BY <1>4, <1>6, <2>2, <3>2
  <2>4. CASE Here(s) # u /\ disabled'[u] = "on"
    BY <1>4, <1>6, <2>1, <2>2, <2>4 DEF OthersOK
  <2>5. CASE Storing(u)'
    BY <1>3, <1>4, <1>6, <2>2, <2>5
  <2> QED
    BY <2>3, <2>4, <2>5
<1>9. CASE At(s, "unset") /\ RemoveKey(s)
  <2>1. disabled' = [disabled EXCEPT ![Here(s)] = "absent"] /\ s = "common"
    BY <1>1, <1>9, AtRemaining DEF RemoveKey
  <2>2. CASE Here(s) = u
    <3>1. disabled'[u] = "absent"
      BY <2>1, <2>2 DEF OthersOK
    <3>2. Storing(u)
      BY <1>3, <3>1
    <3> QED
      BY <1>1, <1>2, <1>5, <2>1, <2>2, <3>2 DEF OneAtATime, Sources
  <2>3. CASE Here(s) # u
    <3>1. disabled'[u] = disabled[u]
      BY <2>1, <2>3 DEF OthersOK
    <3>2. u \in commonEvents
      BY <1>3, <1>4, <2>1, <2>3, <3>1 DEF Revoking
    <3> QED
      BY <1>2, <3>2 DEF Revoking
  <2> QED
    BY <2>2, <2>3
<1> QED
  BY <1>7, <1>8, <1>9, StepKinds

LEMMA StepGrant ==
  ASSUME OthersOK, ThreadsOK, Handlers, NEW s \in Sources, Step(s),
         NEW u \in Users, OneAtATime(u), GrantInv(u)
  PROVE  GrantInv(u)'
<1> SUFFICES ASSUME u \in granted', u \notin overlapped'
             PROVE  /\ disabled'[u] = "on" /\ NoneUnderWay(u)'
                    /\ \A r \in Sources : Busy(r)' /\ Here(r)' = u => Harmless(r)'
  BY DEF GrantInv
<1>1. /\ Busy(s) /\ InHandler(s)
      /\ thread'[s].user = thread[s].user /\ thread'[s].value = thread[s].value
      /\ thread'[s].todo = <<>> \/ thread'[s].todo = Tail(thread[s].todo)
      /\ ~Check(s) => thread'[s].todo = Tail(thread[s].todo)
      /\ \A r \in Sources \ {s} : thread'[r] = thread[r]
  BY HandlerSteps
<1>2. UNCHANGED <<credEvents, commonEvents>> /\ u \notin overlapped
  BY StepSurroundings
<1>3. \A r \in Sources : (Busy(r)' => Busy(r)) /\ Here(r)' = Here(r)
  BY <1>1 DEF Busy, Here
<1>4. ASSUME disabled[u] = "on", Here(s) = u, Harmless(s), Busy(s)' PROVE Harmless(s)'
  <2>1. CASE s = "account"
    <3>1. thread[s].todo # <<"put", "flush">>
      BY <1>4, <2>1 DEF Harmless
    <3>2. SUFFICES ASSUME thread'[s].todo = <<"put", "flush">> PROVE FALSE
      BY <2>1 DEF Harmless
    <3>3. At(s, "notOn")
      <4>1. At(s, "put") => thread[s].todo = <<"put", "flush">>
        BY <1>1, AtRemaining
      <4>2. Tail(thread[s].todo) = <<"put", "flush">>
        BY <1>1, <3>2
      <4>3. At(s, "insert") => FALSE
        <5>1. thread[s].todo \in {<<"flush">>, <<"put", "flush">>, InitUserId, OnActiveUserSteps}
          BY <1>1, <2>1 DEF InHandler, Remaining, Busy
        <5>2. At(s, "insert") => thread[s].todo = OnActiveUserSteps
          BY <5>1, Remainders DEF At
        <5>3. Head(InitUserId) # Head(<<"put", "flush">>)
          BY Remainders
        <5> QED
          BY <4>2, <5>2, <5>3, PrefixedRemainders
      <4>4. At(s, "flush") => FALSE
        <5>1. thread[s].todo \in {<<"flush">>, <<"put", "flush">>, InitUserId, OnActiveUserSteps}
          BY <1>1, <2>1 DEF InHandler, Remaining, Busy
        <5>2. At(s, "flush") => thread[s].todo = <<"flush">>
          BY <5>1, Remainders, PrefixedRemainders DEF At
        <5>3. <<>> # <<"put", "flush">>
          OBVIOUS
        <5> QED
          BY <4>2, <5>2, <5>3, Remainders
      <4> QED
        BY <1>1, <2>1, <3>1, <4>1, <4>3, <4>4, AtRemaining
    <3>4. Continue(s, Holds(s, "notOn"))
      BY <3>3 DEF At, Step, Check, SaveBool, RemoveKey, Refresh, AuthStateInit, EraseAuthState,
                  DeleteUnlockPolicyForUser
    <3>5. ~Holds(s, "notOn")
      BY <1>4 DEF Holds
    <3>6. thread' = [thread EXCEPT ![s].todo = <<>>]
      BY <3>4, <3>5 DEF Continue, Goto
    <3>7. thread'[s].todo = <<>>
      BY <3>6 DEF ThreadsOK, Thread
    <3> QED
      BY <1>4, <3>7 DEF Busy
  <2> QED
    BY <1>1, <1>4, <2>1 DEF Harmless
<1>5. ASSUME u \in granted, ~(At(s, "put") /\ Here(s) = u) PROVE GrantInv(u)'
  <2>1. /\ disabled[u] = "on" /\ NoneUnderWay(u)
        /\ \A r \in Sources : Busy(r) /\ Here(r) = u => Harmless(r)
    BY <1>2, <1>5 DEF GrantInv
  <2>2. disabled'[u] = "on"
    <3>1. CASE ~At(s, "put") /\ ~At(s, "unset") /\ UNCHANGED <<disabled, granted>>
      BY <2>1, <3>1
    <3>2. CASE At(s, "put") /\ SaveBool(s)
      BY <1>5, <2>1, <3>2 DEF SaveBool, OthersOK
    <3>3. CASE At(s, "unset") /\ RemoveKey(s)
      <4>1. s = "common"
        BY <1>1, <3>3, AtRemaining
      <4>2. Here(s) # u
        BY <1>1, <2>1, <4>1 DEF Harmless
      <4> QED
        BY <2>1, <3>3, <4>2 DEF RemoveKey, OthersOK
    <3> QED
      BY <3>1, <3>2, <3>3, StepKinds
  <2>3. ASSUME NEW r \in Sources, Busy(r)', Here(r)' = u PROVE Harmless(r)'
    <3>1. Busy(r) /\ Here(r) = u /\ Harmless(r)
      BY <1>3, <2>1, <2>3
    <3>2. CASE r = s
      BY <1>4, <2>1, <2>3, <3>1, <3>2
    <3>3. CASE r # s
      BY <1>1, <3>1, <3>3 DEF Harmless
    <3> QED
      BY <3>2, <3>3
  <2> QED
    BY <1>2, <2>1, <2>2, <2>3 DEF GrantInv, NoneUnderWay
<1>6. CASE At(s, "put") /\ Here(s) = u
  <2>1. SaveBool(s)
    BY <1>6, StepKinds DEF At
  <2>2. thread[s].value = "on" => s = "call"
    BY <1>1 DEF InHandler
  <2>3. thread[s].value = "on"
    <3>1. CASE u \in granted
      <4>1. Harmless(s) /\ s \in {"call", "cred", "account"} /\ thread[s].todo = <<"put", "flush">>
        BY <1>1, <1>2, <1>6, <3>1, AtRemaining DEF GrantInv
      <4> QED
        BY <4>1 DEF Harmless
    <3>2. CASE u \notin granted
      BY <1>6, <2>1, <3>2 DEF SaveBool
    <3> QED
      BY <3>1, <3>2
  <2>4. disabled'[u] = "on"
    BY <1>6, <2>1, <2>3 DEF SaveBool, OthersOK
  <2>5. NoneUnderWay(u)
    BY <1>2, <1>6, <2>1 DEF SaveBool, GrantInv
  <2>6. ASSUME NEW r \in Sources, Busy(r)', Here(r)' = u PROVE Harmless(r)'
    <3>1. r = s
      BY <1>1, <1>2, <1>3, <1>6, <2>6 DEF OneAtATime
    <3> QED
      BY <1>1, <2>2, <2>3, <3>1 DEF Harmless
  <2> QED
    BY <1>2, <2>4, <2>5, <2>6 DEF NoneUnderWay
<1>7. u \in granted \/ (At(s, "put") /\ Here(s) = u)
  BY StepKinds DEF SaveBool, OthersOK
<1> QED
  BY <1>2, <1>5, <1>6, <1>7 DEF GrantInv
\* What the invariants are about after that.
Begun(s, u) ==
  /\ Handlers' /\ ~Busy(s) /\ thread'[s].user = u
  /\ \A r \in Sources \ {s} : thread'[r] = thread[r]
  /\ \A w \in Users : OneAtATime(w) => OneAtATime(w)'
  /\ \A w \in Users \ overlapped' : w \notin overlapped /\ (w = u => Quiet(u))
  /\ UNCHANGED <<disabled, crashes>>
  /\ credEvents' \subseteq credEvents /\ granted' \subseteq granted
  /\ \A w \in Users : pin'[w] => pin[w]
  /\ \/ s = "common" /\ At(s, "unset")' /\ u \in commonEvents /\ commonEvents' = commonEvents \ {u}
     \/ s = "cred" /\ u \in credEvents /\ UNCHANGED commonEvents
     \/ /\ s = "call" /\ thread'[s].todo \notin Setting /\ UNCHANGED commonEvents
        /\ thread'[s].value = "on" \/ u \notin granted'
     \/ s = "account" /\ thread'[s].todo # <<"put", "flush">> /\ UNCHANGED commonEvents
     \/ s = "remove" /\ UNCHANGED commonEvents

LEMMA ArrivalBegins ==
  ASSUME OthersOK, ThreadsOK, Handlers, NEW u \in Users,
         \/ \E b \in BOOLEAN : SetScreenLockDisabled(u, b)
         \/ OnNotifyCredChangeEvent(u) \/ OnReceiveEvent(u) \/ OnActiveUser(u) \/ OnRemoveUser(u)
  PROVE  \E s \in Sources : Begun(s, u)
<1>1. /\ Head(SetScreenLockDisabledSteps(TRUE)) = "active" /\ Head(<<"put", "flush">>) = "put"
      /\ Head(<<"active">> \o FreshDisabledState) = "active" /\ Head(FreshDisabledState) = "differs"
      /\ Head(OnActiveUserSteps) = "insert" /\ Head(OnReceiveEventSteps) = "unset"
  BY Remainders, PrefixedRemainders
<1> DEFINE D4 == <<"active">> \o FreshDisabledState  F2 == <<"put", "flush">>
<1>2. /\ SetScreenLockDisabledSteps(TRUE) \notin Setting /\ D4 \notin Setting
      /\ OnActiveUserSteps # F2
  <2>1. Setting = {F2, FreshDisabledState}
    BY DEF Setting
  <2> HIDE DEF F2
  <2>2. Head(F2) = "put"
    BY <1>1 DEF F2
  <2> HIDE DEF D4
  <2>3. Head(D4) = "active"
    BY <1>1 DEF D4
  <2> QED
    BY <1>1, <2>1, <2>2, <2>3
<1>3. SetScreenLockDisabledSteps(FALSE) = D4
  <2>1. ASSUME NEW A, NEW B PROVE (IF FALSE THEN A ELSE B) = B
    OBVIOUS
  <2>2. (IF FALSE THEN <<"secure">> \o FreshDisabledState ELSE FreshDisabledState) = FreshDisabledState
    BY <2>1, Zenon
  <2> QED
    BY <2>2, Zenon DEF SetScreenLockDisabledSteps
<1> HIDE DEF D4
<1>4. ASSUME SetScreenLockDisabled(u, TRUE) PROVE Begun("call", u)
  <2>1. /\ Begin("call", u, "on", SetScreenLockDisabledSteps(TRUE))
        /\ UNCHANGED <<disabled, crashes, pin, credEvents, commonEvents, granted>>
    BY <1>4 DEF SetScreenLockDisabled, cache, outside
  <2>2. Began("call", u, "on", SetScreenLockDisabledSteps(TRUE))
    BY <2>1, HandlerBegins DEF Sources
  <2> QED
    BY <1>2, <2>1, <2>2 DEF Began, Begun
<1>5. ASSUME SetScreenLockDisabled(u, FALSE) PROVE Begun("call", u)
  <2>1. /\ Begin("call", u, "off", D4) /\ granted' = granted \ {u}
        /\ UNCHANGED <<disabled, crashes, pin, credEvents, commonEvents>>
    BY <1>3, <1>5 DEF SetScreenLockDisabled, cache, outside
  <2>2. Began("call", u, "off", D4)
    BY <2>1, HandlerBegins DEF Sources, D4
  <2> QED
    BY <1>2, <2>1, <2>2 DEF Began, Begun
<1>6. ASSUME OnNotifyCredChangeEvent(u) PROVE Begun("cred", u)
  <2>1. /\ Begin("cred", u, "off", D4) /\ u \in credEvents /\ credEvents' = credEvents \ {u}
        /\ UNCHANGED <<disabled, crashes, pin, commonEvents, granted>>
    BY <1>6 DEF OnNotifyCredChangeEvent, cache, counters, D4
  <2>2. Began("cred", u, "off", D4)
    BY <2>1, HandlerBegins DEF Sources, D4
  <2> QED
    BY <2>1, <2>2 DEF Began, Begun
<1>7. ASSUME OnReceiveEvent(u) PROVE Begun("common", u)
  <2>1. /\ Begin("common", u, "off", OnReceiveEventSteps)
        /\ u \in commonEvents /\ commonEvents' = commonEvents \ {u}
        /\ UNCHANGED <<disabled, crashes, pin, credEvents, granted>>
    BY <1>7 DEF OnReceiveEvent, cache, counters
  <2>2. OnReceiveEventSteps # <<>>
    BY DEF OnReceiveEventSteps
  <2>3. Began("common", u, "off", OnReceiveEventSteps)
    BY <2>1, HandlerBegins DEF Sources
  <2> QED
    BY <1>1, <2>1, <2>2, <2>3 DEF Began, Begun, At, Busy
<1>8. ASSUME OnActiveUser(u) PROVE Begun("account", u)
  <2>1. /\ Begin("account", u, "off", OnActiveUserSteps)
        /\ UNCHANGED <<disabled, crashes, pin, credEvents, commonEvents, granted>>
    BY <1>8 DEF OnActiveUser, cache
  <2>2. Began("account", u, "off", OnActiveUserSteps)
    BY <2>1, HandlerBegins DEF Sources
  <2> QED
    BY <1>2, <2>1, <2>2 DEF Began, Begun
<1>9. ASSUME OnRemoveUser(u) PROVE Begun("remove", u)
  <2>1. /\ Begin("remove", u, "off", OnRemoveUserSteps) /\ pin' = [pin EXCEPT ![u] = FALSE]
        /\ UNCHANGED <<disabled, crashes, credEvents, commonEvents, granted>>
    BY <1>9 DEF OnRemoveUser, cache
  <2>2. \A w \in Users : pin'[w] => pin[w]
    BY <1>9, <2>1 DEF OthersOK
  <2>3. Began("remove", u, "off", OnRemoveUserSteps)
    BY <2>1, HandlerBegins DEF Sources
  <2> QED
    BY <2>1, <2>2, <2>3 DEF Began, Begun
<1> QED
  BY <1>4, <1>5, <1>6, <1>7, <1>8, <1>9 DEF Sources

LEMMA BegunFlags ==
  ASSUME OthersOK, ThreadsOK, Handlers, FlagsInv, NEW u \in Users, NEW s \in Sources, Begun(s, u),
         NEW w \in Users
  PROVE  RevokeInv(w)' /\ GrantInv(w)'
<1>1. /\ ~Busy(s) /\ thread'[s].user = u
      /\ \A r \in Sources \ {s} : thread'[r] = thread[r]
      /\ w \notin overlapped' => w \notin overlapped
      /\ UNCHANGED <<disabled, crashes>> /\ credEvents' \subseteq credEvents /\ granted' \subseteq granted
      /\ pin'[w] => pin[w]
  BY DEF Begun
<1>2. \/ s = "common" /\ At(s, "unset")' /\ u \in commonEvents /\ commonEvents' = commonEvents \ {u}
      \/ s = "cred" /\ u \in credEvents /\ UNCHANGED commonEvents
      \/ /\ s = "call" /\ thread'[s].todo \notin Setting /\ UNCHANGED commonEvents
         /\ thread'[s].value = "on" \/ u \notin granted'
      \/ s = "account" /\ thread'[s].todo # <<"put", "flush">> /\ UNCHANGED commonEvents
      \/ s = "remove" /\ UNCHANGED commonEvents
  BY DEF Begun
<1>3. RevokeInv(w)'
  <2> SUFFICES ASSUME crashes' = 0, w \notin overlapped', pin'[w], disabled'[w] = "on" \/ Storing(w)'
               PROVE  Revoking(w)'
    BY DEF RevokeInv
  <2>1. Storing(w)' => Storing(w)
    BY <1>1, <1>2 DEF Storing, Here, Sources
  <2>2. Revoking(w)
    BY <1>1, <2>1 DEF FlagsInv, RevokeInv
  <2>3. CASE w \in commonEvents
    BY <1>1, <1>2, <2>3 DEF Revoking, Here
  <2>4. CASE Here("common") = w /\ At("common", "unset")
    BY <1>1, <1>2, <2>4 DEF Revoking, Here, At, Busy, Sources
  <2> QED
    BY <2>2, <2>3, <2>4 DEF Revoking
<1>4. GrantInv(w)'
  <2> SUFFICES ASSUME w \in granted', w \notin overlapped'
               PROVE  /\ disabled'[w] = "on" /\ NoneUnderWay(w)'
                      /\ \A r \in Sources : Busy(r)' /\ Here(r)' = w => Harmless(r)'
    BY DEF GrantInv
  <2>1. /\ disabled[w] = "on" /\ NoneUnderWay(w)
        /\ \A r \in Sources : Busy(r) /\ Here(r) = w => Harmless(r)
    BY <1>1 DEF FlagsInv, GrantInv
  <2>2. NoneUnderWay(w)'
    BY <1>1, <1>2, <2>1 DEF NoneUnderWay
  <2>3. ASSUME NEW r \in Sources, Busy(r)', Here(r)' = w PROVE Harmless(r)'
    <3>1. CASE r # s
      BY <1>1, <2>1, <2>3, <3>1 DEF Busy, Here, Harmless
    <3>2. CASE r = s
      <4>1. u = w
        BY <1>1, <2>3, <3>2 DEF Here
      <4> QED
        BY <1>2, <2>1, <3>2, <4>1 DEF Harmless, NoneUnderWay
    <3> QED
      BY <3>1, <3>2
  <2> QED
    BY <1>1, <2>1, <2>2, <2>3
<1> QED
  BY <1>3, <1>4
LEMMA ArrivalFlags ==
  ASSUME OthersOK, ThreadsOK, Handlers, FlagsInv, Arrival PROVE Handlers' /\ FlagsInv'
<1>1. PICK u \in Users, s \in Sources : Begun(s, u)
  BY ArrivalBegins DEF Arrival
<1>2. Handlers' /\ \A w \in Users : OneAtATime(w)'
  BY <1>1 DEF Begun, FlagsInv
<1>3. \A w \in Users : RevokeInv(w)' /\ GrantInv(w)'
  BY <1>1, BegunFlags
<1> QED
  BY <1>2, <1>3 DEF FlagsInv

LEMMA SameThreads ==
  ASSUME ThreadsOK, UNCHANGED <<thread, overlapped>>, Handlers
  PROVE  /\ Handlers' /\ \A u \in Users : OneAtATime(u) => OneAtATime(u)'
         /\ \A u : (Storing(u)' <=> Storing(u)) /\ \A s, op : At(s, op)' <=> At(s, op)
         /\ \A s : (Busy(s)' <=> Busy(s)) /\ Here(s)' = Here(s) /\ (Harmless(s)' <=> Harmless(s))
<1>1. Handlers'
  BY InHandlerKept DEF Handlers
<1>2. \A s : (Busy(s)' <=> Busy(s)) /\ Here(s)' = Here(s) /\ (Harmless(s)' <=> Harmless(s))
  BY DEF Busy, Here, Harmless
<1>3. \A u : (Storing(u)' <=> Storing(u)) /\ \A s, op : At(s, op)' <=> At(s, op)
  BY DEF Storing, Here, At, Busy
<1>4. \A u \in Users : OneAtATime(u) => OneAtATime(u)'
  BY DEF OneAtATime, Busy, Here
<1> QED
  BY <1>1, <1>2, <1>3, <1>4

LEMMA RestFlags ==
  ASSUME OthersOK, ThreadsOK, Handlers, FlagsInv, Rest PROVE Handlers' /\ FlagsInv'
<1>1. UNCHANGED <<disabled, thread, overlapped, crashes>>
  <2>1. UNCHANGED overlapped
    BY DEF Rest, SetUnlockPolicy, InsertAuthState, AddPin, DeletePin, Write
  <2> QED
    BY <2>1, RestTypes
<1>2. \A u \in Users :
        \/ /\ (pin'[u] => pin[u]) /\ (u \in granted' => u \in granted)
           /\ (u \in credEvents' <=> u \in credEvents) /\ (u \in commonEvents' <=> u \in commonEvents)
        \/ u \in commonEvents' /\ u \notin granted'
  <2>1. ASSUME NEW w \in Users, AddPin(w), NEW u \in Users
        PROVE  \/ /\ pin'[u] = pin[u] /\ (u \in granted' => u \in granted)
                  /\ (u \in credEvents' <=> u \in credEvents) /\ (u \in commonEvents' <=> u \in commonEvents)
               \/ u \in commonEvents' /\ u \notin granted'
    BY <2>1 DEF AddPin, OthersOK
  <2>2. ASSUME NEW w \in Users, DeletePin(w), NEW u \in Users
        PROVE  (pin'[u] => pin[u]) /\ UNCHANGED <<granted, credEvents, commonEvents>>
    BY <2>2 DEF DeletePin, OthersOK
  <2>3. ASSUME ~\E w \in Users : AddPin(w) \/ DeletePin(w)
        PROVE  UNCHANGED <<pin, granted, credEvents, commonEvents>>
    BY <2>3 DEF Rest, SetUnlockPolicy, InsertAuthState, Write, outside
  <2> QED
    BY <2>1, <2>2, <2>3
<1>3. ASSUME NEW u \in Users PROVE RevokeInv(u)' /\ GrantInv(u)'
  <2>1. RevokeInv(u) /\ GrantInv(u)
    BY DEF FlagsInv
  <2>2. \A s, op : At(s, op)' <=> At(s, op)
    BY <1>1, SameThreads
  <2>3. Storing(u)' <=> Storing(u)
    BY <1>1, SameThreads
  <2>4. \A s : (Busy(s)' <=> Busy(s)) /\ Here(s)' = Here(s) /\ (Harmless(s)' <=> Harmless(s))
    BY <1>1, SameThreads
  <2>5. RevokeInv(u)'
    BY <1>1, <1>2, <2>1, <2>2, <2>3, <2>4 DEF RevokeInv, Revoking
  <2>6. GrantInv(u)'
    <3> SUFFICES ASSUME u \in granted', u \notin overlapped'
                 PROVE  /\ disabled'[u] = "on" /\ NoneUnderWay(u)'
                        /\ \A s \in Sources : Busy(s)' /\ Here(s)' = u => Harmless(s)'
      BY DEF GrantInv
    <3>1. /\ u \in granted /\ u \notin overlapped
          /\ (u \in credEvents' <=> u \in credEvents) /\ (u \in commonEvents' <=> u \in commonEvents)
      BY <1>1, <1>2
    <3>2. /\ disabled[u] = "on" /\ NoneUnderWay(u)
          /\ \A s \in Sources : Busy(s) /\ Here(s) = u => Harmless(s)
      BY <2>1, <3>1 DEF GrantInv
    <3>3. NoneUnderWay(u)'
      BY <3>1, <3>2 DEF NoneUnderWay
    <3>4. ASSUME NEW s \in Sources, Busy(s)', Here(s)' = u PROVE Harmless(s)'
      <4>1. Busy(s) /\ Here(s) = u
        BY <2>4, <3>4
      <4> QED
        BY <2>4, <3>2, <4>1
    <3> QED
      BY <1>1, <3>2, <3>3, <3>4
  <2> QED
    BY <2>5, <2>6
<1> QED
  BY <1>1, <1>3, SameThreads DEF FlagsInv
LEMMA RestartFlags ==
  ASSUME OthersOK, Restart PROVE Handlers' /\ FlagsInv'
<1>1. /\ thread' = [s \in Sources |-> IF s = "account"
                      THEN [user |-> active, value |-> "off", todo |-> InitUserId] ELSE NoThread]
      /\ crashes' = crashes + 1 /\ crashes \in Nat /\ granted' = {}
  BY DEF Restart, OthersOK
<1>2. /\ \A s \in Sources : thread'[s].value = "off"
      /\ \A s \in Sources \ {"account"} : thread'[s].todo = <<>>
      /\ thread'["account"].todo = InitUserId
  BY <1>1 DEF NoThread, Sources
<1>3. ASSUME NEW s \in Sources PROVE InHandler(s)'
  <2>1. CASE s = "account"
    <3>1. InitUserId \in Remaining("account")'
      BY DEF Remaining
    <3> QED
      BY <1>2, <2>1, <3>1 DEF InHandler
  <2>2. CASE s # "account"
    <3>1. <<>> \in Remaining(s)'
      BY <2>2 DEF Remaining, Sources
    <3> QED
      BY <1>2, <2>2, <3>1 DEF InHandler
  <2> QED
    BY <2>1, <2>2
<1>4. ASSUME NEW u \in Users PROVE OneAtATime(u)' /\ RevokeInv(u)' /\ GrantInv(u)'
  <2>1. OneAtATime(u)'
    BY <1>2 DEF OneAtATime, Busy
  <2>2. crashes' # 0
    BY <1>1
  <2> QED
    BY <1>1, <2>1, <2>2 DEF RevokeInv, GrantInv
<1> QED
  BY <1>3, <1>4 DEF Handlers, FlagsInv

LEMMA NextFlags ==
  ASSUME OthersOK, ThreadsOK, Handlers, FlagsInv, [Next]_vars PROVE Handlers' /\ FlagsInv'
<1>1. ASSUME NEW s \in Sources, Step(s) PROVE Handlers' /\ FlagsInv'
  BY <1>1, HandlerSteps, StepRevoke, StepGrant DEF FlagsInv
<1>2. ASSUME UNCHANGED vars PROVE Handlers' /\ FlagsInv'
  <2>1. UNCHANGED <<disabled, thread, pin, credEvents, commonEvents, granted, overlapped, crashes>>
    BY <1>2 DEF vars, cache, outside, counters
  <2>2. Handlers' /\ \A u \in Users : OneAtATime(u) => OneAtATime(u)'
    BY <2>1, SameThreads
  <2>3. ASSUME NEW u \in Users PROVE RevokeInv(u)' /\ GrantInv(u)'
    <3>1. RevokeInv(u) /\ GrantInv(u)
      BY DEF FlagsInv
    <3> QED
      BY <2>1, <3>1 DEF RevokeInv, Revoking, Storing, Here, At, Busy, GrantInv, NoneUnderWay, Harmless
  <2> QED
    BY <2>2, <2>3 DEF FlagsInv
<1> QED
  BY <1>1, <1>2, NextSplit, ArrivalFlags, RestFlags, RestartFlags

\* The inductive invariant of the flags: every thread is somewhere in its
\* handler, a user out of overlapped has one handler at most, and a flag that
\* is set although there is a PIN has the event still to come that takes it away.
THEOREM FlagInvariant == Spec => []FlagInv
<1>1. FlagInv <=> Handlers /\ FlagsInv
  BY DEF FlagInv, Handlers, FlagsInv
<1> QED
  BY <1>1, InitTypes, NextTypes, InitFlags, NextFlags, PTL DEF Spec

\* SetScreenLockDisabled refuses a user with a PIN, and what slips through
\* between its check and its store is revoked by OnReceiveEvent.
THEOREM PinRevokes == Spec => []NoDisabledWithPin
<1>1. FlagInv => NoDisabledWithPin
  <2> SUFFICES ASSUME FlagInv, NEW u \in Users, u \notin overlapped, crashes = 0, Quiet(u),
                      NoneUnderWay(u), pin[u], disabled[u] = "on"
               PROVE  FALSE
    BY DEF NoDisabledWithPin
  <2>1. Revoking(u)
    BY DEF FlagInv, RevokeInv
  <2>2. "common" \in Sources
    BY DEF Sources
  <2> QED
    BY <2>1, <2>2 DEF Revoking, NoneUnderWay, At, Quiet, Here
<1> QED
  BY <1>1, FlagInvariant, PTL

\* No switch or removal of users takes away a flag that was set with success:
\* only SetScreenLockDisabled(FALSE) and the events about a new PIN do.
THEOREM GrantLasts == Spec => []GrantKept
<1>1. FlagInv /\ PreferencesTypeOK => GrantKept
  <2> SUFFICES ASSUME FlagInv, PreferencesTypeOK, NEW u \in granted \ overlapped
               PROVE  disabled[u] = "on"
    BY DEF GrantKept
  <2>1. u \in Users
    BY DEF PreferencesTypeOK
  <2> QED
    BY <2>1 DEF FlagInv, GrantInv
<1> QED
  BY <1>1, FlagInvariant, TypeCorrect, PTL
=============================================================================
