-------------------------- MODULE StrongAuth_proofs --------------------------
(***************************************************************************)
(* Theorems about StrongAuth, for any users, periods and bounds.  Those of  *)
(* the first half let the callbacks interleave freely; those of the second,  *)
(* from SerialInvariant on, hold for callbacks of which no two of one user   *)
(* overlap (Serial), while those of different users still do.               *)
(***************************************************************************)
EXTENDS StrongAuth, SequenceTheorems, TLAPS

Info == [timerId : TimerIds, triggerPeriod : Periods, age : 0..Off]
Clock == [user : Users, left : 0..Off]

-----------------------------------------------------------------------------
(* Partial functions.                                                      *)

LEMMA PartialDomain ==
  ASSUME NEW S, NEW T, NEW f \in PartialFcn(S, T)
  PROVE  DOMAIN f \in SUBSET S /\ f \in [DOMAIN f -> T]
<1>1. PICK D \in SUBSET S : f \in [D -> T]
  BY DEF PartialFcn
<1> QED
  BY <1>1

LEMMA PartialIntro ==
  ASSUME NEW S, NEW T, NEW D \in SUBSET S, NEW f \in [D -> T]
  PROVE  f \in PartialFcn(S, T)
BY Zenon DEF PartialFcn

LEMMA PutPartial ==
  ASSUME NEW S, NEW T, NEW f \in PartialFcn(S, T), NEW k \in S, NEW v \in T
  PROVE  Put(f, k, v) \in PartialFcn(S, T)
<1>1. Put(f, k, v) \in [DOMAIN f \cup {k} -> T]
  BY PartialDomain DEF Put
<1>2. DOMAIN f \cup {k} \in SUBSET S
  BY PartialDomain
<1> QED
  BY <1>1, <1>2, PartialIntro

LEMMA DropPartial ==
  ASSUME NEW S, NEW T, NEW f \in PartialFcn(S, T), NEW k
  PROVE  Drop(f, k) \in PartialFcn(S, T)
<1>1. Drop(f, k) \in [DOMAIN f \ {k} -> T]
  BY PartialDomain DEF Drop
<1>2. DOMAIN f \ {k} \in SUBSET S
  BY PartialDomain
<1> QED
  BY <1>1, <1>2, PartialIntro

LEMMA UpdatePartial ==
  ASSUME NEW S, NEW T, NEW f \in PartialFcn(S, T), NEW k, NEW v \in T
  PROVE  [f EXCEPT ![k] = v] \in PartialFcn(S, T)
<1>1. [f EXCEPT ![k] = v] \in [DOMAIN f -> T]
  BY PartialDomain
<1> QED
  BY <1>1, PartialDomain, PartialIntro

LEMMA EmptyPartial ==
  ASSUME NEW S, NEW T, NEW v PROVE [x \in {} |-> v] \in PartialFcn(S, T)
<1>1. [x \in {} |-> v] \in [{} -> T]
  OBVIOUS
<1> QED
  BY <1>1, PartialIntro

-----------------------------------------------------------------------------
(* Type correctness.                                                       *)

LEMMA PeriodRange ==
  /\ Off \in Nat /\ Off \in 0..Off /\ Default \in Periods /\ Default \in Nat \ {0}
  /\ \A p \in Periods : p \in Nat /\ p \in 0..Off /\ p # Off
  /\ Stages[1] \in Periods
BY StagesAssumption, BoundAssumption DEF Periods, Off

LEMMA TableTypes ==
  ASSUME TypeOK
  PROVE  /\ strongAuthTimerInfo \in PartialFcn(Users, Info)
         /\ DOMAIN strongAuthTimerInfo \in SUBSET Users
         /\ strongAuthTimerInfo \in [DOMAIN strongAuthTimerInfo -> Info]
         /\ timers \in PartialFcn(TimerIds, Clock)
         /\ DOMAIN timers \in SUBSET TimerIds
         /\ timers \in [DOMAIN timers -> Clock]
<1>1. strongAuthTimerInfo \in PartialFcn(Users, Info) /\ timers \in PartialFcn(TimerIds, Clock)
  BY DEF TypeOK, TablesOK, ClocksOK, Info, Clock
<1> QED
  BY <1>1, PartialDomain

LEMMA NewTimer ==
  ASSUME NEW c \in TimerIds, NEW u \in Users, NEW p \in Periods
  PROVE  /\ [timerId |-> c, triggerPeriod |-> p, age |-> 0] \in Info
         /\ [user |-> u, left |-> p] \in Clock
<1>1. 0 \in 0..Off /\ p \in 0..Off
  BY PeriodRange
<1> QED
  BY <1>1 DEF Info, Clock

LEMMA NextPeriodType == ASSUME NEW p \in Periods, p # Default PROVE NextPeriod(p) \in Periods
<1> DEFINE i == CHOOSE i \in 1..Len(Stages) : Stages[i] = p
<1>1. i \in 1..Len(Stages)
  BY DEF Periods
<1>2. i < Len(Stages) => i + 1 \in 1..Len(Stages)
  BY <1>1, StagesAssumption
<1> QED
  BY <1>1, <1>2 DEF NextPeriod, Periods

LEMMA InitType == Init => TypeOK
<1> SUFFICES ASSUME Init PROVE TypeOK
  OBVIOUS
<1>1. TablesOK /\ ClocksOK
  BY EmptyPartial, BoundAssumption DEF Init, TablesOK, ClocksOK
<1>2. ThreadsOK
  BY PeriodRange, BoundAssumption DEF Init, ThreadsOK, NoThread, Flags
<1>3. OthersOK
  BY DEF Init, OthersOK
<1> QED
  BY <1>1, <1>2, <1>3 DEF TypeOK

LEMMA BeginType ==
  ASSUME ThreadsOK, NEW s \in Sources, NEW u \in Users, NEW flag \in Flags,
         NEW p \in Periods, NEW todo \in Seq(Ops), Begin(s, u, flag, p, todo)
  PROVE  ThreadsOK'
<1>1. [user |-> u, flag |-> flag, period |-> p, id |-> 0, todo |-> todo]
        \in [user : Users \cup {"nobody"}, flag : Flags, period : Periods,
             id : 0..MaxTimers, todo : Seq(Ops)]
  BY BoundAssumption
<1> QED
  BY <1>1 DEF ThreadsOK, Begin

LEMMA TodoTypes ==
  ASSUME ThreadsOK, NEW s \in Sources, thread[s].todo # <<>>
  PROVE  /\ Here(s) \in Users
         /\ Rest(s) \in Seq(Ops)
         /\ \A op \in Ops : <<op>> \o Rest(s) \in Seq(Ops)
         /\ ReArm \o Rest(s) \in Seq(Ops)
<1>1. Rest(s) \in Seq(Ops) /\ Here(s) \in Users
  BY DEF ThreadsOK, Rest, Here
<1>2. \A op \in Ops : <<op>> \in Seq(Ops)
  OBVIOUS
<1>3. ReArm \in Seq(Ops)
  BY DEF ReArm, Ops
<1> QED
  BY <1>1, <1>2, <1>3, ConcatProperties

LEMMA FirstTodos ==
  /\ <<"init", "start">> \in Seq(Ops) /\ <<"init">> \in Seq(Ops)
  /\ <<"set", "trigger", "reset">> \in Seq(Ops) /\ <<"exists", "reset">> \in Seq(Ops)
  /\ <<"exists", "erase", "destroy">> \in Seq(Ops) /\ <<"exists", "set", "destroy">> \in Seq(Ops)
  /\ <<"set">> \in Seq(Ops) /\ <<"notify">> \in Seq(Ops) /\ <<"reason", "set">> \in Seq(Ops)
BY DEF Ops

Arrival ==
  \/ \E u \in Users :
       \/ GetCredInfo(u) \/ OnNotifyAuthSuccessEvent(u) \/ CredChanged(u) \/ AccountUnlocked(u)
       \/ \E b \in BOOLEAN : OnCredentialInfo(u, b) \/ CredDeleted(u, b)
       \/ \E flag \in ReqFlags : RequestStrongAuth(u, flag)

\* The callbacks and calls that arrive leave the tables and timers alone.
LEMMA ArrivalType == TypeOK /\ Arrival => TypeOK' /\ UNCHANGED <<tables, clocks>>
<1> SUFFICES ASSUME TypeOK, Arrival PROVE TypeOK' /\ UNCHANGED <<tables, clocks>>
  OBVIOUS
<1>1. ASSUME UNCHANGED <<tables, clocks>> PROVE TablesOK' /\ ClocksOK'
  BY <1>1 DEF TypeOK, TablesOK, ClocksOK, tables, clocks
<1> USE FirstTodos, PeriodRange
<1>2. ASSUME NEW u \in Users, GetCredInfo(u)
      PROVE  ThreadsOK' /\ OthersOK' /\ UNCHANGED <<tables, clocks>>
  BY <1>2 DEF GetCredInfo, Event, TypeOK, ThreadsOK, OthersOK, ghosts
<1>3. ASSUME NEW u \in Users, OnNotifyAuthSuccessEvent(u)
      PROVE  ThreadsOK' /\ OthersOK' /\ UNCHANGED <<tables, clocks>>
  <2>1. ThreadsOK'
    BY <1>3, BeginType DEF OnNotifyAuthSuccessEvent, TypeOK, Flags, Sources
  <2> QED
    BY <1>3, <2>1 DEF OnNotifyAuthSuccessEvent, Event, TypeOK, OthersOK, outer
<1>4. ASSUME NEW u \in Users, CredChanged(u)
      PROVE  ThreadsOK' /\ OthersOK' /\ UNCHANGED <<tables, clocks>>
  <2>1. ThreadsOK'
    BY <1>4, BeginType DEF CredChanged, TypeOK, Flags, Sources
  <2> QED
    BY <1>4, <2>1 DEF CredChanged, Event, TypeOK, OthersOK
<1>5. ASSUME NEW u \in Users, AccountUnlocked(u)
      PROVE  ThreadsOK' /\ OthersOK' /\ UNCHANGED <<tables, clocks>>
  <2>1. ThreadsOK'
    BY <1>5, BeginType DEF AccountUnlocked, TypeOK, Flags, Sources
  <2> QED
    BY <1>5, <2>1 DEF AccountUnlocked, TypeOK, OthersOK, ghosts
<1>6. ASSUME NEW u \in Users, NEW b \in BOOLEAN, OnCredentialInfo(u, b)
      PROVE  ThreadsOK' /\ OthersOK' /\ UNCHANGED <<tables, clocks>>
  <2>1. ThreadsOK'
    <3>1. CASE pin[u] \/ b
      BY <1>6, <3>1, BeginType DEF OnCredentialInfo, TypeOK, Flags, Sources
    <3>2. CASE ~(pin[u] \/ b)
      BY <1>6, <3>2, BeginType DEF OnCredentialInfo, TypeOK, Flags, Sources
    <3> QED
      BY <3>1, <3>2
  <2> QED
    BY <1>6, <2>1 DEF OnCredentialInfo, TypeOK, OthersOK
<1>7. ASSUME NEW u \in Users, NEW b \in BOOLEAN, CredDeleted(u, b)
      PROVE  ThreadsOK' /\ OthersOK' /\ UNCHANGED <<tables, clocks>>
  <2>1. ThreadsOK'
    <3>1. <<"exists", IF b THEN "erase" ELSE "set", "destroy">> \in Seq(Ops)
      BY DEF Ops
    <3> QED
      BY <1>7, <3>1, BeginType DEF CredDeleted, TypeOK, Flags, Sources
  <2> QED
    BY <1>7, <2>1 DEF CredDeleted, Event, TypeOK, OthersOK
<1>8. ASSUME NEW u \in Users, NEW flag \in ReqFlags, RequestStrongAuth(u, flag)
      PROVE  ThreadsOK' /\ OthersOK' /\ UNCHANGED <<tables, clocks>>
  <2>1. ThreadsOK'
    BY <1>8, BeginType, FlagsAssumption DEF RequestStrongAuth, TypeOK, Sources
  <2> QED
    BY <1>8, <2>1 DEF RequestStrongAuth, Event, TypeOK, OthersOK, outer
<1> QED
  BY <1>1, <1>2, <1>3, <1>4, <1>5, <1>6, <1>7, <1>8 DEF Arrival, TypeOK

LEMMA TimerType ==
  TypeOK /\ ((\E i \in TimerIds : TimerFires(i)) \/ DestroyAllStrongAuthTimer \/ Tick) => TypeOK'
<1>1. ASSUME TypeOK, NEW i \in TimerIds, TimerFires(i) PROVE TypeOK'
  <2>1. timers \in [DOMAIN timers -> Clock] /\ timers \in PartialFcn(TimerIds, Clock)
    BY <1>1, TableTypes
  <2>2. timers[i].user \in Users /\ [timers[i] EXCEPT !.left = Default] \in Clock
    BY <1>1, <2>1, PeriodRange DEF TimerFires, Clock
  <2>3. timers' = [timers EXCEPT ![i] = [timers[i] EXCEPT !.left = Default]]
    BY <1>1 DEF TimerFires
  <2>4. ClocksOK'
    <3>1. timers' \in PartialFcn(TimerIds, Clock)
      BY <2>1, <2>2, <2>3, UpdatePartial
    <3> QED
      BY <1>1, <3>1 DEF TimerFires, TypeOK, ClocksOK, Clock
  <2>5. ThreadsOK'
    BY <1>1, <2>2, BeginType, FirstTodos, PeriodRange DEF TimerFires, TypeOK, Flags, Sources
  <2> QED
    BY <1>1, <2>4, <2>5 DEF TimerFires, TypeOK, TablesOK, OthersOK, tables, outer, ghosts
<1>2. ASSUME TypeOK, DestroyAllStrongAuthTimer PROVE TypeOK'
  <2>1. TablesOK' /\ ClocksOK'
    BY <1>2, EmptyPartial DEF DestroyAllStrongAuthTimer, TypeOK, TablesOK, ClocksOK
  <2> QED
    BY <1>2, <2>1 DEF DestroyAllStrongAuthTimer, TypeOK, ThreadsOK, OthersOK, outer, ghosts
<1>3. ASSUME TypeOK, Tick PROVE TypeOK'
  <2>1. timers \in [DOMAIN timers -> Clock] /\ DOMAIN timers \in SUBSET TimerIds
    BY <1>3, TableTypes
  <2>2. strongAuthTimerInfo \in [DOMAIN strongAuthTimerInfo -> Info]
        /\ DOMAIN strongAuthTimerInfo \in SUBSET Users
    BY <1>3, TableTypes
  <2>3. timers' \in [DOMAIN timers -> Clock]
    <3>1. ASSUME NEW i \in DOMAIN timers
          PROVE  [timers[i] EXCEPT !.left = IF @ = Off THEN Off ELSE @ - 1] \in Clock
      BY <1>3, <2>1, PeriodRange DEF Tick, Clock
    <3> QED
      BY <1>3, <3>1 DEF Tick
  <2>4. strongAuthTimerInfo' \in [DOMAIN strongAuthTimerInfo -> Info]
    <3>1. ASSUME NEW u \in DOMAIN strongAuthTimerInfo
          PROVE  [strongAuthTimerInfo[u] EXCEPT !.age = Older(@)] \in Info
      BY <2>2, PeriodRange DEF Info, Older, Off
    <3> QED
      BY <1>3, <3>1 DEF Tick
  <2>5. TablesOK' /\ ClocksOK'
    BY <1>3, <2>1, <2>2, <2>3, <2>4, PartialIntro DEF Tick, TypeOK, TablesOK, ClocksOK, Info, Clock
  <2> QED
    BY <1>3, <2>5 DEF Tick, TypeOK, ThreadsOK, OthersOK, outer, ghosts
<1> QED
  BY <1>1, <1>2, <1>3

\* A section that leaves tables and timers alone.
Passing(s) ==
  \/ NotifyStrongAuthChange(s) \/ ResetStrongAuthTimer(s) \/ IsUserExitInStrongAuthInfo(s)
  \/ GetStrongAuthTimeTrigger(s)

LEMMA ToldType ==
  ASSUME TypeOK, NEW u \in Users, NEW flag \in Flags
  PROVE  Told(u, flag) \in [Users -> Flags \cup {"nothing"}]
BY DEF Told, TypeOK, OthersOK

LEMMA PlainGotoType ==
  ASSUME ThreadsOK, NEW s \in Sources, thread[s].todo # <<>>, NEW todo \in Seq(Ops),
         Goto(s, todo)
  PROVE  ThreadsOK'
<1>1. [thread[s] EXCEPT !.todo = todo]
        \in [user : Users \cup {"nobody"}, flag : Flags, period : Periods,
             id : 0..MaxTimers, todo : Seq(Ops)]
  BY DEF ThreadsOK
<1>2. thread' = [thread EXCEPT ![s] = [thread[s] EXCEPT !.todo = todo]]
  BY DEF Goto
<1> QED
  BY <1>1, <1>2 DEF ThreadsOK

LEMMA PassingType ==
  ASSUME TypeOK, NEW s \in Sources, Passing(s)
  PROVE  TypeOK' /\ UNCHANGED <<tables, clocks>>
<1>1. ASSUME UNCHANGED <<tables, clocks>> PROVE TablesOK' /\ ClocksOK'
  BY <1>1 DEF TypeOK, TablesOK, ClocksOK, tables, clocks
<1>2. ASSUME UNCHANGED <<told, still>> PROVE OthersOK'
  BY <1>2 DEF TypeOK, OthersOK, still, outer, ghosts
<1>3. thread[s].todo # <<>>
  BY DEF Passing, NotifyStrongAuthChange, ResetStrongAuthTimer, IsUserExitInStrongAuthInfo,
         GetStrongAuthTimeTrigger, At
<1>4. /\ Here(s) \in Users /\ Rest(s) \in Seq(Ops) /\ ReArm \o Rest(s) \in Seq(Ops)
      /\ <<"start">> \o Rest(s) \in Seq(Ops) /\ <<>> \in Seq(Ops)
  BY <1>3, TodoTypes DEF TypeOK, Ops
<1>5. CASE NotifyStrongAuthChange(s)
  <2>1. thread[s].flag \in Flags
    BY DEF TypeOK, ThreadsOK
  <2>2. told' \in [Users -> Flags \cup {"nothing"}]
    BY <1>4, <1>5, <2>1, ToldType DEF NotifyStrongAuthChange
  <2>3. OthersOK'
    BY <1>5, <2>2 DEF NotifyStrongAuthChange, TypeOK, OthersOK, still, outer, ghosts
  <2>4. ThreadsOK'
    BY <1>3, <1>4, <1>5, PlainGotoType DEF NotifyStrongAuthChange, TypeOK
  <2> QED
    BY <1>1, <1>5, <2>3, <2>4 DEF NotifyStrongAuthChange, TypeOK
<1>6. CASE ResetStrongAuthTimer(s)
  <2>1. ThreadsOK'
    <3>1. CASE HasTimer(Here(s))
      <4> DEFINE id == strongAuthTimerInfo[Here(s)].timerId
                 todo == ReArm \o Rest(s)
      <4>1. id \in TimerIds
        BY <3>1, TableTypes DEF Info, HasTimer
      <4>2. thread' = [thread EXCEPT ![s].id = id, ![s].todo = todo]
        BY <1>6, <3>1 DEF ResetStrongAuthTimer
      <4>3. id \in 0..MaxTimers /\ todo \in Seq(Ops)
        BY <1>4, <4>1, BoundAssumption DEF TimerIds
      <4> HIDE DEF id, todo
      <4>4. [thread[s] EXCEPT !.id = id, !.todo = todo]
              \in [user : Users \cup {"nobody"}, flag : Flags, period : Periods,
                   id : 0..MaxTimers, todo : Seq(Ops)]
        BY <4>3 DEF TypeOK, ThreadsOK
      <4>5. thread' = [thread EXCEPT ![s] = [thread[s] EXCEPT !.id = id, !.todo = todo]]
        BY <4>2 DEF TypeOK, ThreadsOK
      <4> QED
        BY <1>3, <4>4, <4>5 DEF TypeOK, ThreadsOK
    <3>2. CASE ~HasTimer(Here(s))
      BY <1>3, <1>4, <1>6, <3>2, PlainGotoType DEF ResetStrongAuthTimer, TypeOK
    <3> QED
      BY <3>1, <3>2
  <2> QED
    BY <1>1, <1>2, <1>6, <2>1 DEF ResetStrongAuthTimer, TypeOK
<1>7. CASE IsUserExitInStrongAuthInfo(s)
  <2>1. ThreadsOK'
    BY <1>3, <1>4, <1>7, PlainGotoType DEF IsUserExitInStrongAuthInfo, TypeOK
  <2> QED
    BY <1>1, <1>2, <1>7, <2>1 DEF IsUserExitInStrongAuthInfo, TypeOK
<1>8. CASE GetStrongAuthTimeTrigger(s)
  <2>1. ASSUME NEW flag \in Flags,
               thread' = [thread EXCEPT ![s].flag = flag, ![s].todo = Rest(s)]
        PROVE  ThreadsOK'
    <3>1. [thread[s] EXCEPT !.flag = flag, !.todo = Rest(s)]
            \in [user : Users \cup {"nobody"}, flag : Flags, period : Periods,
                 id : 0..MaxTimers, todo : Seq(Ops)]
      BY <1>4 DEF TypeOK, ThreadsOK
    <3>2. thread' = [thread EXCEPT ![s] = [thread[s] EXCEPT !.flag = flag, !.todo = Rest(s)]]
      BY <2>1 DEF TypeOK, ThreadsOK
    <3> QED
      BY <1>3, <3>1, <3>2 DEF TypeOK, ThreadsOK
  <2>2. ThreadsOK'
    BY <1>8, <2>1 DEF GetStrongAuthTimeTrigger, Flags
  <2> QED
    BY <1>1, <1>2, <1>8, <2>2 DEF GetStrongAuthTimeTrigger, TypeOK
<1> QED
  BY <1>5, <1>6, <1>7, <1>8 DEF Passing, NotifyStrongAuthChange, ResetStrongAuthTimer,
     IsUserExitInStrongAuthInfo, GetStrongAuthTimeTrigger

\* A section that writes strongAuthStateInfo.
StateSection(s) ==
  SetStrongAuthStat(s) \/ InitStrongAuthStat(s) \/ DestroyStrongAuthStateInfo(s)

LEMMA StateSectionType == ASSUME TypeOK, NEW s \in Sources, StateSection(s) PROVE TypeOK'
<1> DEFINE u == Here(s)
           flag == thread[s].flag
<1>1. thread[s].todo # <<>>
  BY DEF StateSection, SetStrongAuthStat, InitStrongAuthStat, DestroyStrongAuthStateInfo, At
<1>2. /\ u \in Users /\ Rest(s) \in Seq(Ops) /\ <<"notify">> \o Rest(s) \in Seq(Ops)
      /\ flag \in Flags
  BY <1>1, TodoTypes DEF TypeOK, ThreadsOK, Ops
<1>3. Told(u, flag) \in [Users -> Flags \cup {"nothing"}]
  BY <1>2, ToldType
<1>4. /\ strongAuthStateInfo \in PartialFcn(Users, Flags)
      /\ Put(strongAuthStateInfo, u, flag) \in PartialFcn(Users, Flags)
      /\ [strongAuthStateInfo EXCEPT ![u] = flag] \in PartialFcn(Users, Flags)
      /\ Drop(strongAuthStateInfo, u) \in PartialFcn(Users, Flags)
  BY <1>2, PutPartial, DropPartial, UpdatePartial DEF TypeOK, TablesOK
<1>5. ASSUME strongAuthStateInfo' \in PartialFcn(Users, Flags),
             told' \in [Users -> Flags \cup {"nothing"}],
             Goto(s, Rest(s)) \/ Goto(s, <<"notify">> \o Rest(s)),
             UNCHANGED <<strongAuthTimerInfo, clocks, still>>
      PROVE  TypeOK'
  <2>1. ThreadsOK'
    BY <1>1, <1>2, <1>5, PlainGotoType DEF TypeOK
  <2>2. TablesOK' /\ ClocksOK' /\ OthersOK'
    BY <1>5 DEF TypeOK, TablesOK, ClocksOK, OthersOK, clocks, still, outer, ghosts
  <2> QED
    BY <2>1, <2>2 DEF TypeOK
<1>6. told \in [Users -> Flags \cup {"nothing"}]
  BY DEF TypeOK, OthersOK
<1> HIDE DEF u, flag
<1>7. CASE SetStrongAuthStat(s)
  <2>1. /\ UNCHANGED <<strongAuthTimerInfo, clocks, still>>
        /\ Goto(s, Rest(s)) \/ Goto(s, <<"notify">> \o Rest(s))
        /\ told' = told \/ told' = Told(u, flag)
        /\ \/ strongAuthStateInfo' = strongAuthStateInfo
           \/ strongAuthStateInfo' = Put(strongAuthStateInfo, u, flag)
           \/ strongAuthStateInfo' = [strongAuthStateInfo EXCEPT ![u] = flag]
    BY <1>7, Zenon DEF SetStrongAuthStat, u, flag
  <2> QED
    BY <1>3, <1>4, <1>5, <1>6, <2>1
<1>8. CASE InitStrongAuthStat(s)
  <2>1. /\ UNCHANGED <<strongAuthTimerInfo, clocks, still>> /\ Goto(s, Rest(s))
        /\ told' = told \/ told' = Told(u, flag)
        /\ \/ strongAuthStateInfo' = strongAuthStateInfo
           \/ strongAuthStateInfo' = Put(strongAuthStateInfo, u, flag)
    BY <1>8, Zenon DEF InitStrongAuthStat, u, flag
  <2> QED
    BY <1>3, <1>4, <1>5, <1>6, <2>1
<1>9. CASE DestroyStrongAuthStateInfo(s)
  BY <1>4, <1>5, <1>6, <1>9 DEF DestroyStrongAuthStateInfo, u
<1> QED
  BY <1>7, <1>8, <1>9 DEF StateSection

\* A section that writes the period and stamp of a timer in the table.
StampSection(s) == GetStrongAuthTriggerPeriod(s) \/ SetCredChangeTriggerPeriod(s)

\* It leaves the ids in the table alone.
LEMMA StampKeepsIds ==
  ASSUME TypeOK, NEW s \in Sources, StampSection(s)
  PROVE  /\ TablesOK'
         /\ DOMAIN strongAuthTimerInfo' = DOMAIN strongAuthTimerInfo
         /\ \A u \in DOMAIN strongAuthTimerInfo :
              strongAuthTimerInfo'[u].timerId = strongAuthTimerInfo[u].timerId
<1> DEFINE u == Here(s)
<1>1. ASSUME NEW p \in Periods, u \in DOMAIN strongAuthTimerInfo,
             strongAuthTimerInfo' =
               [strongAuthTimerInfo EXCEPT ![u].triggerPeriod = p, ![u].age = 0]
      PROVE  /\ strongAuthTimerInfo' \in PartialFcn(Users, Info)
             /\ DOMAIN strongAuthTimerInfo' = DOMAIN strongAuthTimerInfo
             /\ \A v \in DOMAIN strongAuthTimerInfo :
                  strongAuthTimerInfo'[v].timerId = strongAuthTimerInfo[v].timerId
  <2> DEFINE r == [strongAuthTimerInfo[u] EXCEPT !.triggerPeriod = p, !.age = 0]
  <2>1. r \in Info /\ r.timerId = strongAuthTimerInfo[u].timerId
    BY <1>1, TableTypes, PeriodRange DEF Info
  <2>2. strongAuthTimerInfo' = [strongAuthTimerInfo EXCEPT ![u] = r]
    BY <1>1, TableTypes DEF Info
  <2> HIDE DEF r
  <2>3. strongAuthTimerInfo \in PartialFcn(Users, Info)
    BY TableTypes
  <2>4. strongAuthTimerInfo' \in PartialFcn(Users, Info)
    BY <2>1, <2>2, <2>3, UpdatePartial
  <2>5. strongAuthTimerInfo \in [DOMAIN strongAuthTimerInfo -> Info]
    BY TableTypes
  <2> HIDE DEF u
  <2> QED
    BY <1>1, <2>1, <2>2, <2>4, <2>5
<1>2. ASSUME strongAuthTimerInfo' = strongAuthTimerInfo
      PROVE  strongAuthTimerInfo' \in PartialFcn(Users, Info)
  BY <1>2, TableTypes
<1>3. thread[s].period \in Periods
  BY DEF TypeOK, ThreadsOK
<1>4. CASE SetCredChangeTriggerPeriod(s)
  <2>1. strongAuthTimerInfo' \in PartialFcn(Users, Info) /\ strongAuthStateInfo' = strongAuthStateInfo
    BY <1>1, <1>2, <1>3, <1>4 DEF SetCredChangeTriggerPeriod, HasTimer
  <2>2. TablesOK'
    BY <2>1 DEF TypeOK, TablesOK, Info
  <2> QED
    BY <1>1, <1>3, <1>4, <2>2 DEF SetCredChangeTriggerPeriod, HasTimer
<1>5. CASE GetStrongAuthTriggerPeriod(s)
  <2> DEFINE over == HasTimer(u) /\ StageOver(strongAuthTimerInfo[u])
             p == NextPeriod(strongAuthTimerInfo[u].triggerPeriod)
  <2>1. over => p \in Periods
    BY TableTypes, NextPeriodType DEF HasTimer, StageOver, Info
  <2>2. \/ over /\ strongAuthTimerInfo' =
             [strongAuthTimerInfo EXCEPT ![u].triggerPeriod = p, ![u].age = 0]
        \/ strongAuthTimerInfo' = strongAuthTimerInfo
    BY <1>5 DEF GetStrongAuthTriggerPeriod
  <2>3. over => u \in DOMAIN strongAuthTimerInfo
    BY DEF HasTimer
  <2> HIDE DEF over, p
  <2>4. strongAuthTimerInfo' \in PartialFcn(Users, Info) /\ strongAuthStateInfo' = strongAuthStateInfo
    BY <1>1, <1>2, <1>5, <2>1, <2>2, <2>3 DEF GetStrongAuthTriggerPeriod
  <2>5. TablesOK'
    BY <2>4 DEF TypeOK, TablesOK, Info
  <2> QED
    BY <1>1, <2>1, <2>2, <2>3, <2>5
<1> QED
  BY <1>4, <1>5 DEF StampSection

LEMMA StampType == ASSUME TypeOK, NEW s \in Sources, StampSection(s) PROVE TypeOK'
<1>1. TablesOK'
  BY StampKeepsIds
<1>2. ClocksOK' /\ OthersOK'
  BY DEF StampSection, GetStrongAuthTriggerPeriod, SetCredChangeTriggerPeriod,
         TypeOK, ClocksOK, OthersOK, clocks, still, outer, ghosts
<1>3. thread[s].todo # <<>>
  BY DEF StampSection, GetStrongAuthTriggerPeriod, SetCredChangeTriggerPeriod, At
<1>4. Here(s) \in Users /\ Rest(s) \in Seq(Ops)
  BY <1>3, TodoTypes DEF TypeOK
<1>5. CASE SetCredChangeTriggerPeriod(s)
  <2>1. ThreadsOK'
    BY <1>3, <1>4, <1>5, PlainGotoType DEF SetCredChangeTriggerPeriod, TypeOK
  <2> QED
    BY <1>1, <1>2, <2>1 DEF TypeOK
<1>6. CASE GetStrongAuthTriggerPeriod(s)
  <2>1. ASSUME NEW p \in Periods,
               thread' = [thread EXCEPT ![s].period = p, ![s].todo = Rest(s)]
        PROVE  ThreadsOK'
    <3>1. [thread[s] EXCEPT !.period = p, !.todo = Rest(s)]
            \in [user : Users \cup {"nobody"}, flag : Flags, period : Periods,
                 id : 0..MaxTimers, todo : Seq(Ops)]
      BY <1>4 DEF TypeOK, ThreadsOK
    <3>2. thread' = [thread EXCEPT ![s] = [thread[s] EXCEPT !.period = p, !.todo = Rest(s)]]
      BY <2>1 DEF TypeOK, ThreadsOK
    <3> QED
      BY <1>3, <3>1, <3>2 DEF TypeOK, ThreadsOK
  <2> DEFINE info == strongAuthTimerInfo[Here(s)]
  <2>2. HasTimer(Here(s)) => info.triggerPeriod \in Periods
    BY TableTypes DEF HasTimer, Info
  <2>3. HasTimer(Here(s)) /\ StageOver(info) => NextPeriod(info.triggerPeriod) \in Periods
    BY <2>2, NextPeriodType DEF StageOver
  <2>4. ThreadsOK'
    BY <1>6, <2>1, <2>2, <2>3, PeriodRange DEF GetStrongAuthTriggerPeriod
  <2> QED
    BY <1>1, <1>2, <2>4 DEF TypeOK
<1> QED
  BY <1>5, <1>6 DEF StampSection

\* A section that stops or starts an existing timer.
ClockSection(s) == StopTimer(s) \/ StartTimer(s)

LEMMA ClockKeepsUsers ==
  ASSUME TypeOK, NEW s \in Sources, ClockSection(s)
  PROVE  /\ ClocksOK'
         /\ DOMAIN timers' = DOMAIN timers
         /\ \A i \in DOMAIN timers : timers'[i].user = timers[i].user
<1> DEFINE j == thread[s].id
<1>1. ASSUME NEW left \in 0..Off, j \in DOMAIN timers, timers' = [timers EXCEPT ![j].left = left]
      PROVE  /\ timers' \in PartialFcn(TimerIds, Clock)
             /\ DOMAIN timers' = DOMAIN timers
             /\ \A i \in DOMAIN timers : timers'[i].user = timers[i].user
  <2> DEFINE r == [timers[j] EXCEPT !.left = left]
  <2>1. r \in Clock /\ r.user = timers[j].user
    BY <1>1, TableTypes DEF Clock
  <2>2. timers' = [timers EXCEPT ![j] = r]
    BY <1>1, TableTypes DEF Clock
  <2> HIDE DEF r
  <2>3. timers \in PartialFcn(TimerIds, Clock)
    BY TableTypes
  <2>4. timers' \in PartialFcn(TimerIds, Clock)
    BY <2>1, <2>2, <2>3, UpdatePartial
  <2>5. timers \in [DOMAIN timers -> Clock]
    BY TableTypes
  <2> HIDE DEF j
  <2> QED
    BY <1>1, <2>1, <2>2, <2>4, <2>5
<1>2. timers' = timers => timers' \in PartialFcn(TimerIds, Clock)
  BY TableTypes
<1>3. Off \in 0..Off /\ thread[s].period \in 0..Off
  <2>1. thread[s].period \in Periods
    BY DEF TypeOK, ThreadsOK
  <2> QED
    BY <2>1, PeriodRange
<1>4. \/ timers' = timers
      \/ j \in DOMAIN timers /\ \E left \in 0..Off : timers' = [timers EXCEPT ![j].left = left]
  <2>1. CASE StopTimer(s)
    BY <1>3, <2>1 DEF StopTimer
  <2>2. CASE StartTimer(s)
    BY <1>3, <2>2 DEF StartTimer
  <2> QED
    BY <2>1, <2>2 DEF ClockSection
<1>5. created' = created
  BY DEF ClockSection, StopTimer, StartTimer
<1>6. timers' \in PartialFcn(TimerIds, Clock)
  BY <1>1, <1>2, <1>4
<1>7. ClocksOK'
  BY <1>5, <1>6 DEF TypeOK, ClocksOK, Clock
<1> QED
  BY <1>1, <1>4, <1>7

LEMMA ClockType == ASSUME TypeOK, NEW s \in Sources, ClockSection(s) PROVE TypeOK'
<1>1. TablesOK' /\ OthersOK'
  BY DEF ClockSection, StopTimer, StartTimer, TypeOK, TablesOK, OthersOK, tables, still, outer,
         ghosts
<1>2. thread[s].todo # <<>> /\ Goto(s, Rest(s))
  BY DEF ClockSection, StopTimer, StartTimer, At
<1>3. ThreadsOK'
  BY <1>2, TodoTypes, PlainGotoType DEF TypeOK
<1> QED
  BY <1>1, <1>3, ClockKeepsUsers DEF TypeOK

\* A section that creates or destroys a timer.
TimerSection(s) == StartStrongAuthTimer(s) \/ DestroyStrongAuthTimer(s)

LEMMA TimerSectionType == ASSUME TypeOK, NEW s \in Sources, TimerSection(s) PROVE TypeOK'
<1> DEFINE u == Here(s)
<1>1. thread[s].todo # <<>> /\ Goto(s, Rest(s))
  BY DEF TimerSection, StartStrongAuthTimer, DestroyStrongAuthTimer, At
<1>2. u \in Users /\ Rest(s) \in Seq(Ops) /\ thread[s].period \in Periods
  BY <1>1, TodoTypes DEF TypeOK, ThreadsOK
<1>3. ThreadsOK'
  BY <1>1, <1>2, PlainGotoType DEF TypeOK
<1>4. OthersOK' /\ strongAuthStateInfo' = strongAuthStateInfo
  BY DEF TimerSection, StartStrongAuthTimer, DestroyStrongAuthTimer, TypeOK, OthersOK, still,
         outer, ghosts
<1>5. strongAuthTimerInfo \in PartialFcn(Users, Info) /\ timers \in PartialFcn(TimerIds, Clock)
  BY TableTypes
<1>6. ASSUME strongAuthTimerInfo' \in PartialFcn(Users, Info),
             timers' \in PartialFcn(TimerIds, Clock), created' \in 0..MaxTimers
      PROVE  TypeOK'
  BY <1>3, <1>4, <1>6 DEF TypeOK, TablesOK, ClocksOK, Info, Clock
<1>7. created \in 0..MaxTimers
  BY DEF TypeOK, ClocksOK
<1>8. CASE StartStrongAuthTimer(s)
  <2>1. CASE TimerExists(u)
    BY <1>5, <1>6, <1>7, <1>8, <2>1 DEF StartStrongAuthTimer, clocks
  <2>2. CASE ~TimerExists(u)
    <3> DEFINE c == created + 1
               info == [timerId |-> c, triggerPeriod |-> thread[s].period, age |-> 0]
               clock == [user |-> u, left |-> thread[s].period]
    <3>1. c \in TimerIds /\ created' = c /\ c \in 0..MaxTimers
      BY <1>7, <1>8, <2>2, BoundAssumption DEF StartStrongAuthTimer, TimerIds
    <3>2. info \in Info /\ clock \in Clock
      BY <1>2, <3>1, NewTimer
    <3>3. /\ timers' = Put(timers, c, clock)
          /\ strongAuthTimerInfo' = Put(strongAuthTimerInfo, u, info)
      BY <1>8, <2>2, <3>1 DEF StartStrongAuthTimer
    <3> HIDE DEF c, info, clock
    <3> QED
      BY <1>2, <1>5, <1>6, <3>1, <3>2, <3>3, PutPartial
  <2> QED
    BY <2>1, <2>2
<1>9. CASE DestroyStrongAuthTimer(s)
  <2>1. CASE HasTimer(u)
    BY <1>5, <1>6, <1>7, <1>9, <2>1, DropPartial DEF DestroyStrongAuthTimer
  <2>2. CASE ~HasTimer(u)
    BY <1>5, <1>6, <1>7, <1>9, <2>2 DEF DestroyStrongAuthTimer
  <2> QED
    BY <2>1, <2>2
<1> QED
  BY <1>8, <1>9 DEF TimerSection

LEMMA SectionKinds ==
  ASSUME NEW s, Section(s)
  PROVE  Passing(s) \/ StateSection(s) \/ StampSection(s) \/ ClockSection(s) \/ TimerSection(s)
BY DEF Section, Passing, StateSection, StampSection, ClockSection, TimerSection

LEMMA NextKinds ==
  ASSUME Next
  PROVE  \/ Arrival \/ (\E i \in TimerIds : TimerFires(i)) \/ DestroyAllStrongAuthTimer \/ Tick
         \/ \E s \in Sources : Section(s)
BY DEF Next, Arrival

LEMMA NextType == TypeOK /\ [Next]_vars => TypeOK'
<1> SUFFICES ASSUME TypeOK, [Next]_vars PROVE TypeOK'
  OBVIOUS
<1>1. CASE Arrival
  BY <1>1, ArrivalType
<1>2. CASE (\E i \in TimerIds : TimerFires(i)) \/ DestroyAllStrongAuthTimer \/ Tick
  BY <1>2, TimerType
<1>3. ASSUME NEW s \in Sources, Section(s) PROVE TypeOK'
  BY <1>3, SectionKinds, PassingType, StateSectionType, StampType, ClockType, TimerSectionType
<1>4. CASE UNCHANGED vars
  BY <1>4 DEF vars, tables, clocks, outer, ghosts, TypeOK, TablesOK, ClocksOK, ThreadsOK, OthersOK
<1> QED
  BY <1>1, <1>2, <1>3, <1>4, NextKinds

\* Callbacks that interleave freely only ever store known flags and periods
\* and ids of timers that were created.
THEOREM TypeCorrect == Spec => []TypeOK
BY InitType, NextType, PTL DEF Spec

-----------------------------------------------------------------------------
(* AFTER_BOOT is sticky.                                                   *)

LEMMA SticksInSection ==
  ASSUME TypeOK, NEW s \in Sources, StateSection(s), NEW u \in DOMAIN strongAuthStateInfo,
         strongAuthStateInfo[u] = "AFTER_BOOT", u \in DOMAIN strongAuthStateInfo'
  PROVE  strongAuthStateInfo'[u] \in {"AFTER_BOOT", "NONE"}
<1>1. CASE SetStrongAuthStat(s)
  <2>1. CASE ~Known(Here(s))
    BY <1>1, <2>1 DEF SetStrongAuthStat, Known, Put
  <2>2. CASE Known(Here(s)) /\ Accepts(strongAuthStateInfo[Here(s)], thread[s].flag)
    BY <1>1, <2>2 DEF SetStrongAuthStat, Known, Accepts
  <2>3. CASE Known(Here(s)) /\ ~Accepts(strongAuthStateInfo[Here(s)], thread[s].flag)
    BY <1>1, <2>3 DEF SetStrongAuthStat
  <2> QED
    BY <2>1, <2>2, <2>3
<1>2. CASE InitStrongAuthStat(s)
  BY <1>2 DEF InitStrongAuthStat, Known, Put
<1>3. CASE DestroyStrongAuthStateInfo(s)
  BY <1>3 DEF DestroyStrongAuthStateInfo, Drop
<1> QED
  BY <1>1, <1>2, <1>3 DEF StateSection

LEMMA StateWriters ==
  ASSUME TypeOK, [Next]_vars
  PROVE  strongAuthStateInfo' = strongAuthStateInfo \/ \E s \in Sources : StateSection(s)
<1>1. CASE Arrival
  BY <1>1, ArrivalType DEF tables
<1>2. CASE (\E i \in TimerIds : TimerFires(i)) \/ DestroyAllStrongAuthTimer \/ Tick
  BY <1>2 DEF TimerFires, DestroyAllStrongAuthTimer, Tick, tables
<1>3. ASSUME NEW s \in Sources, Section(s), ~StateSection(s)
      PROVE  strongAuthStateInfo' = strongAuthStateInfo
  BY <1>3, SectionKinds, PassingType DEF StampSection, ClockSection, TimerSection, tables,
     GetStrongAuthTriggerPeriod, SetCredChangeTriggerPeriod, StopTimer, StartTimer,
     StartStrongAuthTimer, DestroyStrongAuthTimer
<1>4. CASE UNCHANGED vars
  BY <1>4 DEF vars, tables
<1> QED
  BY <1>1, <1>2, <1>3, <1>4, NextKinds

\* SetStrongAuthStat: whatever timeouts and requests race with it, the demand
\* of a restart gives way to NONE or to the deletion of the user only.
THEOREM BootDemandKept == Spec => AfterBootSticky
<1>1. TypeOK /\ [Next]_vars
        => [\A u \in DOMAIN strongAuthStateInfo :
              strongAuthStateInfo[u] = "AFTER_BOOT" /\ u \in DOMAIN strongAuthStateInfo'
                => strongAuthStateInfo'[u] \in {"AFTER_BOOT", "NONE"}]_vars
  BY StateWriters, SticksInSection
<1> QED
  BY <1>1, TypeCorrect, PTL DEF Spec, AfterBootSticky

-----------------------------------------------------------------------------
(* The table of timers and the time service agree.                         *)

\* A step changes what a callback takes for its timer by forgetting it or
\* by looking it up.
LEMMA IdStep ==
  ASSUME TypeOK, [Next]_vars, NEW r \in Sources
  PROVE  \/ thread'[r].id \in {thread[r].id, 0}
         \/ \E u \in DOMAIN strongAuthTimerInfo : thread'[r].id = strongAuthTimerInfo[u].timerId
<1> DEFINE Fine == thread'[r].id \in {thread[r].id, 0}
<1>1. ASSUME NEW s, NEW u, NEW flag, NEW p, NEW todo, Begin(s, u, flag, p, todo) PROVE Fine
  BY <1>1 DEF Begin, TypeOK, ThreadsOK
<1>2. ASSUME NEW s, NEW todo, Goto(s, todo) PROVE Fine
  BY <1>2 DEF Goto, TypeOK, ThreadsOK
<1>3. ASSUME thread' = thread PROVE Fine
  BY <1>3
<1>4. CASE Arrival
  BY <1>1, <1>3, <1>4 DEF Arrival, GetCredInfo, OnNotifyAuthSuccessEvent, CredChanged,
     AccountUnlocked, OnCredentialInfo, CredDeleted, RequestStrongAuth
<1>5. CASE (\E i \in TimerIds : TimerFires(i)) \/ DestroyAllStrongAuthTimer \/ Tick
  BY <1>1, <1>3, <1>5 DEF TimerFires, DestroyAllStrongAuthTimer, Tick
<1>6. ASSUME NEW s \in Sources, Section(s),
             ~ResetStrongAuthTimer(s), ~GetStrongAuthTriggerPeriod(s), ~GetStrongAuthTimeTrigger(s)
      PROVE  Fine
  BY <1>2, <1>6 DEF Section, SetStrongAuthStat, NotifyStrongAuthChange, InitStrongAuthStat,
     StopTimer, StartTimer, SetCredChangeTriggerPeriod, StartStrongAuthTimer,
     IsUserExitInStrongAuthInfo, DestroyStrongAuthStateInfo, DestroyStrongAuthTimer
<1>7. ASSUME NEW s \in Sources, GetStrongAuthTriggerPeriod(s) PROVE Fine
  <2>1. \E p : thread' = [thread EXCEPT ![s].period = p, ![s].todo = Rest(s)]
    BY <1>7 DEF GetStrongAuthTriggerPeriod
  <2> QED
    BY <2>1 DEF TypeOK, ThreadsOK
<1>8. ASSUME NEW s \in Sources, GetStrongAuthTimeTrigger(s) PROVE Fine
  <2>1. \E flag : thread' = [thread EXCEPT ![s].flag = flag, ![s].todo = Rest(s)]
    BY <1>8 DEF GetStrongAuthTimeTrigger
  <2> QED
    BY <2>1 DEF TypeOK, ThreadsOK
<1>9. ASSUME NEW s \in Sources, ResetStrongAuthTimer(s)
      PROVE  \/ Fine
             \/ \E u \in DOMAIN strongAuthTimerInfo :
                  thread'[r].id = strongAuthTimerInfo[u].timerId
  <2>1. CASE HasTimer(Here(s))
    <3>1. \E todo : thread' = [thread EXCEPT ![s].id = strongAuthTimerInfo[Here(s)].timerId,
                                             ![s].todo = todo]
      BY <1>9, <2>1 DEF ResetStrongAuthTimer
    <3>2. thread'[r].id \in {thread[r].id, strongAuthTimerInfo[Here(s)].timerId}
      BY <3>1 DEF TypeOK, ThreadsOK
    <3> QED
      BY <2>1, <3>2 DEF HasTimer
  <2>2. CASE ~HasTimer(Here(s))
    BY <1>2, <1>9, <2>2 DEF ResetStrongAuthTimer
  <2> QED
    BY <2>1, <2>2
<1>10. CASE UNCHANGED vars
  BY <1>3, <1>10 DEF vars
<1> QED
  BY <1>4, <1>5, <1>6, <1>7, <1>8, <1>9, <1>10, NextKinds

LEMMA NoTimersExact ==
  ASSUME strongAuthTimerInfo = [u \in {} |-> 0], timers = [i \in {} |-> 0]
  PROVE  TimerTableExact
BY DEF TimerTableExact

LEMMA InitTable == Init => TableInv
<1>1. ASSUME Init PROVE TimerTableExact
  BY <1>1, NoTimersExact DEF Init
<1>2. ASSUME Init PROVE FreshIds
  BY <1>2 DEF Init, FreshIds, NoThread
<1> QED
  BY <1>1, <1>2, InitType DEF TableInv

\* What matters for the two tables is which ids they hold and for whom.
LEMMA SameIds ==
  ASSUME TimerTableExact,
         DOMAIN timers' = DOMAIN timers,
         \A i \in DOMAIN timers : timers'[i].user = timers[i].user,
         DOMAIN strongAuthTimerInfo' = DOMAIN strongAuthTimerInfo,
         \A u \in DOMAIN strongAuthTimerInfo :
           strongAuthTimerInfo'[u].timerId = strongAuthTimerInfo[u].timerId
  PROVE  TimerTableExact'
BY DEF TimerTableExact

LEMMA CreateExact ==
  ASSUME TableInv, NEW s \in Sources, StartStrongAuthTimer(s)
  PROVE  /\ TimerTableExact' /\ created' \in {created, created + 1}
         /\ \A i \in DOMAIN timers' : i \in DOMAIN timers \/ i = created'
<1> DEFINE u == Here(s)
<1>1. CASE HasTimer(u)
  BY <1>1 DEF StartStrongAuthTimer, TimerExists, clocks, TableInv, TimerTableExact
<1>2. CASE ~HasTimer(u)
  <2> DEFINE c == created + 1
  <2>1. /\ created' = c
        /\ timers' = Put(timers, c, [user |-> u, left |-> thread[s].period])
        /\ strongAuthTimerInfo' =
             Put(strongAuthTimerInfo, u,
                 [timerId |-> c, triggerPeriod |-> thread[s].period, age |-> 0])
    BY <1>2 DEF StartStrongAuthTimer, TimerExists
  <2>2. c \notin DOMAIN timers
    BY DEF TableInv, FreshIds, TypeOK, ClocksOK
  <2>3. u \notin DOMAIN strongAuthTimerInfo
    BY <1>2 DEF HasTimer
  <2>4. /\ DOMAIN timers' = DOMAIN timers \cup {c}
        /\ timers'[c].user = u
        /\ \A i \in DOMAIN timers : timers'[i] = timers[i]
    BY <2>1, <2>2 DEF Put
  <2>5. /\ DOMAIN strongAuthTimerInfo' = DOMAIN strongAuthTimerInfo \cup {u}
        /\ strongAuthTimerInfo'[u].timerId = c
        /\ \A v \in DOMAIN strongAuthTimerInfo : strongAuthTimerInfo'[v] = strongAuthTimerInfo[v]
    BY <2>1, <2>3 DEF Put
  <2> HIDE DEF u, c
  <2>6. TimerTableExact'
    BY <2>4, <2>5 DEF TimerTableExact, TableInv
  <2> QED
    BY <2>1, <2>4, <2>6 DEF c
<1> QED
  BY <1>1, <1>2

LEMMA DestroyExact ==
  ASSUME TableInv, NEW s \in Sources, DestroyStrongAuthTimer(s)
  PROVE  TimerTableExact' /\ created' = created /\ DOMAIN timers' \subseteq DOMAIN timers
<1> DEFINE u == Here(s)
<1>1. CASE HasTimer(u)
  <2> DEFINE i == strongAuthTimerInfo[u].timerId
  <2>1. timers' = Drop(timers, i) /\ strongAuthTimerInfo' = Drop(strongAuthTimerInfo, u)
    BY <1>1 DEF DestroyStrongAuthTimer
  <2>2. /\ DOMAIN timers' = DOMAIN timers \ {i}
        /\ \A j \in DOMAIN timers' : timers'[j] = timers[j]
    BY <2>1 DEF Drop
  <2>3. /\ DOMAIN strongAuthTimerInfo' = DOMAIN strongAuthTimerInfo \ {u}
        /\ \A v \in DOMAIN strongAuthTimerInfo' : strongAuthTimerInfo'[v] = strongAuthTimerInfo[v]
    BY <2>1 DEF Drop
  <2>4. \A v \in DOMAIN strongAuthTimerInfo : strongAuthTimerInfo[v].timerId = i => v = u
    BY <1>1 DEF TableInv, TimerTableExact, HasTimer
  <2> HIDE DEF u
  <2>5. TimerTableExact'
    BY <1>1, <2>2, <2>3, <2>4 DEF TimerTableExact, TableInv, HasTimer
  <2> QED
    BY <2>2, <2>5 DEF DestroyStrongAuthTimer
<1>2. CASE ~HasTimer(u)
  BY <1>2 DEF DestroyStrongAuthTimer, TableInv, TimerTableExact
<1> QED
  BY <1>1, <1>2

LEMMA TableStep ==
  ASSUME TableInv, [Next]_vars
  PROVE  /\ TimerTableExact' /\ created' \in {created, created + 1}
         /\ \A i \in DOMAIN timers' : i \in DOMAIN timers \/ i = created'
<1>1. ASSUME UNCHANGED <<tables, clocks>>
      PROVE  TimerTableExact' /\ created' = created /\ DOMAIN timers' = DOMAIN timers
  BY <1>1 DEF tables, clocks, TableInv, TimerTableExact
<1>2. TypeOK
  BY DEF TableInv
<1>3. CASE Arrival \/ UNCHANGED vars
  BY <1>1, <1>2, <1>3, ArrivalType DEF vars
<1>4. ASSUME NEW i \in TimerIds, TimerFires(i)
      PROVE  TimerTableExact' /\ created' = created /\ DOMAIN timers' = DOMAIN timers
  <2>1. \A j \in DOMAIN timers : timers'[j].user = timers[j].user
    BY <1>2, <1>4, TableTypes DEF TimerFires, Clock
  <2> QED
    BY <1>4, <2>1, SameIds DEF TimerFires, TableInv, tables
<1>5. CASE DestroyAllStrongAuthTimer
  <2>1. TimerTableExact'
    BY <1>5 DEF DestroyAllStrongAuthTimer, TimerTableExact
  <2> QED
    BY <1>5, <2>1 DEF DestroyAllStrongAuthTimer
<1>6. CASE Tick
  <2>1. DOMAIN timers' = DOMAIN timers /\ \A j \in DOMAIN timers : timers'[j].user = timers[j].user
    BY <1>2, <1>6, TableTypes DEF Tick, Clock
  <2>2. /\ DOMAIN strongAuthTimerInfo' = DOMAIN strongAuthTimerInfo
        /\ \A u \in DOMAIN strongAuthTimerInfo :
             strongAuthTimerInfo'[u].timerId = strongAuthTimerInfo[u].timerId
    BY <1>2, <1>6, TableTypes DEF Tick, Info
  <2> QED
    BY <1>6, <2>1, <2>2, SameIds DEF Tick, TableInv
<1>7. ASSUME NEW s \in Sources, Passing(s) \/ StateSection(s)
      PROVE  UNCHANGED <<timers, created, strongAuthTimerInfo>>
  BY <1>2, <1>7, PassingType DEF StateSection, SetStrongAuthStat, InitStrongAuthStat,
     DestroyStrongAuthStateInfo, tables, clocks
<1>8. ASSUME NEW s \in Sources, StampSection(s)
      PROVE  TimerTableExact' /\ UNCHANGED clocks
  <2>1. UNCHANGED clocks
    BY <1>8 DEF StampSection, GetStrongAuthTriggerPeriod, SetCredChangeTriggerPeriod
  <2> QED
    BY <1>2, <1>8, <2>1, StampKeepsIds, SameIds DEF TableInv, clocks
<1>9. ASSUME NEW s \in Sources, ClockSection(s)
      PROVE  TimerTableExact' /\ created' = created /\ DOMAIN timers' = DOMAIN timers
  <2>1. UNCHANGED <<tables, created>>
    BY <1>9 DEF ClockSection, StopTimer, StartTimer
  <2> QED
    BY <1>2, <1>9, <2>1, ClockKeepsUsers, SameIds DEF TableInv, tables
<1>10. ASSUME NEW s \in Sources, Section(s)
       PROVE  /\ TimerTableExact' /\ created' \in {created, created + 1}
              /\ \A i \in DOMAIN timers' : i \in DOMAIN timers \/ i = created'
  <2>1. CASE Passing(s) \/ StateSection(s)
    BY <1>7, <2>1 DEF TableInv, TimerTableExact
  <2>2. CASE StampSection(s)
    BY <1>8, <2>2 DEF clocks
  <2>3. CASE ClockSection(s)
    BY <1>9, <2>3
  <2>4. CASE TimerSection(s)
    BY <2>4, CreateExact, DestroyExact DEF TimerSection
  <2> QED
    BY <1>10, <2>1, <2>2, <2>3, <2>4, SectionKinds
<1> QED
  BY <1>3, <1>4, <1>5, <1>6, <1>10, NextKinds

LEMMA NextTable == TableInv /\ [Next]_vars => TableInv'
<1> SUFFICES ASSUME TableInv, [Next]_vars PROVE TableInv'
  OBVIOUS
<1>1. TypeOK'
  BY NextType DEF TableInv
<1>2. created \in Nat /\ created' \in Nat /\ created <= created'
  BY <1>1, TableStep, BoundAssumption DEF TableInv, TypeOK, ClocksOK
<1>3. DOMAIN timers' \in SUBSET Nat
  BY <1>1 DEF TypeOK, ClocksOK, PartialFcn, TimerIds
<1>4. \A i \in DOMAIN timers' : i <= created'
  BY <1>2, <1>3, TableStep DEF TableInv, FreshIds
<1>5. ASSUME NEW r \in Sources PROVE thread'[r].id <= created'
  <2>1. thread[r].id \in Nat /\ thread[r].id <= created
    BY BoundAssumption DEF TableInv, FreshIds, TypeOK, ThreadsOK
  <2>2. \A u \in DOMAIN strongAuthTimerInfo :
          /\ strongAuthTimerInfo[u].timerId \in DOMAIN timers
          /\ strongAuthTimerInfo[u].timerId <= created
    BY DEF TableInv, TimerTableExact, FreshIds
  <2>3. \A u \in DOMAIN strongAuthTimerInfo : strongAuthTimerInfo[u].timerId \in Nat
    BY TableTypes DEF TableInv, Info, TimerIds
  <2> QED
    BY <1>2, <2>1, <2>2, <2>3, IdStep DEF TableInv
<1> QED
  BY <1>1, <1>4, <1>5, TableStep DEF TableInv, FreshIds

\* However StartStrongAuthTimer, ResetStrongAuthTimer and the two ways of
\* destroying timers interleave, the service leaks no timer and no entry of
\* strongAuthTimerInfo points to a timer that is gone or another user's.
THEOREM NoTimerLeaks == Spec => []TimerTableExact
<1>1. TableInv => TimerTableExact
  BY DEF TableInv
<1> QED
  BY InitTable, NextTable, <1>1, PTL DEF Spec

-----------------------------------------------------------------------------
(* No timer is left stopped.                                               *)

NoStop(todo) == \A k \in 1..Len(todo) : todo[k] # "stop"

\* What a step does to one callback.
Begins(r) == thread[r].todo = <<>> /\ thread'[r].id = 0 /\ NoStop(thread'[r].todo)

Proceeds(r) ==
  /\ Section(r) /\ thread[r].todo # <<>> /\ thread'[r].user = thread[r].user
  /\ \/ /\ thread'[r].id = thread[r].id
        /\ thread'[r].todo \in {Rest(r), <<"notify">> \o Rest(r), <<"start">> \o Rest(r), <<>>}
     \/ /\ HasTimer(Here(r)) /\ thread'[r].id = strongAuthTimerInfo[Here(r)].timerId
        /\ thread'[r].todo = ReArm \o Rest(r)

LEMMA NoStopAtFirst ==
  /\ NoStop(<<"init", "start">>) /\ NoStop(<<"init">>) /\ NoStop(<<"set", "trigger", "reset">>)
  /\ NoStop(<<"exists", "reset">>) /\ NoStop(<<"exists", "erase", "destroy">>)
  /\ NoStop(<<"exists", "set", "destroy">>) /\ NoStop(<<"set">>) /\ NoStop(<<"notify">>)
  /\ NoStop(<<"reason", "set">>)
BY DEF NoStop

LEMMA BeginStep ==
  ASSUME ThreadsOK, NEW s \in Sources, NEW u, NEW flag, NEW p, NEW todo, NoStop(todo),
         Begin(s, u, flag, p, todo), NEW r \in Sources
  PROVE  thread'[r] = thread[r] \/ Begins(r)
<1>1. thread'[r] = IF r = s THEN [user |-> u, flag |-> flag, period |-> p, id |-> 0, todo |-> todo]
                   ELSE thread[r]
  BY DEF Begin, ThreadsOK
<1> QED
  BY <1>1 DEF Begin, Begins

LEMMA ArrivalStep ==
  ASSUME TypeOK, Arrival \/ (\E i \in TimerIds : TimerFires(i)), NEW r \in Sources
  PROVE  thread'[r] = thread[r] \/ Begins(r)
<1>1. ThreadsOK
  BY DEF TypeOK
<1>2. "auth" \in Sources /\ "cred" \in Sources /\ "timer" \in Sources /\ "info" \in Sources
      /\ "request" \in Sources /\ "account" \in Sources
  BY DEF Sources
<1>3. ASSUME NEW u, OnNotifyAuthSuccessEvent(u) \/ CredChanged(u) \/ AccountUnlocked(u)
      PROVE  thread'[r] = thread[r] \/ Begins(r)
  BY <1>1, <1>2, <1>3, BeginStep, NoStopAtFirst
     DEF OnNotifyAuthSuccessEvent, CredChanged, AccountUnlocked
<1>4. ASSUME NEW u, NEW b \in BOOLEAN, OnCredentialInfo(u, b)
      PROVE  thread'[r] = thread[r] \/ Begins(r)
  <2>1. NoStop(IF pin[u] \/ b THEN <<"init", "start">> ELSE <<"init">>)
    BY NoStopAtFirst
  <2> QED
    BY <1>1, <1>2, <1>4, <2>1, BeginStep DEF OnCredentialInfo
<1>5. ASSUME NEW u, NEW b \in BOOLEAN, CredDeleted(u, b)
      PROVE  thread'[r] = thread[r] \/ Begins(r)
  <2>1. NoStop(<<"exists", IF b THEN "erase" ELSE "set", "destroy">>)
    BY NoStopAtFirst
  <2> QED
    BY <1>1, <1>2, <1>5, <2>1, BeginStep DEF CredDeleted
<1>6. ASSUME NEW u, NEW flag, RequestStrongAuth(u, flag)
      PROVE  thread'[r] = thread[r] \/ Begins(r)
  BY <1>1, <1>2, <1>6, BeginStep, NoStopAtFirst DEF RequestStrongAuth
<1>7. ASSUME NEW i, TimerFires(i) PROVE thread'[r] = thread[r] \/ Begins(r)
  BY <1>1, <1>2, <1>7, BeginStep, NoStopAtFirst DEF TimerFires
<1>8. ASSUME NEW u, GetCredInfo(u) PROVE thread'[r] = thread[r]
  BY <1>8 DEF GetCredInfo
<1> QED
  BY <1>3, <1>4, <1>5, <1>6, <1>7, <1>8 DEF Arrival

LEMMA SectionStep ==
  ASSUME TypeOK, NEW s \in Sources, Section(s), NEW r \in Sources
  PROVE  thread'[r] = thread[r] \/ (r = s /\ Proceeds(s))
<1>1. ThreadsOK
  BY DEF TypeOK
<1>2. thread[s].todo # <<>>
  BY DEF Section, SetStrongAuthStat, NotifyStrongAuthChange, InitStrongAuthStat,
     GetStrongAuthTriggerPeriod, ResetStrongAuthTimer, StopTimer, StartTimer,
     SetCredChangeTriggerPeriod, StartStrongAuthTimer, IsUserExitInStrongAuthInfo,
     DestroyStrongAuthStateInfo, DestroyStrongAuthTimer, GetStrongAuthTimeTrigger, At
<1>3. ASSUME NEW todo \in {Rest(s), <<"notify">> \o Rest(s), <<"start">> \o Rest(s), <<>>},
             Goto(s, todo)
      PROVE  thread'[r] = thread[r] \/ (r = s /\ Proceeds(s))
  <2>1. thread'[r] = IF r = s THEN [thread[s] EXCEPT !.todo = todo] ELSE thread[r]
    BY <1>1, <1>3 DEF Goto, ThreadsOK
  <2>2. r = s => /\ thread'[s].todo = todo /\ thread'[s].user = thread[s].user
                 /\ thread'[s].id = thread[s].id
    BY <1>1, <2>1 DEF ThreadsOK
  <2>3. r = s => thread'[s].todo \in {Rest(s), <<"notify">> \o Rest(s), <<"start">> \o Rest(s), <<>>}
    BY <1>3, <2>2, Zenon
  <2>4. r # s => thread'[r] = thread[r]
    BY <2>1
  <2>5. r = s => Proceeds(s)
    BY <1>2, <2>2, <2>3, Zenon DEF Proceeds
  <2> QED
    BY <2>4, <2>5
<1>4. CASE ~ResetStrongAuthTimer(s) /\ ~GetStrongAuthTriggerPeriod(s) /\ ~GetStrongAuthTimeTrigger(s)
  BY <1>3, <1>4 DEF Section, SetStrongAuthStat, NotifyStrongAuthChange, InitStrongAuthStat,
     StopTimer, StartTimer, SetCredChangeTriggerPeriod, StartStrongAuthTimer,
     IsUserExitInStrongAuthInfo, DestroyStrongAuthStateInfo, DestroyStrongAuthTimer
<1>5. CASE GetStrongAuthTriggerPeriod(s) \/ GetStrongAuthTimeTrigger(s)
  <2>1. ASSUME NEW x, \/ thread' = [thread EXCEPT ![s].period = x, ![s].todo = Rest(s)]
                      \/ thread' = [thread EXCEPT ![s].flag = x, ![s].todo = Rest(s)]
        PROVE  /\ r # s => thread'[r] = thread[r]
               /\ thread'[s].todo = Rest(s) /\ thread'[s].user = thread[s].user
               /\ thread'[s].id = thread[s].id
    BY <1>1, <2>1 DEF ThreadsOK
  <2>2. CASE GetStrongAuthTriggerPeriod(s)
    <3>1. \E x : thread' = [thread EXCEPT ![s].period = x, ![s].todo = Rest(s)]
      BY <2>2 DEF GetStrongAuthTriggerPeriod
    <3> QED
      BY <1>2, <2>1, <3>1 DEF Proceeds
  <2>3. CASE GetStrongAuthTimeTrigger(s)
    <3>1. \E x : thread' = [thread EXCEPT ![s].flag = x, ![s].todo = Rest(s)]
      BY <2>3 DEF GetStrongAuthTimeTrigger
    <3> QED
      BY <1>2, <2>1, <3>1 DEF Proceeds
  <2> QED
    BY <1>5, <2>2, <2>3
<1>6. CASE ResetStrongAuthTimer(s)
  <2>1. CASE HasTimer(Here(s))
    <3> DEFINE id == strongAuthTimerInfo[Here(s)].timerId
               todo == ReArm \o Rest(s)
    <3>1. thread' = [thread EXCEPT ![s].id = id, ![s].todo = todo]
      BY <1>6, <2>1 DEF ResetStrongAuthTimer
    <3> HIDE DEF id, todo
    <3>2. /\ r # s => thread'[r] = thread[r]
          /\ thread'[s].todo = todo /\ thread'[s].user = thread[s].user /\ thread'[s].id = id
      BY <1>1, <3>1 DEF ThreadsOK
    <3> QED
      BY <1>2, <2>1, <3>2 DEF Proceeds, id, todo
  <2>2. CASE ~HasTimer(Here(s))
    BY <1>3, <1>6, <2>2 DEF ResetStrongAuthTimer
  <2> QED
    BY <2>1, <2>2
<1> QED
  BY <1>4, <1>5, <1>6

LEMMA ThreadStep ==
  ASSUME TypeOK, [Next]_vars, NEW r \in Sources
  PROVE  thread'[r] = thread[r] \/ Begins(r) \/ Proceeds(r)
<1>1. CASE DestroyAllStrongAuthTimer \/ Tick \/ UNCHANGED vars
  BY <1>1 DEF DestroyAllStrongAuthTimer, Tick, vars
<1> QED
  BY <1>1, ArrivalStep, SectionStep, NextKinds

\* The part of StopThenArm about the callback alone.
StopsOnlyBeforeArm(todo) ==
  \A k \in 1..Len(todo) : todo[k] = "stop" => k = 1 /\ Len(todo) > 1 /\ todo[2] = "arm"

LEMMA TodoStep ==
  ASSUME TypeOK, NEW r \in Sources, StopsOnlyBeforeArm(thread[r].todo), Proceeds(r)
  PROVE  StopsOnlyBeforeArm(thread'[r].todo)
<1> DEFINE todo == thread[r].todo
           rest == Rest(r)
<1>1. todo \in Seq(Ops) /\ todo # <<>>
  BY DEF TypeOK, ThreadsOK, Proceeds
<1>2. rest \in Seq(Ops) /\ Len(rest) = Len(todo) - 1 /\ \A k \in 1..Len(rest) : rest[k] = todo[k + 1]
  BY <1>1 DEF Rest
<1>3. NoStop(rest)
  <2>1. ASSUME NEW k \in 1..Len(rest) PROVE rest[k] # "stop"
    <3>1. k + 1 \in 1..Len(todo) /\ k + 1 # 1
      BY <1>1, <1>2
    <3> QED
      BY <1>2, <3>1 DEF StopsOnlyBeforeArm
  <2> QED
    BY <2>1 DEF NoStop
<1> HIDE DEF todo, rest
<1>4. ASSUME NEW op \in {"notify", "start"} PROVE NoStop(<<op>> \o rest)
  <2>1. /\ Len(<<op>> \o rest) = 1 + Len(rest)
        /\ \A k \in 1..1 + Len(rest) : (<<op>> \o rest)[k] = IF k = 1 THEN op ELSE rest[k - 1]
    BY <1>2
  <2>2. ASSUME NEW k \in 1..1 + Len(rest) PROVE (<<op>> \o rest)[k] # "stop"
    <3>1. k # 1 => k - 1 \in 1..Len(rest)
      BY <1>2
    <3> QED
      BY <1>3, <2>1, <3>1 DEF NoStop
  <2> QED
    BY <2>1, <2>2 DEF NoStop
<1>5. StopsOnlyBeforeArm(ReArm \o rest)
  <2> DEFINE t == ReArm \o rest
  <2>1. /\ Len(t) = 3 + Len(rest)
        /\ \A k \in 1..3 + Len(rest) : t[k] = IF k <= 3 THEN ReArm[k] ELSE rest[k - 3]
    BY <1>2 DEF ReArm
  <2>2. t[2] = "arm" /\ Len(t) > 1
    BY <1>2, <2>1 DEF ReArm
  <2>3. ASSUME NEW k \in 1..3 + Len(rest), t[k] = "stop" PROVE k = 1
    <3>1. k > 3 => k - 3 \in 1..Len(rest)
      BY <1>2
    <3>2. k \in {2, 3} => ReArm[k] # "stop"
      BY DEF ReArm
    <3>3. k > 3 \/ k \in {1, 2, 3}
      BY <1>2
    <3> QED
      BY <1>3, <2>1, <2>3, <3>1, <3>2, <3>3 DEF NoStop
  <2> HIDE DEF t
  <2> QED
    BY <2>1, <2>2, <2>3 DEF StopsOnlyBeforeArm, t
<1>6. \A t : NoStop(t) => StopsOnlyBeforeArm(t)
  BY DEF NoStop, StopsOnlyBeforeArm
<1>7. NoStop(<<>>)
  BY DEF NoStop
<1>8. thread'[r].todo \in {rest, <<"notify">> \o rest, <<"start">> \o rest, <<>>, ReArm \o rest}
  BY Zenon DEF Proceeds, rest
<1> QED
  BY <1>3, <1>4, <1>5, <1>6, <1>7, <1>8

\* A step gives a timer to no other user, and a new timer an id no callback has.
LEMMA TimerUsers ==
  ASSUME TableInv, [Next]_vars, NEW i \in DOMAIN timers'
  PROVE  \/ i \in DOMAIN timers /\ timers'[i].user = timers[i].user
         \/ i \notin DOMAIN timers /\ i = created + 1
<1>1. TypeOK /\ created \in Nat
  BY BoundAssumption DEF TableInv, TypeOK, ClocksOK
<1>2. CASE Arrival \/ UNCHANGED vars
  BY <1>1, <1>2, ArrivalType DEF clocks, vars
<1>3. ASSUME NEW j \in TimerIds, TimerFires(j)
      PROVE  i \in DOMAIN timers /\ timers'[i].user = timers[i].user
  BY <1>1, <1>3, TableTypes DEF TimerFires, Clock
<1>4. ~DestroyAllStrongAuthTimer
  BY DEF DestroyAllStrongAuthTimer
<1>5. CASE Tick
  BY <1>1, <1>5, TableTypes DEF Tick, Clock
<1>6. ASSUME NEW s \in Sources, Section(s)
      PROVE  \/ i \in DOMAIN timers /\ timers'[i].user = timers[i].user
             \/ i \notin DOMAIN timers /\ i = created + 1
  <2>1. CASE Passing(s) \/ StateSection(s) \/ StampSection(s)
    BY <1>1, <2>1, PassingType DEF StateSection, SetStrongAuthStat, InitStrongAuthStat,
       DestroyStrongAuthStateInfo, StampSection, GetStrongAuthTriggerPeriod,
       SetCredChangeTriggerPeriod, clocks
  <2>2. CASE ClockSection(s)
    BY <1>1, <2>2, ClockKeepsUsers
  <2>3. CASE StartStrongAuthTimer(s)
    <3>1. CASE HasTimer(Here(s))
      BY <2>3, <3>1 DEF StartStrongAuthTimer, TimerExists, clocks
    <3>2. CASE ~HasTimer(Here(s))
      <4>1. \E c : timers' = Put(timers, created + 1, c)
        BY <2>3, <3>2 DEF StartStrongAuthTimer, TimerExists
      <4>2. created + 1 \notin DOMAIN timers
        BY <1>1 DEF TableInv, FreshIds
      <4> QED
        BY <4>1, <4>2 DEF Put
    <3> QED
      BY <3>1, <3>2
  <2>4. CASE DestroyStrongAuthTimer(s)
    BY <2>4 DEF DestroyStrongAuthTimer, Drop
  <2> QED
    BY <1>6, <2>1, <2>2, <2>3, <2>4, SectionKinds DEF TimerSection
<1> QED
  BY <1>2, <1>3, <1>4, <1>5, <1>6, NextKinds

LEMMA StopThenArmStep ==
  ASSUME TableInv, [Next]_vars, NEW r \in Sources, StopThenArm(r)
  PROVE  StopThenArm(r)'
<1>1. TypeOK /\ created \in Nat /\ thread[r].id \in Nat /\ thread[r].id <= created
  BY BoundAssumption DEF TableInv, FreshIds, TypeOK, ClocksOK, ThreadsOK
<1>2. StopsOnlyBeforeArm(thread[r].todo)
  BY DEF StopThenArm, StopsOnlyBeforeArm
<1>3. StopsOnlyBeforeArm(thread'[r].todo)
  BY <1>1, <1>2, TodoStep, ThreadStep DEF Begins, NoStop, StopsOnlyBeforeArm
<1>4. DOMAIN timers' \in SUBSET TimerIds /\ DOMAIN timers \in SUBSET TimerIds
  BY <1>1, NextType, PartialDomain DEF TypeOK, ClocksOK
<1>5. ASSUME thread'[r].id \in DOMAIN timers' PROVE timers'[thread'[r].id].user = thread'[r].user
  <2>1. CASE thread'[r].id = thread[r].id /\ thread'[r].user = thread[r].user
    BY <1>1, <1>5, <2>1, TimerUsers DEF StopThenArm
  <2>2. CASE Begins(r)
    BY <1>4, <1>5, <2>2 DEF Begins, TimerIds
  <2>3. CASE /\ HasTimer(Here(r)) /\ thread'[r].id = strongAuthTimerInfo[Here(r)].timerId
             /\ thread'[r].user = thread[r].user
    <3>1. /\ thread'[r].id \in DOMAIN timers
          /\ timers[thread'[r].id].user = thread[r].user
      BY <2>3 DEF TableInv, TimerTableExact, HasTimer, Here
    <3> QED
      BY <1>5, <2>3, <3>1, TimerUsers
  <2> QED
    BY <1>1, <2>1, <2>2, <2>3, ThreadStep DEF Proceeds
<1> QED
  BY <1>3, <1>5 DEF StopThenArm, StopsOnlyBeforeArm

LEMMA WhoStops ==
  ASSUME TableInv, [Next]_vars, NEW i \in DOMAIN timers', timers'[i].left = Off
  PROVE  \/ \E s \in Sources : StopTimer(s) /\ thread[s].id = i
         \/ /\ i \in DOMAIN timers /\ timers[i].left = Off
            /\ \A s \in Sources : StartTimer(s) => thread[s].id # i
<1> DEFINE Same == i \in DOMAIN timers /\ timers[i].left = Off
<1>1. TypeOK /\ created \in Nat
  BY BoundAssumption DEF TableInv, TypeOK, ClocksOK
<1>2. Default # Off /\ \A s \in Sources : thread[s].period # Off
  BY <1>1, PeriodRange DEF TypeOK, ThreadsOK
<1>3. ASSUME ~\E s \in Sources : Section(s) PROVE Same
  <2>1. CASE Arrival \/ UNCHANGED vars
    BY <1>1, <2>1, ArrivalType DEF clocks, vars
  <2>2. ASSUME NEW j \in TimerIds, TimerFires(j) PROVE Same
    BY <1>1, <1>2, <2>2, TableTypes DEF TimerFires, Clock
  <2>3. ~DestroyAllStrongAuthTimer
    BY DEF DestroyAllStrongAuthTimer
  <2>4. CASE Tick
    <3>1. i \in DOMAIN timers /\ timers[i].left \in 0..Off
      BY <1>1, <2>4, TableTypes DEF Tick, Clock
    <3>2. timers'[i].left = IF timers[i].left = Off THEN Off ELSE timers[i].left - 1
      BY <1>1, <2>4, TableTypes DEF Tick, Clock
    <3> QED
      BY <3>1, <3>2, PeriodRange
  <2> QED
    BY <1>3, <2>1, <2>2, <2>3, <2>4, NextKinds
<1>4. ASSUME NEW s \in Sources, Section(s)
      PROVE  \/ StopTimer(s) /\ thread[s].id = i
             \/ Same /\ \A r \in Sources : StartTimer(r) => thread[r].id # i
  <2>1. CASE StartTimer(s)
    <3>1. i \in DOMAIN timers /\ (thread[s].id = i => timers'[i].left = thread[s].period)
          /\ (thread[s].id # i => timers'[i].left = timers[i].left)
      BY <1>1, <2>1, TableTypes DEF StartTimer, Clock
    <3>2. ASSUME NEW r \in Sources, StartTimer(r) PROVE thread[r].id # i
      <4>1. i \in DOMAIN timers /\ (thread[r].id = i => timers'[i].left = thread[r].period)
        BY <1>1, <3>2, TableTypes DEF StartTimer, Clock
      <4> QED
        BY <1>2, <4>1
    <3> QED
      BY <1>2, <3>1, <3>2
  <2>2. CASE StopTimer(s) /\ thread[s].id = i
    BY <2>2
  <2>3. ASSUME ~StopTimer(s) \/ thread[s].id # i, ~StartTimer(s) PROVE Same
    <3>1. CASE StopTimer(s)
      BY <1>1, <2>3, <3>1, TableTypes DEF StopTimer, Clock
    <3>2. CASE Passing(s) \/ StateSection(s) \/ StampSection(s)
      BY <1>1, <3>2, PassingType DEF StateSection, SetStrongAuthStat, InitStrongAuthStat,
         DestroyStrongAuthStateInfo, StampSection, GetStrongAuthTriggerPeriod,
         SetCredChangeTriggerPeriod, clocks
    <3>3. CASE StartStrongAuthTimer(s)
      <4>1. CASE HasTimer(Here(s))
        BY <3>3, <4>1 DEF StartStrongAuthTimer, TimerExists, clocks
      <4>2. CASE ~HasTimer(Here(s))
        <5>1. timers' = Put(timers, created + 1, [user |-> Here(s), left |-> thread[s].period])
          BY <3>3, <4>2 DEF StartStrongAuthTimer, TimerExists
        <5> QED
          BY <1>2, <5>1 DEF Put
      <4> QED
        BY <4>1, <4>2
    <3>4. CASE DestroyStrongAuthTimer(s)
      BY <3>4 DEF DestroyStrongAuthTimer, Drop
    <3> QED
      BY <1>4, <2>3, <3>1, <3>2, <3>3, <3>4, SectionKinds DEF ClockSection, TimerSection
  <2>4. ASSUME Same, NEW r \in Sources, StartTimer(r) PROVE thread[r].id # i
    BY <1>1, <1>2, <2>4, TableTypes DEF StartTimer, Clock
  <2> QED
    BY <2>1, <2>2, <2>3, <2>4
<1>5. ASSUME NEW s \in Sources, StartTimer(s) PROVE Section(s)
  BY <1>5 DEF Section
<1> QED
  BY <1>3, <1>4, <1>5

LEMMA OffStep ==
  ASSUME ArmedInv, [Next]_vars, NEW i \in DOMAIN timers', timers'[i].left = Off
  PROVE  \E s \in Sources : At(s, "arm")' /\ thread'[s].id = i
<1>1. TableInv /\ TypeOK
  BY DEF ArmedInv, TableInv
<1>2. CASE \E s \in Sources : StopTimer(s) /\ thread[s].id = i
  <2>1. PICK s \in Sources : StopTimer(s) /\ thread[s].id = i
    BY <1>2
  <2>2. thread'[s].todo = Rest(s) /\ thread'[s].id = i
    BY <1>1, <2>1 DEF StopTimer, Goto, TypeOK, ThreadsOK
  <2>3. thread[s].todo \in Seq(Ops) /\ thread[s].todo # <<>> /\ thread[s].todo[1] = "stop"
    BY <1>1, <2>1 DEF StopTimer, At, TypeOK, ThreadsOK
  <2>4. Len(thread[s].todo) > 1 /\ thread[s].todo[2] = "arm"
    BY <2>3 DEF ArmedInv, StopThenArm
  <2>5. Rest(s) # <<>> /\ Head(Rest(s)) = "arm"
    <3> DEFINE todo == thread[s].todo
    <3>1. todo \in Seq(Ops) /\ todo # <<>> /\ Len(todo) > 1 /\ todo[2] = "arm"
      BY <2>3, <2>4
    <3> HIDE DEF todo
    <3>2. Tail(todo) \in Seq(Ops) /\ Len(Tail(todo)) > 0 /\ Tail(todo)[1] = "arm"
      BY <3>1
    <3>3. Tail(todo) # <<>>
      BY <3>2
    <3>4. Head(Tail(todo)) = "arm"
      BY <3>2, <3>3
    <3> QED
      BY <3>3, <3>4 DEF Rest, todo
  <2> QED
    BY <2>2, <2>5 DEF At
<1>3. CASE /\ i \in DOMAIN timers /\ timers[i].left = Off
           /\ \A s \in Sources : StartTimer(s) => thread[s].id # i
  <2>1. PICK s \in Sources : At(s, "arm") /\ thread[s].id = i
    BY <1>3 DEF ArmedInv, OffMeansResetting
  <2>2. ~Begins(s)
    BY <2>1 DEF At, Begins
  <2>3. Section(s) => StartTimer(s)
    BY <2>1 DEF Section, SetStrongAuthStat, NotifyStrongAuthChange, InitStrongAuthStat,
       GetStrongAuthTriggerPeriod, ResetStrongAuthTimer, StopTimer,
       SetCredChangeTriggerPeriod, StartStrongAuthTimer, IsUserExitInStrongAuthInfo,
       DestroyStrongAuthStateInfo, DestroyStrongAuthTimer, GetStrongAuthTimeTrigger, At
  <2>4. thread'[s] = thread[s]
    BY <1>1, <1>3, <2>1, <2>2, <2>3, ThreadStep DEF Proceeds
  <2> QED
    BY <2>1, <2>4 DEF At
<1> QED
  BY <1>1, <1>2, <1>3, WhoStops

LEMMA InitArmed == Init => ArmedInv
<1> SUFFICES ASSUME Init PROVE ArmedInv
  OBVIOUS
<1>1. \A s \in Sources : StopThenArm(s)
  BY DEF Init, StopThenArm, NoThread
<1>2. \A i \in DOMAIN timers : OffMeansResetting(i)
  BY DEF Init
<1> QED
  BY <1>1, <1>2, InitTable DEF ArmedInv

LEMMA NextArmed == ArmedInv /\ [Next]_vars => ArmedInv'
<1> SUFFICES ASSUME ArmedInv, [Next]_vars PROVE ArmedInv'
  OBVIOUS
<1>1. TableInv'
  BY NextTable DEF ArmedInv
<1>2. ASSUME NEW s \in Sources PROVE StopThenArm(s)'
  BY StopThenArmStep DEF ArmedInv
<1>3. ASSUME NEW i \in DOMAIN timers' PROVE OffMeansResetting(i)'
  BY OffStep DEF OffMeansResetting
<1> QED
  BY <1>1, <1>2, <1>3 DEF ArmedInv

LEMMA ArmedAtRest == ArmedInv => QuietMeansArmed
<1> SUFFICES ASSUME ArmedInv, NEW u \in DOMAIN strongAuthTimerInfo, Quiet(u)
             PROVE  timers[strongAuthTimerInfo[u].timerId].left # Off
  BY DEF QuietMeansArmed
<1> DEFINE i == strongAuthTimerInfo[u].timerId
<1>1. i \in DOMAIN timers /\ timers[i].user = u
  BY DEF ArmedInv, TableInv, TimerTableExact
<1> SUFFICES ASSUME timers[i].left = Off PROVE FALSE
  OBVIOUS
<1>2. PICK s \in Sources : At(s, "arm") /\ thread[s].id = i
  BY <1>1 DEF ArmedInv, OffMeansResetting
<1>3. thread[s].user = u
  BY <1>1, <1>2 DEF ArmedInv, StopThenArm
<1> QED
  BY <1>2, <1>3 DEF Quiet, At

\* ResetStrongAuthTimer stops and restarts its timer outside the lock; no
\* interleaving with the other callbacks leaves a user's timer stopped once
\* the user's callbacks are done, so the demand for the PIN is never lost.
THEOREM ArmedWhenQuiet == Spec => []QuietMeansArmed
<1> QED
  BY InitArmed, NextArmed, ArmedAtRest, PTL DEF Spec

-----------------------------------------------------------------------------
(* What may be left of a callback, by name.                                *)

SetTR     == <<"set", "trigger", "reset">>
NotifyTR  == <<"notify", "trigger", "reset">>
TriggerR  == <<"trigger", "reset">>
ResetOnly == <<"reset">>
ArmStamp  == <<"arm", "stamp">>
StampOnly == <<"stamp">>
StartOnly == <<"start">>
ExistsR   == <<"exists", "reset">>
ExistsED  == <<"exists", "erase", "destroy">>
EraseD    == <<"erase", "destroy">>
ExistsSD  == <<"exists", "set", "destroy">>
SetD      == <<"set", "destroy">>
NotifyD   == <<"notify", "destroy">>
DestroyOnly == <<"destroy">>
ReasonS   == <<"reason", "set">>
SetOnly   == <<"set">>
NotifyOnly == <<"notify">>
InitS     == <<"init", "start">>
InitOnly  == <<"init">>

LEMMA TodoNames ==
  /\ Todos = {<<>>, SetTR, NotifyTR, TriggerR, ResetOnly, ReArm, ArmStamp, StampOnly, StartOnly,
              ExistsR, ExistsED, EraseD, ExistsSD, SetD, NotifyD, DestroyOnly,
              ReasonS, SetOnly, NotifyOnly, InitS, InitOnly}
  /\ ReArming = {ReArm, ArmStamp, StampOnly}
  /\ LeavesTimer = {StampOnly, SetOnly, NotifyOnly, InitS, StartOnly, InitOnly}
BY Zenon DEF Todos, ReArming, LeavesTimer, SetTR, NotifyTR, TriggerR, ResetOnly, ArmStamp,
   StampOnly, StartOnly, ExistsR, ExistsED, EraseD, ExistsSD, SetD, NotifyD, DestroyOnly,
   ReasonS, SetOnly, NotifyOnly, InitS, InitOnly

LEMMA OneLong ==
  \A a : Head(<<a>>) = a /\ Tail(<<a>>) = <<>> /\ Len(<<a>>) = 1
OBVIOUS

LEMMA TwoLong ==
  \A a, b : Head(<<a, b>>) = a /\ Tail(<<a, b>>) = <<b>> /\ Len(<<a, b>>) = 2
OBVIOUS

LEMMA ThreeLong ==
  \A a, b, c : Head(<<a, b, c>>) = a /\ Tail(<<a, b, c>>) = <<b, c>> /\ Len(<<a, b, c>>) = 3
OBVIOUS

LEMMA Longer ==
  /\ \A a : <<a>> \o <<>> = <<a>>
  /\ \A a, b : <<a>> \o <<b>> = <<a, b>>
  /\ \A a, b, c : <<a>> \o <<b, c>> = <<a, b, c>> /\ <<a, b, c>> \o <<>> = <<a, b, c>>
<1>1. \A a : <<a>> \o <<>> = <<a>>
  OBVIOUS
<1>2. ASSUME NEW a, NEW b PROVE <<a>> \o <<b>> = <<a, b>>
  <2> DEFINE S == {a, b}
             l == <<a>>
             m == <<b>>
             r == <<a, b>>
  <2>1. /\ l \in Seq(S) /\ Len(l) = 1 /\ l[1] = a
        /\ m \in Seq(S) /\ Len(m) = 1 /\ m[1] = b
        /\ r \in Seq(S) /\ Len(r) = 2 /\ r[1] = a /\ r[2] = b
    OBVIOUS
  <2> HIDE DEF S, l, m, r
  <2>2. /\ l \o m \in Seq(S) /\ Len(l \o m) = 1 + 1
        /\ \A i \in 1..1 + 1 : (l \o m)[i] = IF i <= 1 THEN l[i] ELSE m[i - 1]
    BY <2>1, ConcatProperties
  <2>3. l \o m = r
    <3> DEFINE x == l \o m
    <3> HIDE DEF x
    <3>1. x \in Seq(S) /\ Len(x) = 2 /\ x[1] = a /\ x[2] = b
      BY <2>1, <2>2 DEF x
    <3>2. x = r
      BY <2>1, <3>1, SeqEqual
    <3> QED
      BY <3>2 DEF x
  <2> QED
    BY <2>3 DEF l, m, r
<1>3. ASSUME NEW a, NEW b, NEW c PROVE <<a>> \o <<b, c>> = <<a, b, c>>
  <2> DEFINE S == {a, b, c}
             l == <<a>>
             m == <<b, c>>
             r == <<a, b, c>>
  <2>1. /\ l \in Seq(S) /\ Len(l) = 1 /\ l[1] = a
        /\ m \in Seq(S) /\ Len(m) = 2 /\ m[1] = b /\ m[2] = c
        /\ r \in Seq(S) /\ Len(r) = 3 /\ r[1] = a /\ r[2] = b /\ r[3] = c
    OBVIOUS
  <2> HIDE DEF S, l, m, r
  <2>2. /\ l \o m \in Seq(S) /\ Len(l \o m) = Len(l) + Len(m)
        /\ \A i \in 1..Len(l) + Len(m) :
             (l \o m)[i] = IF i <= Len(l) THEN l[i] ELSE m[i - Len(l)]
    BY <2>1, ConcatProperties, Zenon
  <2>3. l \o m = r
    <3> DEFINE x == l \o m
    <3> HIDE DEF x
    <3>1. /\ x \in Seq(S) /\ Len(x) = 3
          /\ \A i \in 1..3 : x[i] = IF i <= 1 THEN l[i] ELSE m[i - 1]
      BY <2>1, <2>2 DEF x
    <3>2. x[1] = a /\ x[2] = b /\ x[3] = c
      BY <2>1, <3>1
    <3>3. x = r
      BY <2>1, <3>1, <3>2, SeqEqual
    <3> QED
      BY <3>3 DEF x
  <2> QED
    BY <2>3 DEF l, m, r
<1>4. \A a, b, c : <<a, b, c>> \o <<>> = <<a, b, c>>
  OBVIOUS
<1> QED
  BY <1>1, <1>2, <1>3, <1>4

\* Their heads and lengths, which tell them apart, and what follows them.
TodoTable ==
  /\ Head(SetTR) = "set" /\ Len(SetTR) = 3 /\ Tail(SetTR) = TriggerR
  /\ Head(NotifyTR) = "notify" /\ Len(NotifyTR) = 3 /\ Tail(NotifyTR) = TriggerR
  /\ Head(TriggerR) = "trigger" /\ Len(TriggerR) = 2 /\ Tail(TriggerR) = ResetOnly
  /\ Head(ResetOnly) = "reset" /\ Len(ResetOnly) = 1 /\ Tail(ResetOnly) = <<>>
  /\ Head(ReArm) = "stop" /\ Len(ReArm) = 3 /\ Tail(ReArm) = ArmStamp
  /\ Head(ArmStamp) = "arm" /\ Len(ArmStamp) = 2 /\ Tail(ArmStamp) = StampOnly
  /\ Head(StampOnly) = "stamp" /\ Len(StampOnly) = 1 /\ Tail(StampOnly) = <<>>
  /\ Head(StartOnly) = "start" /\ Len(StartOnly) = 1 /\ Tail(StartOnly) = <<>>
  /\ Head(ExistsR) = "exists" /\ Len(ExistsR) = 2 /\ Tail(ExistsR) = ResetOnly
  /\ Head(ExistsED) = "exists" /\ Len(ExistsED) = 3 /\ Tail(ExistsED) = EraseD
  /\ Head(EraseD) = "erase" /\ Len(EraseD) = 2 /\ Tail(EraseD) = DestroyOnly
  /\ Head(ExistsSD) = "exists" /\ Len(ExistsSD) = 3 /\ Tail(ExistsSD) = SetD
  /\ Head(SetD) = "set" /\ Len(SetD) = 2 /\ Tail(SetD) = DestroyOnly
  /\ Head(NotifyD) = "notify" /\ Len(NotifyD) = 2 /\ Tail(NotifyD) = DestroyOnly
  /\ Head(DestroyOnly) = "destroy" /\ Len(DestroyOnly) = 1 /\ Tail(DestroyOnly) = <<>>
  /\ Head(ReasonS) = "reason" /\ Len(ReasonS) = 2 /\ Tail(ReasonS) = SetOnly
  /\ Head(SetOnly) = "set" /\ Len(SetOnly) = 1 /\ Tail(SetOnly) = <<>>
  /\ Head(NotifyOnly) = "notify" /\ Len(NotifyOnly) = 1 /\ Tail(NotifyOnly) = <<>>
  /\ Head(InitS) = "init" /\ Len(InitS) = 2 /\ Tail(InitS) = StartOnly
  /\ Head(InitOnly) = "init" /\ Len(InitOnly) = 1 /\ Tail(InitOnly) = <<>>
  /\ <<"notify">> \o TriggerR = NotifyTR
  /\ <<"notify">> \o DestroyOnly = NotifyD
  /\ <<"notify">> \o <<>> = NotifyOnly
  /\ <<"start">> \o <<>> = StartOnly
  /\ ReArm \o <<>> = ReArm

LEMMA TodoFacts == TodoTable
<1>1. Head(SetTR) = "set" /\ Len(SetTR) = 3 /\ Tail(SetTR) = TriggerR
  BY ThreeLong, Zenon DEF SetTR, TriggerR
<1>2. Head(NotifyTR) = "notify" /\ Len(NotifyTR) = 3 /\ Tail(NotifyTR) = TriggerR
  BY ThreeLong, Zenon DEF NotifyTR, TriggerR
<1>3. Head(TriggerR) = "trigger" /\ Len(TriggerR) = 2 /\ Tail(TriggerR) = ResetOnly
  BY TwoLong, Zenon DEF TriggerR, ResetOnly
<1>4. Head(ResetOnly) = "reset" /\ Len(ResetOnly) = 1 /\ Tail(ResetOnly) = <<>>
  BY OneLong, Zenon DEF ResetOnly
<1>5. Head(ReArm) = "stop" /\ Len(ReArm) = 3 /\ Tail(ReArm) = ArmStamp
  BY ThreeLong, Zenon DEF ReArm, ArmStamp
<1>6. Head(ArmStamp) = "arm" /\ Len(ArmStamp) = 2 /\ Tail(ArmStamp) = StampOnly
  BY TwoLong, Zenon DEF ArmStamp, StampOnly
<1>7. Head(StampOnly) = "stamp" /\ Len(StampOnly) = 1 /\ Tail(StampOnly) = <<>>
  BY OneLong, Zenon DEF StampOnly
<1>8. Head(StartOnly) = "start" /\ Len(StartOnly) = 1 /\ Tail(StartOnly) = <<>>
  BY OneLong, Zenon DEF StartOnly
<1>9. Head(ExistsR) = "exists" /\ Len(ExistsR) = 2 /\ Tail(ExistsR) = ResetOnly
  BY TwoLong, Zenon DEF ExistsR, ResetOnly
<1>10. Head(ExistsED) = "exists" /\ Len(ExistsED) = 3 /\ Tail(ExistsED) = EraseD
  BY ThreeLong, Zenon DEF ExistsED, EraseD
<1>11. Head(EraseD) = "erase" /\ Len(EraseD) = 2 /\ Tail(EraseD) = DestroyOnly
  BY TwoLong, Zenon DEF EraseD, DestroyOnly
<1>12. Head(ExistsSD) = "exists" /\ Len(ExistsSD) = 3 /\ Tail(ExistsSD) = SetD
  BY ThreeLong, Zenon DEF ExistsSD, SetD
<1>13. Head(SetD) = "set" /\ Len(SetD) = 2 /\ Tail(SetD) = DestroyOnly
  BY TwoLong, Zenon DEF SetD, DestroyOnly
<1>14. Head(NotifyD) = "notify" /\ Len(NotifyD) = 2 /\ Tail(NotifyD) = DestroyOnly
  BY TwoLong, Zenon DEF NotifyD, DestroyOnly
<1>15. Head(DestroyOnly) = "destroy" /\ Len(DestroyOnly) = 1 /\ Tail(DestroyOnly) = <<>>
  BY OneLong, Zenon DEF DestroyOnly
<1>16. Head(ReasonS) = "reason" /\ Len(ReasonS) = 2 /\ Tail(ReasonS) = SetOnly
  BY TwoLong, Zenon DEF ReasonS, SetOnly
<1>17. Head(SetOnly) = "set" /\ Len(SetOnly) = 1 /\ Tail(SetOnly) = <<>>
  BY OneLong, Zenon DEF SetOnly
<1>18. Head(NotifyOnly) = "notify" /\ Len(NotifyOnly) = 1 /\ Tail(NotifyOnly) = <<>>
  BY OneLong, Zenon DEF NotifyOnly
<1>19. Head(InitS) = "init" /\ Len(InitS) = 2 /\ Tail(InitS) = StartOnly
  BY TwoLong, Zenon DEF InitS, StartOnly
<1>20. Head(InitOnly) = "init" /\ Len(InitOnly) = 1 /\ Tail(InitOnly) = <<>>
  BY OneLong, Zenon DEF InitOnly
<1>21. <<"notify">> \o TriggerR = NotifyTR
  BY Longer, Zenon DEF NotifyTR, TriggerR
<1>22. <<"notify">> \o DestroyOnly = NotifyD
  BY Longer, Zenon DEF NotifyD, DestroyOnly
<1>23. <<"notify">> \o <<>> = NotifyOnly
  BY Longer, Zenon DEF NotifyOnly
<1>24. <<"start">> \o <<>> = StartOnly
  BY Longer, Zenon DEF StartOnly
<1>25. ReArm \o <<>> = ReArm
  BY Longer, Zenon DEF ReArm
<1> QED
  BY <1>1, <1>2, <1>3, <1>4, <1>5, <1>6, <1>7, <1>8, <1>9, <1>10, <1>11, <1>12, <1>13,
     <1>14, <1>15, <1>16, <1>17, <1>18, <1>19, <1>20, <1>21, <1>22, <1>23, <1>24, <1>25,
     Zenon DEF TodoTable

LEMMA TodoCases ==
  ASSUME NEW T \in Todos, T # <<>>
  PROVE  /\ Head(T) = "set" => T \in {SetTR, SetD, SetOnly}
         /\ Head(T) = "notify" => T \in {NotifyTR, NotifyD, NotifyOnly}
         /\ Head(T) = "trigger" => T = TriggerR
         /\ Head(T) = "reset" => T = ResetOnly
         /\ Head(T) = "stop" => T = ReArm
         /\ Head(T) = "arm" => T = ArmStamp
         /\ Head(T) = "stamp" => T = StampOnly
         /\ Head(T) = "start" => T = StartOnly
         /\ Head(T) = "exists" => T \in {ExistsR, ExistsED, ExistsSD}
         /\ Head(T) = "erase" => T = EraseD
         /\ Head(T) = "destroy" => T = DestroyOnly
         /\ Head(T) = "reason" => T = ReasonS
         /\ Head(T) = "init" => T \in {InitS, InitOnly}
BY TodoNames, TodoFacts DEF TodoTable

\* What the invariant tells of what is left.
LEMMA TodoClasses ==
  /\ Len(<<>>) = 0
  /\ Resetting = {ReArm, ArmStamp, StampOnly, ResetOnly}
  /\ \A T \in {<<>>, SetTR, NotifyTR, TriggerR, StartOnly, ExistsR, ExistsED, EraseD, ExistsSD,
               SetD, NotifyD, DestroyOnly, ReasonS, SetOnly, NotifyOnly, InitS, InitOnly} :
       T \notin Resetting
<1>1. Len(<<>>) = 0
  OBVIOUS
<1>2. Resetting = {ReArm, ArmStamp, StampOnly, ResetOnly}
  BY TodoNames DEF Resetting, ResetOnly
<1> QED
  BY <1>1, <1>2, TodoFacts DEF TodoTable

-----------------------------------------------------------------------------
(* The callbacks of a user, seen from the source that runs them.           *)

Announcing == {NotifyTR, NotifyD, NotifyOnly}

PeriodAt(u, s) ==
  HasTimer(u) /\ thread[s].todo \notin Resetting
    => (InfoOf(u).age < InfoOf(u).triggerPeriod
          => LeftOf(u) + InfoOf(u).age = InfoOf(u).triggerPeriod)

ResetAt(u, s) ==
  /\ thread[s].todo = ExistsR => thread[s].period = Stages[1]
  /\ HasTimer(u) =>
       /\ thread[s].todo \in Resetting => thread[s].period \in {InfoOf(u).triggerPeriod, Stages[1]}
       /\ thread[s].todo \in ReArming => thread[s].id = InfoOf(u).timerId
       /\ thread[s].todo = StampOnly => LeftOf(u) = thread[s].period

ToldAt(u, s) ==
  Known(u) /\ strongAuthStateInfo[u] = "NONE" =>
    /\ thread[s].todo \in Announcing => thread[s].flag = "NONE"
    /\ verified[u] => told[u] = "NONE" \/ thread[s].todo \in Announcing

RenewingAt(u, s) ==
  /\ thread[s].period = Stages[1]
  /\ \/ thread[s].todo \in {ExistsR, ResetOnly}
     \/ thread[s].todo \in {ReArm, ArmStamp} /\ HasTimer(u)
     \/ thread[s].todo = StartOnly /\ ~HasTimer(u)

RenewedAt(u, s) ==
  /\ HasTimer(u) /\ LeftOf(u) <= Stages[1]
  /\ thread[s].todo = <<>> \/ thread[s].todo \in LeavesTimer

ChangedAt(u, s) == u \in changed /\ stops = 0 => Known(u) /\ (RenewingAt(u, s) \/ RenewedAt(u, s))

UserInv(u) == PeriodInv(u) /\ ResetInv(u) /\ ToldInv(u) /\ ChangedInv(u)
UserAt(u, s) == PeriodAt(u, s) /\ ResetAt(u, s) /\ ToldAt(u, s) /\ ChangedAt(u, s)

\* No source but s runs a callback of the user.
Runs(u, s) ==
  /\ thread[s].todo \in Todos
  /\ Callbacks(u) = IF thread[s].todo = <<>> THEN {} ELSE {thread[s]}

LEMMA AnnouncingHead ==
  ASSUME NEW T \in Todos, T # <<>> PROVE Head(T) = "notify" <=> T \in Announcing
BY TodoCases, TodoFacts DEF TodoTable, Announcing

LEMMA Names ==
  /\ <<"exists", "reset">> = ExistsR /\ <<"reset">> = ResetOnly /\ <<"arm", "stamp">> = ArmStamp
  /\ <<"start">> = StartOnly /\ <<"stamp">> = StampOnly
BY Zenon DEF ExistsR, ResetOnly, ArmStamp, StartOnly, StampOnly

LEMMA NotDone == ASSUME NEW T \in Resetting \cup LeavesTimer \cup {ExistsR} PROVE T # <<>>
BY TodoNames, TodoClasses, TodoFacts DEF TodoTable

LEMMA View == ASSUME NEW s, NEW u, Runs(u, s) PROVE UserInv(u) <=> UserAt(u, s)
<1> DEFINE T == thread[s].todo
<1>1. T \in Todos /\ (T = <<>> => Callbacks(u) = {}) /\ (T # <<>> => Callbacks(u) = {thread[s]})
  BY DEF Runs
<1>2. PeriodInv(u) <=> PeriodAt(u, s)
  BY <1>1, NotDone DEF PeriodInv, PeriodAt
<1>3. ResetInv(u) <=> ResetAt(u, s)
  <2>1. CASE T = <<>>
    BY <1>1, <2>1, NotDone, TodoNames, TodoClasses DEF ResetInv, ResetAt
  <2>2. CASE T # <<>>
    BY <1>1, <2>2, Names, Zenon DEF ResetInv, ResetAt
  <2> QED
    BY <2>1, <2>2
<1>4. ToldInv(u) <=> ToldAt(u, s)
  <2>1. <<>> \notin Announcing
    BY TodoFacts, TodoClasses DEF TodoTable, Announcing
  <2> QED
    BY <1>1, <2>1, AnnouncingHead DEF ToldInv, ToldAt
<1>5. ChangedInv(u) <=> ChangedAt(u, s)
  <2>1. CASE T = <<>>
    BY <1>1, <2>1, NotDone, TodoNames, TodoClasses
       DEF ChangedInv, ChangedAt, Renewing, Renewed, RenewingAt, RenewedAt
  <2>2. CASE T # <<>>
    <3>1. Renewing(u) <=> RenewingAt(u, s)
      BY <1>1, <2>2, Names, Zenon DEF Renewing, RenewingAt
    <3>2. Renewed(u) <=> RenewedAt(u, s)
      BY <1>1, <2>2, Zenon DEF Renewed, RenewedAt
    <3> QED
      BY <3>1, <3>2 DEF ChangedInv, ChangedAt
  <2> QED
    BY <2>1, <2>2
<1> QED
  BY <1>2, <1>3, <1>4, <1>5 DEF UserInv, UserAt

LEMMA ViewNext == (\A s, u : Runs(u, s) => (UserInv(u) <=> UserAt(u, s)))'
<1>1. \A s, u : Runs(u, s) => (UserInv(u) <=> UserAt(u, s))
  BY View
<1> QED
  BY <1>1, PTL

\* No source but s is in a callback of the user.
NoOther(u, s) == \A r \in Sources : thread[r].todo # <<>> /\ Here(r) = u => r = s

LEMMA RunsAlone ==
  ASSUME NEW s \in Sources, NEW u, thread[s].todo \in Todos, NoOther(u, s),
         thread[s].todo = <<>> \/ Here(s) = u
  PROVE  Runs(u, s)
<1>1. CASE thread[s].todo = <<>>
  <2>1. {r \in Sources : thread[r].todo # <<>> /\ Here(r) = u} = {}
    BY <1>1 DEF NoOther
  <2> QED
    BY <1>1, <2>1 DEF Runs, Callbacks
<1>2. CASE thread[s].todo # <<>>
  <2>1. {r \in Sources : thread[r].todo # <<>> /\ Here(r) = u} = {s}
    BY <1>2 DEF NoOther
  <2> QED
    BY <1>2, <2>1 DEF Runs, Callbacks
<1> QED
  BY <1>1, <1>2

LEMMA RunsAloneNext ==
  (\A s \in Sources : \A u :
     /\ thread[s].todo \in Todos /\ NoOther(u, s) /\ (thread[s].todo = <<>> \/ Here(s) = u)
     => Runs(u, s))'
<1>1. \A s \in Sources : \A u :
        /\ thread[s].todo \in Todos /\ NoOther(u, s) /\ (thread[s].todo = <<>> \/ Here(s) = u)
        => Runs(u, s)
  BY RunsAlone
<1> QED
  BY <1>1, PTL

\* A step of one source, in a callback of the user.
OnlyStep(s, u) ==
  /\ \A r \in Sources : r # s => thread'[r] = thread[r]
  /\ thread[s].todo = <<>> \/ Here(s) = u
  /\ thread'[s].user = u

LEMMA StepAlone ==
  ASSUME OneAtATime, NEW s \in Sources, NEW u, NoOther(u, s), OnlyStep(s, u),
         thread'[s].todo \in Todos
  PROVE  /\ OneAtATime' /\ Runs(u, s)'
         /\ \A w : w # u => Callbacks(w)' = Callbacks(w)
<1>1. NoOther(u, s)'
  BY DEF NoOther, OnlyStep, Here
<1>2. Runs(u, s)'
  BY <1>1, RunsAloneNext DEF OnlyStep, Here
<1>3. OneAtATime'
  <2> SUFFICES ASSUME NEW q \in Sources, NEW r \in Sources, thread'[q].todo # <<>>,
                      thread'[r].todo # <<>>, thread'[q].user = thread'[r].user
               PROVE  q = r
    BY DEF OneAtATime, Here
  <2>1. CASE q = s \/ r = s
    BY <1>1, <2>1 DEF NoOther, OnlyStep, Here
  <2>2. CASE q # s /\ r # s
    BY <2>2 DEF OneAtATime, OnlyStep, Here
  <2> QED
    BY <2>1, <2>2
<1>4. ASSUME NEW w, w # u PROVE Callbacks(w)' = Callbacks(w)
  <2> DEFINE busy == {r \in Sources : thread[r].todo # <<>> /\ Here(r) = w}
  <2>1. busy' = busy
    BY <1>4 DEF OnlyStep, Here
  <2>2. \A r \in busy : thread'[r] = thread[r]
    BY <1>4 DEF OnlyStep, Here
  <2>3. Callbacks(w) = {thread[r] : r \in busy} /\ Callbacks(w)' = {thread'[r] : r \in busy'}
    BY DEF Callbacks
  <2> HIDE DEF busy
  <2> QED
    BY <2>1, <2>2, <2>3
<1> QED
  BY <1>2, <1>3, <1>4

\* What a step leaves alone of a user.
SameTimer(u) ==
  /\ HasTimer(u)' <=> HasTimer(u)
  /\ HasTimer(u) => InfoOf(u)' = InfoOf(u) /\ LeftOf(u)' = LeftOf(u)

SameState(u) ==
  /\ Known(u)' <=> Known(u)
  /\ Known(u) => strongAuthStateInfo'[u] = strongAuthStateInfo[u]
  /\ told'[u] = told[u]

SameOthers(u) ==
  /\ verified'[u] = verified[u]
  /\ u \in changed' => u \in changed
  /\ stops' = 0 => stops = 0

LEMMA Frame ==
  ASSUME NEW u, UserInv(u), Callbacks(u)' = Callbacks(u), SameTimer(u), SameState(u), SameOthers(u)
  PROVE  UserInv(u)'
<1>1. PeriodInv(u)'
  BY DEF UserInv, PeriodInv, SameTimer
<1>2. ResetInv(u)'
  BY DEF UserInv, ResetInv, SameTimer
<1>3. ToldInv(u)'
  BY DEF UserInv, ToldInv, SameState, SameOthers
<1>4. ChangedInv(u)'
  BY DEF UserInv, ChangedInv, Renewing, Renewed, SameTimer, SameState, SameOthers
<1> QED
  BY <1>1, <1>2, <1>3, <1>4 DEF UserInv

\* What a step does to a callback that does not overlap with others of its
\* user, and to that user, is all that has to be looked at.
LEMMA Together ==
  ASSUME SerialInv, ArmedInv', NEW s \in Sources, NEW u \in Users, NoOther(u, s), OnlyStep(s, u),
         thread'[s].todo \in Todos, UserAt(u, s)',
         \A w \in Users : w # u => SameTimer(w) /\ SameState(w) /\ SameOthers(w)
  PROVE  SerialInv'
<1>1. OneAtATime /\ \A w \in Users : UserInv(w)
  BY DEF SerialInv, UserInv
<1>2. OneAtATime' /\ Runs(u, s)' /\ \A w : w # u => Callbacks(w)' = Callbacks(w)
  BY <1>1, StepAlone
<1>3. UserInv(u)'
  BY <1>2, ViewNext
<1>4. ASSUME NEW w \in Users, w # u PROVE UserInv(w)'
  BY <1>1, <1>2, <1>4, Frame
<1>5. \A r \in Sources : thread'[r].todo \in Todos
  BY DEF SerialInv, OnlyStep
<1> QED
  BY <1>2, <1>3, <1>4, <1>5 DEF SerialInv, UserInv

LEMMA TimerOf ==
  ASSUME TableInv, NEW u \in DOMAIN strongAuthTimerInfo
  PROVE  /\ u \in Users /\ InfoOf(u) \in Info
         /\ InfoOf(u).timerId \in DOMAIN timers
         /\ timers[InfoOf(u).timerId] \in Clock /\ timers[InfoOf(u).timerId].user = u
         /\ LeftOf(u) = timers[InfoOf(u).timerId].left /\ LeftOf(u) \in 0..Off
<1>1. /\ strongAuthTimerInfo \in [DOMAIN strongAuthTimerInfo -> Info]
      /\ timers \in [DOMAIN timers -> Clock] /\ DOMAIN strongAuthTimerInfo \subseteq Users
  BY TableTypes DEF TableInv
<1>2. InfoOf(u).timerId \in DOMAIN timers /\ timers[InfoOf(u).timerId].user = u
  BY DEF TableInv, TimerTableExact, InfoOf
<1>3. timers[InfoOf(u).timerId] \in Clock /\ InfoOf(u) \in Info
  BY <1>1, <1>2 DEF InfoOf
<1> QED
  BY <1>1, <1>2, <1>3 DEF LeftOf, Clock

\* The timer of a user keeps its setting when neither table has it changed.
LEMMA KeepsTimer ==
  ASSUME NEW u,
         HasTimer(u)' <=> HasTimer(u),
         HasTimer(u) => /\ strongAuthTimerInfo'[u] = strongAuthTimerInfo[u]
                        /\ timers'[strongAuthTimerInfo[u].timerId] =
                             timers[strongAuthTimerInfo[u].timerId]
  PROVE  SameTimer(u)
BY DEF SameTimer, InfoOf, LeftOf

LEMMA StateElsewhere ==
  ASSUME TypeOK, NEW s \in Sources, Section(s), NEW w \in Users, w # Here(s)
  PROVE  SameState(w) /\ SameOthers(w)
<1>1. \A flag : Told(Here(s), flag)[w] = told[w]
  BY DEF Told, TypeOK, OthersOK
<1>2. SameOthers(w)
  BY DEF SameOthers, Section, SetStrongAuthStat, NotifyStrongAuthChange, InitStrongAuthStat,
     GetStrongAuthTriggerPeriod, ResetStrongAuthTimer, StopTimer, StartTimer,
     SetCredChangeTriggerPeriod, StartStrongAuthTimer, IsUserExitInStrongAuthInfo,
     DestroyStrongAuthStateInfo, DestroyStrongAuthTimer, GetStrongAuthTimeTrigger,
     still, outer, ghosts
<1>3. CASE SetStrongAuthStat(s)
  <2>1. \/ strongAuthStateInfo' = strongAuthStateInfo
        \/ \E f : strongAuthStateInfo' = Put(strongAuthStateInfo, Here(s), f)
        \/ \E f : strongAuthStateInfo' = [strongAuthStateInfo EXCEPT ![Here(s)] = f]
    BY <1>3, Zenon DEF SetStrongAuthStat
  <2>2. told'[w] = told[w]
    BY <1>1, <1>3, Zenon DEF SetStrongAuthStat
  <2>3. (Known(w)' <=> Known(w)) /\ (Known(w) => strongAuthStateInfo'[w] = strongAuthStateInfo[w])
    BY <2>1 DEF Known, Put
  <2> QED
    BY <1>2, <2>2, <2>3 DEF SameState
<1>4. CASE InitStrongAuthStat(s)
  <2>1. \/ strongAuthStateInfo' = strongAuthStateInfo
        \/ \E f : strongAuthStateInfo' = Put(strongAuthStateInfo, Here(s), f)
    BY <1>4, Zenon DEF InitStrongAuthStat
  <2>2. told'[w] = told[w]
    BY <1>1, <1>4, Zenon DEF InitStrongAuthStat
  <2> QED
    BY <1>2, <2>1, <2>2 DEF SameState, Known, Put
<1>5. CASE NotifyStrongAuthChange(s)
  BY <1>1, <1>2, <1>5 DEF NotifyStrongAuthChange, tables, SameState, Known
<1>6. CASE DestroyStrongAuthStateInfo(s)
  BY <1>2, <1>6 DEF DestroyStrongAuthStateInfo, SameState, Known, Drop
<1>7. CASE UNCHANGED <<strongAuthStateInfo, told>>
  BY <1>2, <1>7 DEF SameState, Known
<1> QED
  BY <1>3, <1>4, <1>5, <1>6, <1>7 DEF Section,
     GetStrongAuthTriggerPeriod, ResetStrongAuthTimer, StopTimer, StartTimer,
     SetCredChangeTriggerPeriod, StartStrongAuthTimer, IsUserExitInStrongAuthInfo,
     DestroyStrongAuthTimer, GetStrongAuthTimeTrigger, tables

LEMMA TimerElsewhere ==
  ASSUME ArmedInv, NEW s \in Sources, Section(s), NEW w \in Users, w # Here(s)
  PROVE  SameTimer(w)
<1>1. TableInv /\ TypeOK
  BY DEF ArmedInv, TableInv
<1> DEFINE i == strongAuthTimerInfo[w].timerId
           u == Here(s)
<1>2. HasTimer(w) => i \in DOMAIN timers /\ timers[i].user = w
  BY <1>1, TimerOf DEF HasTimer, InfoOf
<1>3. thread[s].id \in DOMAIN timers => timers[thread[s].id].user = u
  BY DEF ArmedInv, StopThenArm, Here
<1>4. HasTimer(u) => strongAuthTimerInfo[u].timerId \in DOMAIN timers
                     /\ timers[strongAuthTimerInfo[u].timerId].user = u
  BY <1>1, TimerOf DEF HasTimer, InfoOf
<1>5. created + 1 \notin DOMAIN timers
  BY <1>1 DEF TableInv, FreshIds, TypeOK, ClocksOK
<1> HIDE DEF u
<1>6. CASE UNCHANGED <<strongAuthTimerInfo, timers>>
  BY <1>6, KeepsTimer DEF HasTimer
<1>7. CASE StampSection(s)
  <2>1. timers' = timers
    BY <1>7 DEF StampSection, GetStrongAuthTriggerPeriod, SetCredChangeTriggerPeriod, clocks
  <2>2. \/ strongAuthTimerInfo' = strongAuthTimerInfo
        \/ \E p : strongAuthTimerInfo' =
                    [strongAuthTimerInfo EXCEPT ![u].triggerPeriod = p, ![u].age = 0]
    BY <1>7, Zenon DEF StampSection, GetStrongAuthTriggerPeriod, SetCredChangeTriggerPeriod, u
  <2>3. /\ HasTimer(w)' <=> HasTimer(w)
        /\ HasTimer(w) => strongAuthTimerInfo'[w] = strongAuthTimerInfo[w]
    BY <2>2, w # u DEF HasTimer, u
  <2> QED
    BY <2>1, <2>3, KeepsTimer
<1>8. CASE ClockSection(s)
  <2>1. strongAuthTimerInfo' = strongAuthTimerInfo
    BY <1>8 DEF ClockSection, StopTimer, StartTimer, tables
  <2>2. \/ timers' = timers
        \/ /\ thread[s].id \in DOMAIN timers
           /\ \E x : timers' = [timers EXCEPT ![thread[s].id].left = x]
    BY <1>8 DEF ClockSection, StopTimer, StartTimer
  <2>3. HasTimer(w) => timers'[i] = timers[i]
    BY <1>2, <1>3, <2>2, w # u DEF u
  <2> QED
    BY <2>1, <2>3, KeepsTimer DEF HasTimer
<1>9. CASE StartStrongAuthTimer(s)
  <2>1. CASE HasTimer(u)
    BY <1>6, <1>9, <2>1 DEF StartStrongAuthTimer, TimerExists, clocks, u
  <2>2. CASE ~HasTimer(u)
    <3>1. /\ \E x : timers' = Put(timers, created + 1, x)
          /\ \E x : strongAuthTimerInfo' = Put(strongAuthTimerInfo, u, x)
      BY <1>9, <2>2 DEF StartStrongAuthTimer, TimerExists, u
    <3>2. /\ HasTimer(w)' <=> HasTimer(w)
          /\ HasTimer(w) => strongAuthTimerInfo'[w] = strongAuthTimerInfo[w]
      BY <3>1, w # u DEF HasTimer, Put, u
    <3>3. HasTimer(w) => timers'[i] = timers[i]
      BY <1>2, <1>5, <3>1 DEF Put
    <3> QED
      BY <3>2, <3>3, KeepsTimer
  <2> QED
    BY <2>1, <2>2
<1>10. CASE DestroyStrongAuthTimer(s)
  <2>1. CASE HasTimer(u)
    <3>1. /\ timers' = Drop(timers, strongAuthTimerInfo[u].timerId)
          /\ strongAuthTimerInfo' = Drop(strongAuthTimerInfo, u)
      BY <1>10, <2>1 DEF DestroyStrongAuthTimer, u
    <3>2. /\ HasTimer(w)' <=> HasTimer(w)
          /\ HasTimer(w) => strongAuthTimerInfo'[w] = strongAuthTimerInfo[w]
      BY <3>1, w # u DEF HasTimer, Drop, u
    <3>3. HasTimer(w) => timers'[i] = timers[i]
      BY <1>2, <1>4, <2>1, <3>1, w # u DEF Drop, u
    <3> QED
      BY <3>2, <3>3, KeepsTimer
  <2>2. CASE ~HasTimer(u)
    BY <1>6, <1>10, <2>2 DEF DestroyStrongAuthTimer, u
  <2> QED
    BY <2>1, <2>2
<1>11. CASE Passing(s) \/ StateSection(s)
  BY <1>1, <1>6, <1>11, PassingType DEF StateSection, SetStrongAuthStat, InitStrongAuthStat,
     DestroyStrongAuthStateInfo, tables, clocks
<1> QED
  BY <1>7, <1>8, <1>9, <1>10, <1>11, SectionKinds DEF TimerSection

-----------------------------------------------------------------------------
(* The sections, for the user whose callback it is.                        *)

\* A callback of the user with a section to run.
Running(s, u) == s \in Sources /\ u \in Users /\ Here(s) = u /\ thread[s].todo # <<>>

LEMMA SetUp ==
  ASSUME SerialInv, NEW s, NEW u, Running(s, u)
  PROVE  /\ TableInv /\ TypeOK /\ NoOther(u, s) /\ thread[s].todo \in Todos
         /\ UserAt(u, s)
<1>1. TableInv /\ TypeOK /\ thread[s].todo \in Todos /\ UserInv(u) /\ OneAtATime
  BY DEF SerialInv, ArmedInv, TableInv, Running, UserInv
<1>2. NoOther(u, s)
  BY <1>1 DEF OneAtATime, NoOther, Running
<1>3. Runs(u, s)
  BY <1>1, <1>2, RunsAlone DEF Running
<1> QED
  BY <1>1, <1>2, <1>3, View

LEMMA Going ==
  ASSUME ThreadsOK, NEW s \in Sources, NEW todo, Goto(s, todo)
  PROVE  /\ thread'[s].todo = todo /\ thread'[s].user = thread[s].user
         /\ thread'[s].period = thread[s].period /\ thread'[s].id = thread[s].id
         /\ thread'[s].flag = thread[s].flag
         /\ \A r \in Sources : r # s => thread'[r] = thread[r]
BY DEF ThreadsOK, Goto

\* A section that neither belongs to a reset nor touches the user's timer.
LEMMA PlainPeriod ==
  ASSUME NEW s, NEW u, UserAt(u, s), SameTimer(u), thread[s].todo \notin Resetting,
         thread'[s].todo \notin Resetting, thread'[s].todo # ExistsR
  PROVE  PeriodAt(u, s)' /\ ResetAt(u, s)'
<1>1. PeriodAt(u, s)'
  BY DEF UserAt, PeriodAt, SameTimer
<1>2. thread'[s].todo \notin ReArming /\ thread'[s].todo # StampOnly
  BY TodoNames DEF Resetting
<1> QED
  BY <1>1, <1>2 DEF ResetAt

\* One that neither announces a flag nor stores one.
LEMMA PlainTold ==
  ASSUME NEW s, NEW u, UserAt(u, s), SameState(u), verified' = verified,
         thread[s].todo \notin Announcing, thread'[s].todo \notin Announcing
  PROVE  ToldAt(u, s)'
BY DEF UserAt, ToldAt, SameState

\* The callbacks of users whose PIN is not newly changed.
NotChanged == {SetTR, NotifyTR, TriggerR, ExistsED, EraseD, ExistsSD, SetD, NotifyD, DestroyOnly,
               ReasonS}

LEMMA NotChangedApart ==
  ASSUME NEW T \in NotChanged
  PROVE  /\ T \notin LeavesTimer /\ T # <<>>
         /\ T \notin {ExistsR, ResetOnly, ReArm, ArmStamp, StartOnly}
<1>1. LeavesTimer = {StampOnly, SetOnly, NotifyOnly, InitS, StartOnly, InitOnly}
  BY TodoNames
<1>2. T \notin LeavesTimer
  BY <1>1, TodoFacts DEF TodoTable, NotChanged
<1>3. Len(T) # 0
  BY TodoFacts DEF TodoTable, NotChanged
<1>4. T \notin {ExistsR, ResetOnly, ReArm, ArmStamp, StartOnly}
  BY TodoFacts DEF TodoTable, NotChanged
<1> QED
  BY <1>2, <1>3, <1>4, TodoClasses

LEMMA PlainChanged ==
  ASSUME NEW s, NEW u, UserAt(u, s), thread[s].todo \in NotChanged, UNCHANGED <<changed, stops>>
  PROVE  ChangedAt(u, s)'
<1>1. thread[s].todo \notin LeavesTimer /\ thread[s].todo # <<>>
      /\ thread[s].todo \notin {ExistsR, ResetOnly, ReArm, ArmStamp, StartOnly}
  BY NotChangedApart
<1>2. ~(u \in changed /\ stops = 0)
  BY <1>1 DEF UserAt, ChangedAt, RenewingAt, RenewedAt
<1> QED
  BY <1>2 DEF ChangedAt

\* Those that do not arm the timer any more.
LEMMA PlainRenewed ==
  ASSUME NEW s, NEW u, UserAt(u, s), SameTimer(u), Known(u) => Known(u)',
         UNCHANGED <<changed, stops>>,
         thread[s].todo \in LeavesTimer \cup {<<>>},
         thread[s].todo = StartOnly => HasTimer(u),
         thread'[s].todo \in LeavesTimer \cup {<<>>}
  PROVE  ChangedAt(u, s)'
<1>1. thread[s].todo \notin {ExistsR, ResetOnly, ReArm, ArmStamp}
  BY TodoNames, TodoFacts, TodoClasses DEF TodoTable
<1>2. u \in changed /\ stops = 0 => Known(u) /\ HasTimer(u) /\ LeftOf(u) <= Stages[1]
  BY <1>1 DEF UserAt, ChangedAt, RenewingAt, RenewedAt
<1> QED
  BY <1>2 DEF ChangedAt, RenewedAt, SameTimer

\* What is left when nothing is being announced, or reset.
LEMMA Silent ==
  ASSUME NEW T \in {<<>>, SetTR, TriggerR, ResetOnly, ReArm, ArmStamp, StampOnly, StartOnly,
                    ExistsR, ExistsED, EraseD, ExistsSD, SetD, DestroyOnly, ReasonS, SetOnly,
                    InitS, InitOnly}
  PROVE  T \notin Announcing
<1>1. <<>> \notin Announcing
  BY TodoFacts, TodoClasses DEF TodoTable, Announcing
<1> QED
  BY <1>1, TodoFacts DEF TodoTable, Announcing

LEMMA Apart ==
  ASSUME NEW T \in {<<>>, SetTR, NotifyTR, TriggerR, StartOnly, ExistsED, EraseD, ExistsSD,
                    SetD, NotifyD, DestroyOnly, ReasonS, SetOnly, NotifyOnly, InitS, InitOnly}
  PROVE  T \notin Resetting /\ T # ExistsR
<1>1. T \notin Resetting
  BY TodoClasses
<1>2. <<>> # ExistsR
  BY TodoFacts, TodoClasses DEF TodoTable
<1> QED
  BY <1>1, <1>2, TodoFacts DEF TodoTable

\* What is to be shown of a section.
Kept(s, u) == thread'[s].todo \in Todos /\ UserAt(u, s)'

LEMMA AfterSet ==
  ASSUME NEW T \in {SetTR, SetD, SetOnly}
  PROVE  /\ Tail(T) \in {TriggerR, DestroyOnly, <<>>}
         /\ <<"notify">> \o Tail(T) \in Announcing
         /\ \/ T \in NotChanged
            \/ T = SetOnly /\ Tail(T) = <<>> /\ <<"notify">> \o Tail(T) = NotifyOnly
<1>1. /\ Tail(SetTR) = TriggerR /\ <<"notify">> \o TriggerR = NotifyTR
      /\ Tail(SetD) = DestroyOnly /\ <<"notify">> \o DestroyOnly = NotifyD
      /\ Tail(SetOnly) = <<>> /\ <<"notify">> \o <<>> = NotifyOnly
  BY TodoFacts, Zenon DEF TodoTable
<1>2. /\ SetTR \in NotChanged /\ SetD \in NotChanged
      /\ NotifyTR \in Announcing /\ NotifyD \in Announcing /\ NotifyOnly \in Announcing
  BY Zenon DEF NotChanged, Announcing
<1>3. T = SetTR \/ T = SetD \/ T = SetOnly
  OBVIOUS
<1> DEFINE R == Tail(T)
           N == <<"notify">> \o R
<1>4. ASSUME T = SetTR PROVE R = TriggerR /\ N = NotifyTR
  BY <1>1, <1>4, Zenon
<1>5. ASSUME T = SetD PROVE R = DestroyOnly /\ N = NotifyD
  BY <1>1, <1>5, Zenon
<1>6. ASSUME T = SetOnly PROVE R = <<>> /\ N = NotifyOnly
  BY <1>1, <1>6, Zenon
<1> HIDE DEF R, N
<1>7. /\ R \in {TriggerR, DestroyOnly, <<>>} /\ N \in Announcing
      /\ T \in NotChanged \/ (T = SetOnly /\ R = <<>> /\ N = NotifyOnly)
  BY <1>2, <1>3, <1>4, <1>5, <1>6
<1> QED
  BY <1>7, Zenon DEF R, N

LEMMA SetMine ==
  ASSUME SerialInv, NEW s, NEW u, Running(s, u), SetStrongAuthStat(s)
  PROVE  Kept(s, u)
<1> DEFINE T == thread[s].todo
           N == <<"notify">> \o Tail(T)
<1>1. TypeOK /\ T \in Todos /\ UserAt(u, s)
  BY SetUp
<1>2. s \in Sources /\ u \in Users /\ Here(s) = u /\ ThreadsOK
  BY <1>1 DEF Running, TypeOK
<1>3. T \in {SetTR, SetD, SetOnly}
  BY <1>1, TodoCases DEF SetStrongAuthStat, At
<1>4. /\ Tail(T) \in {TriggerR, DestroyOnly, <<>>} /\ N \in Announcing
      /\ T \in NotChanged \/ (T = SetOnly /\ Tail(T) = <<>> /\ N = NotifyOnly)
  BY <1>3, AfterSet
<1>5. /\ T \notin Announcing /\ T \notin Resetting /\ Tail(T) \notin Announcing
      /\ Tail(T) \notin Resetting /\ Tail(T) # ExistsR
  BY <1>3, <1>4, Silent, Apart
<1>6. N \notin Resetting /\ N # ExistsR
  BY <1>4, Apart DEF Announcing
<1>7. Tail(T) \in Todos /\ N \in Todos
  BY <1>4, TodoNames DEF Announcing
<1> HIDE DEF N
<1>8. /\ UNCHANGED <<strongAuthTimerInfo, timers, verified, changed, stops>>
      /\ Goto(s, Tail(T)) \/ Goto(s, N)
  BY DEF SetStrongAuthStat, clocks, still, outer, ghosts, Rest, N
<1>9. /\ thread'[s].todo = Tail(T) \/ thread'[s].todo = N
      /\ thread'[s].flag = thread[s].flag
  BY <1>2, <1>8, Going
<1>10. SameTimer(u)
  BY <1>8, KeepsTimer DEF HasTimer
<1>11. PeriodAt(u, s)' /\ ResetAt(u, s)'
  BY <1>1, <1>5, <1>6, <1>9, <1>10, PlainPeriod
<1>12. Known(u)'
  BY <1>2 DEF SetStrongAuthStat, Known, Put
<1>13. ChangedAt(u, s)'
  <2>1. CASE T \in NotChanged
    BY <1>1, <1>8, <2>1, PlainChanged
  <2>2. CASE T = SetOnly /\ Tail(T) = <<>> /\ N = NotifyOnly
    <3>1. SetOnly \in LeavesTimer /\ NotifyOnly \in LeavesTimer /\ SetOnly # StartOnly
      BY TodoNames, TodoFacts DEF TodoTable
    <3> HIDE DEF T
    <3>2. T \in LeavesTimer \cup {<<>>} /\ thread'[s].todo \in LeavesTimer \cup {<<>>}
      BY <1>9, <2>2, <3>1
    <3> QED
      BY <1>1, <1>8, <1>10, <1>12, <2>2, <3>1, <3>2, PlainRenewed DEF T
  <2> QED
    BY <1>4, <2>1, <2>2
<1>14. ToldAt(u, s)'
  <2> DEFINE flag == thread[s].flag
  <2>1. told \in [Users -> Flags \cup {"nothing"}]
    BY <1>1 DEF TypeOK, OthersOK
  <2>2. CASE ~Known(u)
    <3>1. strongAuthStateInfo' = Put(strongAuthStateInfo, u, flag) /\ told' = Told(u, flag)
          /\ Goto(s, Tail(T))
      BY <1>2, <2>2 DEF SetStrongAuthStat, Rest
    <3>2. strongAuthStateInfo'[u] = flag
      BY <3>1 DEF Put
    <3>3. thread'[s].todo = Tail(T)
      BY <1>2, <3>1, Going
    <3>4. flag = "NONE" /\ verified[u] => told'[u] = "NONE"
      BY <1>2, <2>1, <3>1 DEF Told
    <3> HIDE DEF T, flag
    <3> QED
      BY <1>5, <1>8, <3>2, <3>3, <3>4 DEF ToldAt
  <2>3. CASE Known(u) /\ Accepts(strongAuthStateInfo[u], flag)
    <3>1. /\ strongAuthStateInfo' = [strongAuthStateInfo EXCEPT ![u] = flag]
          /\ Goto(s, N)
      BY <1>2, <2>3 DEF SetStrongAuthStat, Rest, N
    <3>2. strongAuthStateInfo'[u] = flag
      BY <2>3, <3>1 DEF Known
    <3>3. thread'[s].todo = N
      BY <1>2, <3>1, Going
    <3> QED
      BY <1>4, <1>9, <3>2, <3>3 DEF ToldAt
  <2>4. CASE Known(u) /\ ~Accepts(strongAuthStateInfo[u], flag)
    <3>1. UNCHANGED <<strongAuthStateInfo, told>> /\ Goto(s, Tail(T))
      BY <1>2, <2>4 DEF SetStrongAuthStat, Rest
    <3>2. thread'[s].todo = Tail(T)
      BY <1>2, <3>1, Going
    <3>3. SameState(u)
      BY <3>1 DEF SameState, Known
    <3> QED
      BY <1>1, <1>5, <1>8, <3>2, <3>3, PlainTold
  <2> QED
    BY <2>2, <2>3, <2>4
<1> QED
  BY <1>7, <1>9, <1>11, <1>13, <1>14 DEF Kept, UserAt

LEMMA AfterNotify ==
  ASSUME NEW T \in Announcing
  PROVE  /\ Tail(T) \in {TriggerR, DestroyOnly, <<>>}
         /\ T \in NotChanged \/ (T = NotifyOnly /\ Tail(T) = <<>>)
<1> DEFINE R == Tail(T)
<1>1. (T = NotifyTR /\ R = TriggerR) \/ (T = NotifyD /\ R = DestroyOnly)
      \/ (T = NotifyOnly /\ R = <<>>)
  BY TodoFacts DEF TodoTable, Announcing
<1> HIDE DEF R
<1>2. /\ R \in {TriggerR, DestroyOnly, <<>>}
      /\ T \in NotChanged \/ (T = NotifyOnly /\ R = <<>>)
  BY <1>1 DEF NotChanged
<1> QED
  BY <1>2 DEF R

LEMMA ToldNone ==
  ASSUME TypeOK, NEW u \in Users, verified[u] PROVE Told(u, "NONE")[u] = "NONE"
BY DEF Told, TypeOK, OthersOK

LEMMA NotifyMine ==
  ASSUME SerialInv, NEW s, NEW u, Running(s, u), NotifyStrongAuthChange(s)
  PROVE  Kept(s, u)
<1> DEFINE T == thread[s].todo
           R == Tail(T)
<1>1. TypeOK /\ T \in Todos /\ UserAt(u, s)
  BY SetUp
<1>2. s \in Sources /\ u \in Users /\ Here(s) = u /\ ThreadsOK
  BY <1>1 DEF Running, TypeOK
<1>3. T \in Announcing
  BY <1>1, TodoCases DEF NotifyStrongAuthChange, At, Announcing
<1>4. R \in {TriggerR, DestroyOnly, <<>>} /\ (T \in NotChanged \/ (T = NotifyOnly /\ R = <<>>))
  BY <1>3, AfterNotify
<1>5. R \notin Announcing /\ R \notin Resetting /\ R # ExistsR /\ T \notin Resetting
  BY <1>3, <1>4, Silent, Apart DEF Announcing
<1>6. R \in Todos
  BY <1>4, TodoNames
<1>7. /\ UNCHANGED <<strongAuthStateInfo, strongAuthTimerInfo, timers, verified, changed, stops>>
      /\ Goto(s, R) /\ told' = Told(u, thread[s].flag)
  BY <1>2 DEF NotifyStrongAuthChange, tables, clocks, still, outer, ghosts, Rest
<1>8. thread'[s].todo = R
  BY <1>2, <1>7, Going
<1> HIDE DEF R
<1>9. SameTimer(u)
  BY <1>7, KeepsTimer DEF HasTimer
<1>10. PeriodAt(u, s)' /\ ResetAt(u, s)'
  BY <1>1, <1>5, <1>8, <1>9, PlainPeriod
<1>11. ChangedAt(u, s)'
  <2>1. CASE T \in NotChanged
    BY <1>1, <1>7, <2>1, PlainChanged
  <2>2. CASE T = NotifyOnly /\ R = <<>>
    <3>1. NotifyOnly \in LeavesTimer /\ NotifyOnly # StartOnly
      BY TodoNames, TodoFacts DEF TodoTable
    <3>2. Known(u) => Known(u)'
      BY <1>7 DEF Known
    <3> HIDE DEF T
    <3> QED
      BY <1>1, <1>7, <1>8, <1>9, <2>2, <3>1, <3>2, PlainRenewed DEF T
  <2> QED
    BY <1>4, <2>1, <2>2
<1>12. ToldAt(u, s)'
  <2>1. Known(u) /\ strongAuthStateInfo[u] = "NONE" => thread[s].flag = "NONE"
    BY <1>1, <1>3 DEF UserAt, ToldAt
  <2>2. Known(u) /\ strongAuthStateInfo[u] = "NONE" /\ verified[u] => told'[u] = "NONE"
    BY <1>1, <1>2, <1>7, <2>1, ToldNone
  <2> QED
    BY <1>5, <1>7, <1>8, <2>2 DEF ToldAt, Known
<1> QED
  BY <1>6, <1>8, <1>10, <1>11, <1>12 DEF Kept, UserAt

LEMMA InitMine ==
  ASSUME SerialInv, NEW s, NEW u, Running(s, u), InitStrongAuthStat(s)
  PROVE  Kept(s, u)
<1> DEFINE T == thread[s].todo
           R == Tail(T)
           flag == thread[s].flag
<1>1. TypeOK /\ T \in Todos /\ UserAt(u, s)
  BY SetUp
<1>2. s \in Sources /\ u \in Users /\ Here(s) = u /\ ThreadsOK
  BY <1>1 DEF Running, TypeOK
<1>3. T \in {InitS, InitOnly}
  BY <1>1, TodoCases DEF InitStrongAuthStat, At
<1>4. R \in {StartOnly, <<>>}
  BY <1>3, TodoFacts DEF TodoTable
<1>5. /\ R \notin Announcing /\ R \notin Resetting /\ R # ExistsR
      /\ T \notin Resetting /\ T \notin Announcing
  BY <1>3, <1>4, Silent, Apart
<1>6. R \in Todos /\ R \in LeavesTimer \cup {<<>>} /\ T \in LeavesTimer /\ T # StartOnly
  BY <1>3, <1>4, TodoNames, TodoFacts DEF TodoTable
<1>7. /\ UNCHANGED <<strongAuthTimerInfo, timers, verified, changed, stops>> /\ Goto(s, R)
  BY DEF InitStrongAuthStat, clocks, still, outer, ghosts, Rest
<1>8. thread'[s].todo = R
  BY <1>2, <1>7, Going
<1> HIDE DEF R
<1>9. SameTimer(u)
  BY <1>7, KeepsTimer DEF HasTimer
<1>10. PeriodAt(u, s)' /\ ResetAt(u, s)'
  BY <1>1, <1>5, <1>8, <1>9, PlainPeriod
<1>11. Known(u)'
  BY <1>2 DEF InitStrongAuthStat, Known, Put
<1>12. ChangedAt(u, s)'
  BY <1>1, <1>6, <1>7, <1>8, <1>9, <1>11, PlainRenewed
<1>13. ToldAt(u, s)'
  <2>1. CASE Known(u)
    <3>1. UNCHANGED <<strongAuthStateInfo, told>>
      BY <1>2, <2>1 DEF InitStrongAuthStat
    <3>2. SameState(u)
      BY <3>1 DEF SameState, Known
    <3> QED
      BY <1>1, <1>5, <1>7, <1>8, <3>2, PlainTold
  <2>2. CASE ~Known(u)
    <3>1. strongAuthStateInfo' = Put(strongAuthStateInfo, u, flag) /\ told' = Told(u, flag)
      BY <1>2, <2>2 DEF InitStrongAuthStat
    <3>2. strongAuthStateInfo'[u] = flag
      BY <3>1 DEF Put
    <3>3. flag = "NONE" /\ verified[u] => told'[u] = "NONE"
      BY <1>1, <1>2, <3>1, ToldNone
    <3> HIDE DEF flag
    <3> QED
      BY <1>5, <1>7, <1>8, <3>2, <3>3 DEF ToldAt
  <2> QED
    BY <2>1, <2>2
<1> QED
  BY <1>6, <1>8, <1>10, <1>12, <1>13 DEF Kept, UserAt

LEMMA EraseMine ==
  ASSUME SerialInv, NEW s, NEW u, Running(s, u), DestroyStrongAuthStateInfo(s)
  PROVE  Kept(s, u)
<1>1. TypeOK /\ thread[s].todo \in Todos /\ UserAt(u, s)
  BY SetUp
<1>2. s \in Sources /\ u \in Users /\ Here(s) = u /\ ThreadsOK
  BY <1>1 DEF Running, TypeOK
<1>3. thread[s].todo = EraseD
  BY <1>1, TodoCases DEF DestroyStrongAuthStateInfo, At
<1>4. /\ UNCHANGED <<strongAuthTimerInfo, timers, changed, stops>> /\ Goto(s, DestroyOnly)
  BY <1>3, TodoFacts
     DEF TodoTable, DestroyStrongAuthStateInfo, clocks, still, outer, ghosts, Rest
<1>5. thread'[s].todo = DestroyOnly
  BY <1>2, <1>4, Going
<1>6. EraseD \notin Resetting /\ DestroyOnly \notin Resetting /\ DestroyOnly # ExistsR
  BY Apart
<1>7. EraseD \in NotChanged /\ DestroyOnly \in Todos
  BY TodoNames DEF NotChanged
<1>8. SameTimer(u)
  BY <1>4, KeepsTimer DEF HasTimer
<1>9. PeriodAt(u, s)' /\ ResetAt(u, s)'
  BY <1>1, <1>3, <1>5, <1>6, <1>8, PlainPeriod
<1>10. ChangedAt(u, s)'
  BY <1>1, <1>3, <1>4, <1>7, PlainChanged
<1>11. ~Known(u)'
  BY <1>2 DEF DestroyStrongAuthStateInfo, Known, Drop
<1>12. ToldAt(u, s)'
  BY <1>11 DEF ToldAt
<1> QED
  BY <1>5, <1>7, <1>9, <1>10, <1>12 DEF Kept, UserAt

LEMMA ReasonMine ==
  ASSUME SerialInv, NEW s, NEW u, Running(s, u), GetStrongAuthTimeTrigger(s)
  PROVE  Kept(s, u)
<1>1. TypeOK /\ thread[s].todo \in Todos /\ UserAt(u, s)
  BY SetUp
<1>2. s \in Sources /\ u \in Users /\ Here(s) = u /\ ThreadsOK
  BY <1>1 DEF Running, TypeOK
<1>3. thread[s].todo = ReasonS
  BY <1>1, TodoCases DEF GetStrongAuthTimeTrigger, At
<1>4. /\ UNCHANGED <<strongAuthStateInfo, strongAuthTimerInfo, timers, told, verified, changed, stops>>
      /\ \E f : thread' = [thread EXCEPT ![s].flag = f, ![s].todo = SetOnly]
  BY <1>3, TodoFacts
     DEF TodoTable, GetStrongAuthTimeTrigger, tables, clocks, still, outer, ghosts, Rest
<1>5. thread'[s].todo = SetOnly
  BY <1>2, <1>4 DEF ThreadsOK
<1>6. /\ ReasonS \notin Resetting /\ SetOnly \notin Resetting /\ SetOnly # ExistsR
      /\ ReasonS \notin Announcing /\ SetOnly \notin Announcing
  BY Apart, Silent
<1>7. ReasonS \in NotChanged /\ SetOnly \in Todos
  BY TodoNames DEF NotChanged
<1>8. SameTimer(u) /\ SameState(u)
  BY <1>4, KeepsTimer DEF HasTimer, SameState, Known
<1>9. PeriodAt(u, s)' /\ ResetAt(u, s)'
  BY <1>1, <1>3, <1>5, <1>6, <1>8, PlainPeriod
<1>10. ChangedAt(u, s)'
  BY <1>1, <1>3, <1>4, <1>7, PlainChanged
<1>11. ToldAt(u, s)'
  BY <1>1, <1>3, <1>4, <1>5, <1>6, <1>8, PlainTold
<1> QED
  BY <1>5, <1>7, <1>9, <1>10, <1>11 DEF Kept, UserAt

LEMMA ExistsMine ==
  ASSUME SerialInv, NEW s, NEW u, Running(s, u), IsUserExitInStrongAuthInfo(s)
  PROVE  Kept(s, u)
<1> DEFINE T == thread[s].todo
           R == IF Known(u) THEN Tail(T) ELSE <<>>
<1>1. TypeOK /\ T \in Todos /\ UserAt(u, s)
  BY SetUp
<1>2. s \in Sources /\ u \in Users /\ Here(s) = u /\ ThreadsOK
  BY <1>1 DEF Running, TypeOK
<1>3. T \in {ExistsR, ExistsED, ExistsSD}
  BY <1>1, TodoCases DEF IsUserExitInStrongAuthInfo, At
<1>4. /\ R = <<>> \/ (T = ExistsR /\ R = ResetOnly) \/ (T = ExistsED /\ R = EraseD)
                  \/ (T = ExistsSD /\ R = SetD)
      /\ ~Known(u) => R = <<>>
      /\ Known(u) /\ T = ExistsR => R = ResetOnly
  BY <1>3, TodoFacts DEF TodoTable
<1>5. /\ UNCHANGED <<strongAuthStateInfo, strongAuthTimerInfo, timers, told, verified, changed, stops>>
      /\ Goto(s, R)
  BY <1>2 DEF IsUserExitInStrongAuthInfo, tables, clocks, still, outer, ghosts, Rest
<1> HIDE DEF R
<1>6. thread'[s].todo = R /\ thread'[s].period = thread[s].period
  BY <1>2, <1>5, Going
<1>7. R \in Todos
  BY <1>4, TodoNames
<1>8. /\ T \notin Announcing /\ R \notin Announcing
  BY <1>3, <1>4, Silent
<1>9. T \notin Resetting
  <2>1. ExistsR \notin Resetting
    BY TodoClasses
  <2> QED
    BY <1>3, <2>1, Apart
<1>10. SameTimer(u) /\ SameState(u)
  BY <1>5, KeepsTimer DEF HasTimer, SameState, Known
<1>11. ToldAt(u, s)'
  BY <1>1, <1>5, <1>6, <1>8, <1>10, PlainTold
<1>12. CASE R = ResetOnly
  <2>1. T = ExistsR
    <3>1. ResetOnly # <<>> /\ ResetOnly # EraseD /\ ResetOnly # SetD
      BY TodoFacts, TodoClasses DEF TodoTable
    <3> QED
      BY <1>4, <1>12, <3>1
  <2>2. thread[s].period = Stages[1]
    BY <1>1, <2>1 DEF UserAt, ResetAt
  <2>3. ResetOnly \in Resetting /\ ResetOnly # ExistsR /\ ResetOnly \notin ReArming
        /\ ResetOnly # StampOnly
    BY TodoFacts, TodoNames, TodoClasses DEF TodoTable
  <2>4. PeriodAt(u, s)'
    BY <1>6, <1>12, <2>3 DEF PeriodAt
  <2>5. ResetAt(u, s)'
    BY <1>6, <1>12, <2>2, <2>3 DEF ResetAt
  <2>6. u \in changed /\ stops = 0 => Known(u)
    BY <1>1 DEF UserAt, ChangedAt
  <2>7. ChangedAt(u, s)'
    BY <1>5, <1>6, <1>12, <2>2, <2>6 DEF ChangedAt, RenewingAt, Known
  <2> QED
    BY <1>6, <1>7, <1>11, <2>4, <2>5, <2>7 DEF Kept, UserAt
<1>13. CASE R # ResetOnly
  <2>1. R \in {<<>>, EraseD, SetD}
    BY <1>4, <1>13
  <2>2. R \notin Resetting /\ R # ExistsR
    BY <2>1, Apart
  <2>3. PeriodAt(u, s)' /\ ResetAt(u, s)'
    BY <1>1, <1>6, <1>9, <1>10, <2>2, PlainPeriod
  <2>4. ChangedAt(u, s)'
    <3>1. CASE T \in NotChanged
      BY <1>1, <1>5, <3>1, PlainChanged
    <3>2. CASE T \notin NotChanged
      <4>1. T = ExistsR
        BY <1>3, <3>2 DEF NotChanged
      <4>2. ~Known(u)
        BY <1>4, <1>13, <4>1
      <4>3. ~(u \in changed /\ stops = 0)
        BY <1>1, <4>2 DEF UserAt, ChangedAt
      <4> QED
        BY <1>5, <4>3 DEF ChangedAt
    <3> QED
      BY <3>1, <3>2
  <2> QED
    BY <1>6, <1>7, <1>11, <2>3, <2>4 DEF Kept, UserAt
<1> QED
  BY <1>12, <1>13

LEMMA ResetMine ==
  ASSUME SerialInv, NEW s, NEW u, Running(s, u), ResetStrongAuthTimer(s)
  PROVE  Kept(s, u)
<1>1. TypeOK /\ thread[s].todo \in Todos /\ UserAt(u, s)
  BY SetUp
<1>2. s \in Sources /\ u \in Users /\ Here(s) = u /\ ThreadsOK
  BY <1>1 DEF Running, TypeOK
<1>3. thread[s].todo = ResetOnly
  BY <1>1, TodoCases DEF ResetStrongAuthTimer, At
<1>4. UNCHANGED <<strongAuthStateInfo, strongAuthTimerInfo, timers, told, verified, changed, stops>>
  BY DEF ResetStrongAuthTimer, tables, clocks, still, outer, ghosts
<1>5. SameTimer(u) /\ SameState(u)
  BY <1>4, KeepsTimer DEF HasTimer, SameState, Known
<1>6. ResetOnly \notin Announcing /\ ReArm \notin Announcing /\ StartOnly \notin Announcing
  BY Silent
<1>7. /\ ReArm \in Todos /\ StartOnly \in Todos /\ ReArm \in Resetting /\ ReArm # ExistsR
      /\ ReArm # StampOnly /\ ResetOnly \in Resetting
      /\ ResetOnly \notin LeavesTimer /\ ResetOnly # <<>>
      /\ ResetOnly \notin {ReArm, ArmStamp, StartOnly}
  BY TodoFacts, TodoNames, TodoClasses DEF TodoTable
<1>8. u \in changed /\ stops = 0 => Known(u) /\ thread[s].period = Stages[1]
  BY <1>1, <1>3, <1>7 DEF UserAt, ChangedAt, RenewingAt, RenewedAt
<1>9. CASE HasTimer(u)
  <2>1. thread' = [thread EXCEPT ![s].id = InfoOf(u).timerId, ![s].todo = ReArm]
    <3>1. ReArm \o Tail(ResetOnly) = ReArm
      BY TodoFacts, Zenon DEF TodoTable
    <3> QED
      BY <1>2, <1>3, <1>9, <3>1, Zenon DEF ResetStrongAuthTimer, Rest, InfoOf
  <2>2. /\ thread'[s].todo = ReArm /\ thread'[s].id = InfoOf(u).timerId
        /\ thread'[s].period = thread[s].period
    BY <1>2, <2>1 DEF ThreadsOK
  <2>3. PeriodAt(u, s)'
    BY <1>7, <2>2 DEF PeriodAt
  <2>4. thread[s].period \in {InfoOf(u).triggerPeriod, Stages[1]}
    BY <1>1, <1>3, <1>7, <1>9 DEF UserAt, ResetAt
  <2>5. ResetAt(u, s)'
    BY <1>5, <1>7, <1>9, <2>2, <2>4 DEF ResetAt, SameTimer
  <2>6. ToldAt(u, s)'
    BY <1>1, <1>3, <1>4, <1>5, <1>6, <2>2, PlainTold
  <2>7. ChangedAt(u, s)'
    BY <1>4, <1>5, <1>8, <1>9, <2>2 DEF ChangedAt, RenewingAt, SameTimer, SameState
  <2> QED
    BY <1>7, <2>2, <2>3, <2>5, <2>6, <2>7 DEF Kept, UserAt
<1>10. CASE ~HasTimer(u)
  <2>1. Goto(s, StartOnly)
    BY <1>2, <1>3, <1>10, TodoFacts DEF TodoTable, ResetStrongAuthTimer, Rest
  <2>2. thread'[s].todo = StartOnly /\ thread'[s].period = thread[s].period
    BY <1>2, <2>1, Going
  <2>3. ~HasTimer(u)'
    BY <1>5, <1>10 DEF SameTimer
  <2>4. StartOnly # ExistsR
    BY Apart
  <2>5. PeriodAt(u, s)' /\ ResetAt(u, s)'
    BY <2>2, <2>3, <2>4 DEF PeriodAt, ResetAt
  <2>6. ToldAt(u, s)'
    BY <1>1, <1>3, <1>4, <1>5, <1>6, <2>2, PlainTold
  <2>7. ChangedAt(u, s)'
    BY <1>4, <1>5, <1>8, <2>2, <2>3 DEF ChangedAt, RenewingAt, SameState
  <2> QED
    BY <1>7, <2>2, <2>5, <2>6, <2>7 DEF Kept, UserAt
<1> QED
  BY <1>9, <1>10

\* The first period is the shortest.
LEMMA FirstPeriod ==
  /\ Stages[1] \in Nat /\ Stages[1] <= Stages[1]
  /\ \A p \in Periods : p \in Nat /\ p + 0 = p /\ Stages[1] <= p
<1>1. /\ Len(Stages) \in Nat \ {0}
      /\ \A i \in 1..Len(Stages) : Stages[i] \in Nat /\ Stages[i] < Default
  BY StagesAssumption
<1>2. Stages[1] \in Nat /\ Stages[1] <= Default
  BY <1>1, BoundAssumption
<1>3. ASSUME NEW i \in 1..Len(Stages) PROVE Stages[1] <= Stages[i]
  BY <1>1, <1>2, StagesAssumption
<1> QED
  BY <1>1, <1>2, <1>3, BoundAssumption DEF Periods

\* What the resetting todos are not.
LEMMA ResettingApart ==
  /\ {ResetOnly, ReArm, ArmStamp, StampOnly} \subseteq Todos \cap Resetting
  /\ ReArm \in ReArming /\ ArmStamp \in ReArming /\ StampOnly \in ReArming
  /\ ResetOnly \notin ReArming
  /\ \A T \in {ResetOnly, ReArm, ArmStamp} : T # StampOnly /\ T # StartOnly /\ T \notin LeavesTimer
  /\ \A T \in {ResetOnly, ReArm, ArmStamp, StampOnly} : T # ExistsR /\ T # <<>>
  /\ StampOnly \in LeavesTimer /\ ReArm # ArmStamp
BY TodoFacts, TodoNames, TodoClasses DEF TodoTable

LEMMA TriggerMine ==
  ASSUME SerialInv, NEW s, NEW u, Running(s, u), GetStrongAuthTriggerPeriod(s)
  PROVE  Kept(s, u)
<1>1. TypeOK /\ thread[s].todo \in Todos /\ UserAt(u, s) /\ TableInv
  BY SetUp
<1>2. s \in Sources /\ u \in Users /\ Here(s) = u /\ ThreadsOK
  BY <1>1 DEF Running, TypeOK
<1>3. thread[s].todo = TriggerR
  BY <1>1, TodoCases DEF GetStrongAuthTriggerPeriod, At
<1> DEFINE over == HasTimer(u) /\ StageOver(strongAuthTimerInfo[u])
           p == IF ~HasTimer(u) THEN Default
                ELSE IF over THEN NextPeriod(strongAuthTimerInfo[u].triggerPeriod)
                ELSE strongAuthTimerInfo[u].triggerPeriod
<1>4. UNCHANGED <<strongAuthStateInfo, timers, told, verified, changed, stops>>
  BY DEF GetStrongAuthTriggerPeriod, clocks, still, outer, ghosts
<1>5. /\ strongAuthTimerInfo' =
           IF over THEN [strongAuthTimerInfo EXCEPT ![u].triggerPeriod = p, ![u].age = 0]
           ELSE strongAuthTimerInfo
      /\ thread' = [thread EXCEPT ![s].period = p, ![s].todo = ResetOnly]
  <2>1. Tail(TriggerR) = ResetOnly
    BY TodoFacts, Zenon DEF TodoTable
  <2> QED
    BY <1>2, <1>3, <2>1, Zenon DEF GetStrongAuthTriggerPeriod, Rest
<1>6. (~over /\ HasTimer(u) => p = strongAuthTimerInfo[u].triggerPeriod)
      /\ (over => HasTimer(u))
  OBVIOUS
<1> HIDE DEF over, p
<1>7. thread'[s].todo = ResetOnly /\ thread'[s].period = p
  BY <1>2, <1>5 DEF ThreadsOK
<1>8. HasTimer(u)' => InfoOf(u)'.triggerPeriod = p
  <2>1. CASE over
    <3>1. strongAuthTimerInfo \in [DOMAIN strongAuthTimerInfo -> Info]
      BY <1>1, TableTypes
    <3> QED
      BY <1>5, <1>6, <2>1, <3>1 DEF HasTimer, InfoOf, Info
  <2>2. CASE ~over
    BY <1>5, <1>6, <2>2 DEF HasTimer, InfoOf
  <2> QED
    BY <2>1, <2>2
<1>9. PeriodAt(u, s)'
  BY <1>7, ResettingApart DEF PeriodAt
<1>10. ResetAt(u, s)'
  BY <1>7, <1>8, ResettingApart DEF ResetAt
<1>11. SameState(u)
  BY <1>4 DEF SameState, Known
<1>12. TriggerR \notin Announcing /\ ResetOnly \notin Announcing /\ TriggerR \in NotChanged
  BY Silent DEF NotChanged
<1>13. ToldAt(u, s)'
  BY <1>1, <1>3, <1>4, <1>7, <1>11, <1>12, PlainTold
<1>14. ChangedAt(u, s)'
  BY <1>1, <1>3, <1>4, <1>12, PlainChanged
<1> QED
  BY <1>7, <1>9, <1>10, <1>13, <1>14, ResettingApart DEF Kept, UserAt

LEMMA StopMine ==
  ASSUME SerialInv, NEW s, NEW u, Running(s, u), StopTimer(s)
  PROVE  Kept(s, u)
<1>1. TypeOK /\ thread[s].todo \in Todos /\ UserAt(u, s)
  BY SetUp
<1>2. s \in Sources /\ u \in Users /\ Here(s) = u /\ ThreadsOK
  BY <1>1 DEF Running, TypeOK
<1>3. thread[s].todo = ReArm
  BY <1>1, TodoCases DEF StopTimer, At
<1>4. /\ UNCHANGED <<strongAuthStateInfo, strongAuthTimerInfo, told, verified, changed, stops>>
      /\ Goto(s, ArmStamp)
  BY <1>3, TodoFacts DEF TodoTable, StopTimer, tables, still, outer, ghosts, Rest
<1>5. thread'[s].todo = ArmStamp /\ thread'[s].period = thread[s].period
      /\ thread'[s].id = thread[s].id
  BY <1>2, <1>4, Going
<1>6. /\ HasTimer(u)' <=> HasTimer(u)
      /\ InfoOf(u)' = InfoOf(u) /\ SameState(u)
  BY <1>4 DEF HasTimer, InfoOf, SameState, Known
<1>7. PeriodAt(u, s)'
  BY <1>5, ResettingApart DEF PeriodAt
<1>8. ResetAt(u, s)'
  <2>1. HasTimer(u) => /\ thread[s].period \in {InfoOf(u).triggerPeriod, Stages[1]}
                       /\ thread[s].id = InfoOf(u).timerId
    BY <1>1, <1>3, ResettingApart DEF UserAt, ResetAt
  <2> QED
    BY <1>5, <1>6, <2>1, ResettingApart DEF ResetAt
<1>9. ToldAt(u, s)'
  BY <1>1, <1>3, <1>4, <1>5, <1>6, Silent, PlainTold
<1>10. ChangedAt(u, s)'
  <2>1. u \in changed /\ stops = 0 => Known(u) /\ thread[s].period = Stages[1] /\ HasTimer(u)
    BY <1>1, <1>3, ResettingApart DEF UserAt, ChangedAt, RenewingAt, RenewedAt
  <2> QED
    BY <1>4, <1>5, <1>6, <2>1 DEF ChangedAt, RenewingAt, SameState
<1> QED
  BY <1>5, <1>7, <1>8, <1>9, <1>10, ResettingApart DEF Kept, UserAt

LEMMA ArmMine ==
  ASSUME SerialInv, NEW s, NEW u, Running(s, u), StartTimer(s)
  PROVE  Kept(s, u)
<1>1. TypeOK /\ thread[s].todo \in Todos /\ UserAt(u, s) /\ TableInv
  BY SetUp
<1>2. s \in Sources /\ u \in Users /\ Here(s) = u /\ ThreadsOK
  BY <1>1 DEF Running, TypeOK
<1>3. thread[s].todo = ArmStamp
  BY <1>1, TodoCases DEF StartTimer, At
<1>4. /\ UNCHANGED <<strongAuthStateInfo, strongAuthTimerInfo, told, verified, changed, stops>>
      /\ Goto(s, StampOnly)
  BY <1>3, TodoFacts DEF TodoTable, StartTimer, tables, still, outer, ghosts, Rest
<1>5. thread'[s].todo = StampOnly /\ thread'[s].period = thread[s].period
      /\ thread'[s].id = thread[s].id
  BY <1>2, <1>4, Going
<1>6. /\ HasTimer(u)' <=> HasTimer(u)
      /\ InfoOf(u)' = InfoOf(u) /\ SameState(u)
  BY <1>4 DEF HasTimer, InfoOf, SameState, Known
<1>7. HasTimer(u) => /\ thread[s].period \in {InfoOf(u).triggerPeriod, Stages[1]}
                     /\ thread[s].id = InfoOf(u).timerId
  BY <1>1, <1>3, ResettingApart DEF UserAt, ResetAt
<1>8. HasTimer(u) => LeftOf(u)' = thread[s].period
  <2> SUFFICES ASSUME HasTimer(u) PROVE LeftOf(u)' = thread[s].period
    OBVIOUS
  <2> DEFINE i == InfoOf(u).timerId
  <2>1. i \in DOMAIN timers /\ timers[i] \in Clock
    BY <1>1, TimerOf DEF HasTimer
  <2>2. timers' = [timers EXCEPT ![i].left = thread[s].period]
    BY <1>7, <2>1 DEF StartTimer
  <2>3. timers'[i].left = thread[s].period
    BY <2>1, <2>2 DEF Clock
  <2>4. LeftOf(u)' = timers'[i].left
    BY <1>6 DEF LeftOf
  <2> QED
    BY <2>3, <2>4
<1>9. PeriodAt(u, s)'
  BY <1>5, ResettingApart DEF PeriodAt
<1>10. ResetAt(u, s)'
  BY <1>5, <1>6, <1>7, <1>8, ResettingApart DEF ResetAt
<1>11. ToldAt(u, s)'
  BY <1>1, <1>3, <1>4, <1>5, <1>6, Silent, PlainTold
<1>12. ChangedAt(u, s)'
  <2>1. u \in changed /\ stops = 0 => Known(u) /\ thread[s].period = Stages[1] /\ HasTimer(u)
    BY <1>1, <1>3, ResettingApart DEF UserAt, ChangedAt, RenewingAt, RenewedAt
  <2>2. Stages[1] <= Stages[1]
    BY FirstPeriod
  <2> QED
    BY <1>4, <1>5, <1>6, <1>8, <2>1, <2>2, ResettingApart DEF ChangedAt, RenewedAt, SameState
<1> QED
  BY <1>5, <1>9, <1>10, <1>11, <1>12, ResettingApart DEF Kept, UserAt

\* Once nothing is left of a callback, the rest of the invariant is about the
\* timer and the state alone.
LEMMA DoneFacts ==
  /\ <<>> \in Todos /\ <<>> \notin Resetting /\ <<>> \notin ReArming /\ <<>> \notin Announcing
  /\ <<>> # ExistsR /\ <<>> # StampOnly
<1>1. <<>> \notin Resetting /\ <<>> # ExistsR
  BY Apart
<1>2. <<>> \notin Announcing
  BY Silent
<1> QED
  BY <1>1, <1>2, TodoNames, ResettingApart DEF Resetting

LEMMA StampMine ==
  ASSUME SerialInv, NEW s, NEW u, Running(s, u), SetCredChangeTriggerPeriod(s)
  PROVE  Kept(s, u)
<1>1. TypeOK /\ thread[s].todo \in Todos /\ UserAt(u, s) /\ TableInv
  BY SetUp
<1>2. s \in Sources /\ u \in Users /\ Here(s) = u /\ ThreadsOK /\ thread[s].period \in Periods
  BY <1>1 DEF Running, TypeOK, ThreadsOK
<1>3. thread[s].todo = StampOnly
  BY <1>1, TodoCases DEF SetCredChangeTriggerPeriod, At
<1>4. /\ UNCHANGED <<strongAuthStateInfo, timers, told, verified, changed, stops>>
      /\ Goto(s, <<>>)
  BY <1>3, TodoFacts DEF TodoTable, SetCredChangeTriggerPeriod, clocks, still, outer, ghosts, Rest
<1>5. thread'[s].todo = <<>>
  BY <1>2, <1>4, Going
<1>6. /\ HasTimer(u)' <=> HasTimer(u)
      /\ HasTimer(u) => /\ InfoOf(u)'.triggerPeriod = thread[s].period /\ InfoOf(u)'.age = 0
                        /\ LeftOf(u)' = LeftOf(u)
  <2>1. strongAuthTimerInfo \in [DOMAIN strongAuthTimerInfo -> Info]
    BY <1>1, TableTypes
  <2>2. CASE HasTimer(u)
    <3>1. strongAuthTimerInfo' =
            [strongAuthTimerInfo EXCEPT ![u].triggerPeriod = thread[s].period, ![u].age = 0]
      BY <1>2, <2>2 DEF SetCredChangeTriggerPeriod
    <3> DEFINE p == thread[s].period
    <3> HIDE DEF p
    <3>2. strongAuthTimerInfo' =
            [strongAuthTimerInfo EXCEPT ![u].triggerPeriod = p, ![u].age = 0]
      BY <3>1 DEF p
    <3>3. /\ DOMAIN strongAuthTimerInfo' = DOMAIN strongAuthTimerInfo
          /\ strongAuthTimerInfo'[u].triggerPeriod = p /\ strongAuthTimerInfo'[u].age = 0
          /\ strongAuthTimerInfo'[u].timerId = strongAuthTimerInfo[u].timerId
      BY <2>1, <2>2, <3>2 DEF HasTimer, Info
    <3> QED
      BY <1>4, <3>3 DEF HasTimer, InfoOf, LeftOf, p
  <2>3. CASE ~HasTimer(u)
    BY <1>2, <2>3 DEF SetCredChangeTriggerPeriod, HasTimer
  <2> QED
    BY <2>2, <2>3
<1>7. HasTimer(u) => LeftOf(u) = thread[s].period
  BY <1>1, <1>3 DEF UserAt, ResetAt
<1>8. PeriodAt(u, s)'
  <2>1. thread[s].period + 0 = thread[s].period
    BY <1>2, FirstPeriod
  <2> QED
    BY <1>6, <1>7, <2>1 DEF PeriodAt
<1>9. ResetAt(u, s)'
  BY <1>5, DoneFacts DEF ResetAt
<1>10. SameState(u)
  BY <1>4 DEF SameState, Known
<1>11. ToldAt(u, s)'
  BY <1>1, <1>3, <1>4, <1>5, <1>10, Silent, DoneFacts, PlainTold
<1>12. ChangedAt(u, s)'
  <2>1. StampOnly \notin {ExistsR, ResetOnly, ReArm, ArmStamp, StartOnly}
    BY TodoFacts DEF TodoTable
  <2>2. u \in changed /\ stops = 0 => Known(u) /\ HasTimer(u) /\ LeftOf(u) <= Stages[1]
    BY <1>1, <1>3, <2>1 DEF UserAt, ChangedAt, RenewingAt, RenewedAt
  <2> QED
    BY <1>4, <1>5, <1>6, <1>10, <2>2 DEF ChangedAt, RenewedAt, SameState
<1> QED
  BY <1>5, <1>8, <1>9, <1>11, <1>12, DoneFacts DEF Kept, UserAt

LEMMA StartMine ==
  ASSUME SerialInv, NEW s, NEW u, Running(s, u), StartStrongAuthTimer(s)
  PROVE  Kept(s, u)
<1>1. TypeOK /\ thread[s].todo \in Todos /\ UserAt(u, s) /\ TableInv
  BY SetUp
<1>2. s \in Sources /\ u \in Users /\ Here(s) = u /\ ThreadsOK /\ thread[s].period \in Periods
  BY <1>1 DEF Running, TypeOK, ThreadsOK
<1>3. thread[s].todo = StartOnly
  BY <1>1, TodoCases DEF StartStrongAuthTimer, At
<1>4. /\ UNCHANGED <<strongAuthStateInfo, told, verified, changed, stops>> /\ Goto(s, <<>>)
  BY <1>3, TodoFacts DEF TodoTable, StartStrongAuthTimer, still, outer, ghosts, Rest
<1>5. thread'[s].todo = <<>>
  BY <1>2, <1>4, Going
<1>6. ResetAt(u, s)'
  BY <1>5, DoneFacts DEF ResetAt
<1>7. SameState(u)
  BY <1>4 DEF SameState, Known
<1>8. ToldAt(u, s)'
  BY <1>1, <1>3, <1>4, <1>5, <1>7, Silent, DoneFacts, PlainTold
<1>9. StartOnly \notin Resetting /\ StartOnly \in LeavesTimer
  BY TodoNames, Apart
<1>10. CASE HasTimer(u)
  <2>1. SameTimer(u)
    BY <1>2, <1>10, KeepsTimer DEF StartStrongAuthTimer, TimerExists, clocks, HasTimer
  <2>2. PeriodAt(u, s)'
    BY <1>1, <1>3, <1>5, <1>9, <2>1, DoneFacts, PlainPeriod
  <2>3. ChangedAt(u, s)'
    BY <1>1, <1>3, <1>4, <1>5, <1>7, <1>9, <1>10, <2>1, PlainRenewed DEF SameState
  <2> QED
    BY <1>5, <1>6, <1>8, <2>2, <2>3, DoneFacts DEF Kept, UserAt
<1>11. CASE ~HasTimer(u)
  <2> DEFINE p == thread[s].period
             c == created + 1
  <2>1. /\ timers' = Put(timers, c, [user |-> u, left |-> p])
        /\ strongAuthTimerInfo' =
             Put(strongAuthTimerInfo, u, [timerId |-> c, triggerPeriod |-> p, age |-> 0])
    BY <1>2, <1>11 DEF StartStrongAuthTimer, TimerExists
  <2>2. /\ HasTimer(u)' /\ InfoOf(u)'.timerId = c /\ InfoOf(u)'.triggerPeriod = p
        /\ InfoOf(u)'.age = 0 /\ timers'[c].left = p
    BY <2>1 DEF HasTimer, InfoOf, Put
  <2>3. LeftOf(u)' = p
    BY <2>2 DEF LeftOf
  <2>4. PeriodAt(u, s)'
    <3>1. p + 0 = p
      BY <1>2, FirstPeriod
    <3> QED
      BY <2>2, <2>3, <3>1 DEF PeriodAt
  <2>5. u \in changed /\ stops = 0 => Known(u) /\ p = Stages[1]
    BY <1>1, <1>11 DEF UserAt, ChangedAt, RenewingAt, RenewedAt
  <2>6. ChangedAt(u, s)'
    BY <1>4, <1>5, <1>7, <2>2, <2>3, <2>5, FirstPeriod DEF ChangedAt, RenewedAt, SameState
  <2> QED
    BY <1>5, <1>6, <1>8, <2>4, <2>6, DoneFacts DEF Kept, UserAt
<1> QED
  BY <1>10, <1>11

LEMMA DestroyMine ==
  ASSUME SerialInv, NEW s, NEW u, Running(s, u), DestroyStrongAuthTimer(s)
  PROVE  Kept(s, u)
<1>1. TypeOK /\ thread[s].todo \in Todos /\ UserAt(u, s)
  BY SetUp
<1>2. s \in Sources /\ u \in Users /\ Here(s) = u /\ ThreadsOK
  BY <1>1 DEF Running, TypeOK
<1>3. thread[s].todo = DestroyOnly
  BY <1>1, TodoCases DEF DestroyStrongAuthTimer, At
<1>4. /\ UNCHANGED <<strongAuthStateInfo, told, verified, changed, stops>> /\ Goto(s, <<>>)
  BY <1>3, TodoFacts DEF TodoTable, DestroyStrongAuthTimer, still, outer, ghosts, Rest
<1>5. thread'[s].todo = <<>>
  BY <1>2, <1>4, Going
<1>6. ~HasTimer(u)'
  BY <1>2 DEF DestroyStrongAuthTimer, HasTimer, Drop
<1>7. PeriodAt(u, s)' /\ ResetAt(u, s)'
  BY <1>5, <1>6, DoneFacts DEF PeriodAt, ResetAt
<1>8. SameState(u)
  BY <1>4 DEF SameState, Known
<1>9. ToldAt(u, s)'
  BY <1>1, <1>3, <1>4, <1>5, <1>8, Silent, DoneFacts, PlainTold
<1>10. ChangedAt(u, s)'
  BY <1>1, <1>3, <1>4, PlainChanged DEF NotChanged
<1> QED
  BY <1>5, <1>7, <1>9, <1>10, DoneFacts DEF Kept, UserAt

LEMMA SectionMine ==
  ASSUME SerialInv, NEW s, NEW u, Running(s, u), Section(s) PROVE Kept(s, u)
BY SetMine, NotifyMine, InitMine, TriggerMine, ResetMine, StopMine, ArmMine, StampMine, StartMine,
   ExistsMine, EraseMine, DestroyMine, ReasonMine DEF Section

LEMMA SectionSerial ==
  ASSUME SerialInv, ArmedInv', NEW s \in Sources, Section(s) PROVE SerialInv'
<1>1. TypeOK /\ TableInv /\ ArmedInv
  BY DEF SerialInv, ArmedInv, TableInv
<1>2. thread[s].todo # <<>>
  BY DEF Section, SetStrongAuthStat, NotifyStrongAuthChange, InitStrongAuthStat,
     GetStrongAuthTriggerPeriod, ResetStrongAuthTimer, StopTimer, StartTimer,
     SetCredChangeTriggerPeriod, StartStrongAuthTimer, IsUserExitInStrongAuthInfo,
     DestroyStrongAuthStateInfo, DestroyStrongAuthTimer, GetStrongAuthTimeTrigger, At
<1>3. Here(s) \in Users
  BY <1>1, <1>2, TodoTypes DEF TypeOK
<1>4. PICK u \in Users : Here(s) = u
  BY <1>3
<1>5. Running(s, u)
  BY <1>2, <1>4 DEF Running
<1>6. NoOther(u, s)
  BY <1>5, SetUp
<1>7. OnlyStep(s, u)
  BY <1>1, <1>4, SectionStep DEF OnlyStep, Proceeds, Here
<1>8. Kept(s, u)
  BY <1>5, SectionMine
<1>9. \A w \in Users : w # u => SameTimer(w) /\ SameState(w) /\ SameOthers(w)
  BY <1>1, <1>4, StateElsewhere, TimerElsewhere
<1> QED
  BY <1>6, <1>7, <1>8, <1>9, Together DEF Kept

-----------------------------------------------------------------------------
(* A callback begins.                                                      *)

\* What holds of a user without callbacks.
LEMMA AtRest ==
  ASSUME SerialInv, NEW u \in Users, Quiet(u)
  PROVE  /\ HasTimer(u) /\ InfoOf(u).age < InfoOf(u).triggerPeriod
              => LeftOf(u) + InfoOf(u).age = InfoOf(u).triggerPeriod
         /\ Known(u) /\ strongAuthStateInfo[u] = "NONE" /\ verified[u] => told[u] = "NONE"
         /\ u \in changed /\ stops = 0 => Known(u) /\ HasTimer(u) /\ LeftOf(u) <= Stages[1]
<1>1. Callbacks(u) = {}
  BY DEF Callbacks, Quiet, Here
<1>2. PeriodInv(u) /\ ToldInv(u) /\ ChangedInv(u)
  BY DEF SerialInv
<1> QED
  BY <1>1, <1>2 DEF PeriodInv, ToldInv, ChangedInv, Renewing, Renewed

\* What a callback that begins finds, and leaves.
Begun(s, u, flag, p, todo) ==
  /\ Quiet(u) /\ NoOther(u, s) /\ OnlyStep(s, u)
  /\ thread'[s].todo = todo /\ thread'[s].period = p /\ thread'[s].flag = flag

LEMMA BeginAlone ==
  ASSUME SerialInv, Serial, NEW s \in Sources, NEW u, NEW flag, NEW p, NEW todo,
         Begin(s, u, flag, p, todo)
  PROVE  Begun(s, u, flag, p, todo)
<1>1. thread \in [Sources -> [user : Users \cup {"nobody"}, flag : Flags, period : Periods,
                              id : 0..MaxTimers, todo : Seq(Ops)]]
  BY DEF SerialInv, ArmedInv, TableInv, TypeOK, ThreadsOK
<1>2. thread'[s] = [user |-> u, flag |-> flag, period |-> p, id |-> 0, todo |-> todo]
      /\ \A r \in Sources : r # s => thread'[r] = thread[r]
  BY <1>1 DEF Begin
<1>3. Quiet(u) /\ thread[s].todo = <<>>
  BY DEF Begin
<1> QED
  BY <1>2, <1>3 DEF Begun, OnlyStep, NoOther, Quiet, Here

Firsts == {SetTR, ExistsR, ExistsED, ExistsSD, SetOnly, NotifyOnly, ReasonS, InitS, InitOnly}

LEMMA FirstFacts ==
  /\ \A T \in Firsts : T \in Todos /\ T \notin Resetting /\ T \notin ReArming /\ T # StampOnly
  /\ \A T \in Firsts \ {NotifyOnly} : T \notin Announcing
<1>1. ExistsR \notin Resetting
  BY TodoClasses
<1>2. \A T \in Firsts : T \notin Resetting
  BY <1>1, Apart DEF Firsts
<1>3. \A T \in Resetting : T \in Resetting
  OBVIOUS
<1>4. \A T \in Firsts \ {NotifyOnly} : T \notin Announcing
  BY Silent DEF Firsts
<1>5. \A T \in Firsts : T \in Todos
  BY TodoNames DEF Firsts
<1> QED
  BY <1>2, <1>4, <1>5, ResettingApart DEF Resetting

\* A callback that begins has changed neither the tables nor the timers.
LEMMA BeginSerial ==
  ASSUME SerialInv, Serial, ArmedInv', NEW s \in Sources, NEW u \in Users, NEW flag, NEW p,
         NEW todo \in Firsts, Begin(s, u, flag, p, todo),
         UNCHANGED <<strongAuthStateInfo, strongAuthTimerInfo, timers, told, stops>>,
         \A w \in Users : w # u => SameOthers(w),
         todo = ExistsR => p = Stages[1],
         (todo = NotifyOnly /\ flag = "NONE") \/ verified'[u] = verified[u],
         todo = NotifyOnly => flag = "NONE",
         u \in changed' => \/ u \in changed /\ todo \in LeavesTimer
                           \/ todo = ExistsR /\ (Known(u) \/ u \in changed)
  PROVE  SerialInv'
<1>1. /\ Quiet(u) /\ NoOther(u, s) /\ OnlyStep(s, u)
      /\ thread'[s].todo = todo /\ thread'[s].period = p /\ thread'[s].flag = flag
  <2>1. Begun(s, u, flag, p, todo)
    BY BeginAlone
  <2> QED
    BY <2>1 DEF Begun
<1>2. \A w : SameTimer(w) /\ SameState(w)
  BY DEF SameTimer, SameState, HasTimer, Known, InfoOf, LeftOf
<1>3. /\ HasTimer(u) /\ InfoOf(u).age < InfoOf(u).triggerPeriod
           => LeftOf(u) + InfoOf(u).age = InfoOf(u).triggerPeriod
      /\ Known(u) /\ strongAuthStateInfo[u] = "NONE" /\ verified[u] => told[u] = "NONE"
      /\ u \in changed /\ stops = 0 => Known(u) /\ HasTimer(u) /\ LeftOf(u) <= Stages[1]
  BY <1>1, AtRest
<1>4. PeriodAt(u, s)'
  BY <1>2, <1>3 DEF PeriodAt, SameTimer
<1>5. ResetAt(u, s)'
  BY <1>1, FirstFacts DEF ResetAt
<1>6. ToldAt(u, s)'
  <2>1. CASE todo = NotifyOnly
    BY <1>1, <2>1 DEF ToldAt, Announcing
  <2>2. CASE todo # NotifyOnly
    BY <1>1, <1>2, <1>3, <2>2, FirstFacts DEF ToldAt, SameState
  <2> QED
    BY <2>1, <2>2
<1>7. ChangedAt(u, s)'
  <2>1. ASSUME u \in changed, todo \in LeavesTimer PROVE ChangedAt(u, s)'
    BY <1>1, <1>2, <1>3, <2>1 DEF ChangedAt, RenewedAt, SameTimer, SameState
  <2>2. ASSUME todo = ExistsR, Known(u) \/ u \in changed PROVE ChangedAt(u, s)'
    BY <1>1, <1>2, <1>3, <2>2 DEF ChangedAt, RenewingAt, SameTimer, SameState
  <2>3. ASSUME u \notin changed' PROVE ChangedAt(u, s)'
    BY <2>3 DEF ChangedAt
  <2> QED
    BY <2>1, <2>2, <2>3
<1> QED
  BY <1>1, <1>2, <1>4, <1>5, <1>6, <1>7, FirstFacts, Together DEF UserAt

LEMMA FirstNames ==
  /\ <<"set", "trigger", "reset">> = SetTR /\ <<"exists", "reset">> = ExistsR
  /\ <<"exists", "erase", "destroy">> = ExistsED /\ <<"exists", "set", "destroy">> = ExistsSD
  /\ <<"set">> = SetOnly /\ <<"notify">> = NotifyOnly /\ <<"reason", "set">> = ReasonS
  /\ <<"init", "start">> = InitS /\ <<"init">> = InitOnly
BY Zenon DEF SetTR, ExistsR, ExistsED, ExistsSD, SetOnly, NotifyOnly, ReasonS, InitS, InitOnly

LEMMA FirstApart ==
  /\ {SetOnly, NotifyOnly, InitS, InitOnly} \subseteq LeavesTimer
  /\ \A T \in Firsts \ {ExistsR} : T # ExistsR
  /\ \A T \in {SetTR, ExistsED, ExistsSD, SetOnly, ReasonS, InitS, InitOnly} :
       T # ExistsR /\ T # NotifyOnly
  /\ ExistsR # NotifyOnly
BY TodoNames, TodoFacts DEF TodoTable, Firsts

LEMMA AuthSerial ==
  ASSUME SerialInv, Serial, ArmedInv', NEW u \in Users, OnNotifyAuthSuccessEvent(u)
  PROVE  SerialInv'
<1>1. /\ Begin("auth", u, "NONE", Default, SetTR)
      /\ UNCHANGED <<strongAuthStateInfo, strongAuthTimerInfo, timers, told, stops, verified>>
      /\ changed' = changed \ {u}
  BY FirstNames DEF OnNotifyAuthSuccessEvent, tables, clocks, outer
<1>2. \A w \in Users : SameOthers(w)
  BY <1>1 DEF SameOthers
<1>3. "auth" \in Sources /\ SetTR \in Firsts
  BY DEF Sources, Firsts
<1> QED
  BY <1>1, <1>2, <1>3, FirstApart, BeginSerial

LEMMA CredSerial ==
  ASSUME SerialInv, Serial, ArmedInv', NEW u \in Users, CredChanged(u)
  PROVE  SerialInv'
<1>1. /\ Begin("cred", u, "NONE", Stages[1], ExistsR)
      /\ UNCHANGED <<strongAuthStateInfo, strongAuthTimerInfo, timers, told, stops, verified>>
      /\ changed' = IF Known(u) THEN changed \cup {u} ELSE changed
  BY FirstNames DEF CredChanged, tables, clocks
<1>2. \A w \in Users : w # u => SameOthers(w)
  BY <1>1 DEF SameOthers
<1>3. "cred" \in Sources /\ ExistsR \in Firsts
  BY DEF Sources, Firsts
<1>4. u \in changed' => Known(u) \/ u \in changed
  BY <1>1
<1> QED
  BY <1>1, <1>2, <1>3, <1>4, FirstApart, BeginSerial

LEMMA DeletedSerial ==
  ASSUME SerialInv, Serial, ArmedInv', NEW u \in Users, NEW b \in BOOLEAN, CredDeleted(u, b)
  PROVE  SerialInv'
<1>1. /\ Begin("cred", u, "NONE", Default, IF b THEN ExistsED ELSE ExistsSD)
      /\ UNCHANGED <<strongAuthStateInfo, strongAuthTimerInfo, timers, told, stops, verified>>
      /\ changed' = changed \ {u}
  <2>1. <<"exists", IF b THEN "erase" ELSE "set", "destroy">> = IF b THEN ExistsED ELSE ExistsSD
    <3>1. CASE b
      BY <3>1, FirstNames, Zenon
    <3>2. CASE ~b
      BY <3>2, FirstNames, Zenon
    <3> QED
      BY <3>1, <3>2
  <2> QED
    BY <2>1, Zenon DEF CredDeleted, tables, clocks
<1>2. \A w \in Users : SameOthers(w)
  BY <1>1 DEF SameOthers
<1>3. "cred" \in Sources /\ ExistsED \in Firsts /\ ExistsSD \in Firsts
  BY DEF Sources, Firsts
<1>4. PICK todo \in {ExistsED, ExistsSD} : Begin("cred", u, "NONE", Default, todo)
  BY <1>1
<1> QED
  BY <1>1, <1>2, <1>3, <1>4, FirstApart, BeginSerial

LEMMA InfoSerial ==
  ASSUME SerialInv, Serial, ArmedInv', NEW u \in Users, NEW b \in BOOLEAN, OnCredentialInfo(u, b)
  PROVE  SerialInv'
<1>1. /\ \E flag : \E todo \in {InitS, InitOnly} : Begin("info", u, flag, Default, todo)
      /\ UNCHANGED <<strongAuthStateInfo, strongAuthTimerInfo, timers, told, stops, verified>>
      /\ changed' = changed
  BY FirstNames DEF OnCredentialInfo, tables, clocks
<1>2. \A w \in Users : SameOthers(w)
  BY <1>1 DEF SameOthers
<1>3. "info" \in Sources /\ InitS \in Firsts /\ InitOnly \in Firsts
  BY DEF Sources, Firsts
<1>4. PICK flag : \E todo \in {InitS, InitOnly} : Begin("info", u, flag, Default, todo)
  BY <1>1
<1>5. PICK todo \in {InitS, InitOnly} : Begin("info", u, flag, Default, todo)
  BY <1>4
<1>6. todo \in Firsts /\ todo \in LeavesTimer /\ todo # ExistsR /\ todo # NotifyOnly
  BY <1>3, FirstApart
<1> QED
  BY <1>1, <1>2, <1>3, <1>5, <1>6, BeginSerial

LEMMA RequestSerial ==
  ASSUME SerialInv, Serial, ArmedInv', NEW u \in Users, NEW flag, RequestStrongAuth(u, flag)
  PROVE  SerialInv'
<1>1. /\ Begin("request", u, flag, Default, SetOnly)
      /\ UNCHANGED <<strongAuthStateInfo, strongAuthTimerInfo, timers, told, stops, verified>>
      /\ changed' = changed
  BY FirstNames DEF RequestStrongAuth, tables, clocks, outer
<1>2. \A w \in Users : SameOthers(w)
  BY <1>1 DEF SameOthers
<1>3. "request" \in Sources /\ SetOnly \in Firsts
  BY DEF Sources, Firsts
<1> QED
  BY <1>1, <1>2, <1>3, FirstApart, BeginSerial

LEMMA AccountSerial ==
  ASSUME SerialInv, Serial, ArmedInv', NEW u \in Users, AccountUnlocked(u)
  PROVE  SerialInv'
<1>1. /\ Begin("account", u, "NONE", Default, NotifyOnly)
      /\ UNCHANGED <<strongAuthStateInfo, strongAuthTimerInfo, timers, told, stops>>
      /\ changed' = changed /\ verified' = [verified EXCEPT ![u] = TRUE]
  BY FirstNames DEF AccountUnlocked, tables, clocks, ghosts
<1>2. \A w \in Users : w # u => SameOthers(w)
  BY <1>1 DEF SameOthers, SerialInv, ArmedInv, TableInv, TypeOK, OthersOK
<1>3. "account" \in Sources /\ NotifyOnly \in Firsts
  BY DEF Sources, Firsts
<1> QED
  BY <1>1, <1>2, <1>3, FirstApart, BeginSerial

LEMMA StillSerial ==
  ASSUME SerialInv, ArmedInv', thread' = thread, \A u \in Users : UserInv(u)'
  PROVE  SerialInv'
<1>1. OneAtATime' /\ \A s \in Sources : thread'[s].todo \in Todos
  BY DEF SerialInv, OneAtATime, Here
<1> QED
  BY <1>1 DEF SerialInv, UserInv

LEMMA NothingSerial ==
  ASSUME SerialInv, ArmedInv', UNCHANGED <<tables, timers, thread, told, verified, changed, stops>>
  PROVE  SerialInv'
<1>1. ASSUME NEW u \in Users PROVE UserInv(u)'
  <2>1. Callbacks(u)' = Callbacks(u)
    BY DEF Callbacks, Here
  <2>2. SameTimer(u) /\ SameState(u) /\ SameOthers(u)
    BY DEF SameTimer, SameState, SameOthers, HasTimer, Known, InfoOf, LeftOf, tables
  <2>3. UserInv(u)
    BY DEF SerialInv, UserInv
  <2> QED
    BY <2>1, <2>2, <2>3, Frame
<1> QED
  BY <1>1, StillSerial

LEMMA FiresSerial ==
  ASSUME SerialInv, Serial, ArmedInv', NEW i \in TimerIds, TimerFires(i)
  PROVE  SerialInv'
<1>1. TableInv /\ TypeOK
  BY DEF SerialInv, ArmedInv, TableInv
<1>2. i \in DOMAIN timers /\ timers[i].left = 0
  BY DEF TimerFires
<1>3. PICK u \in DOMAIN strongAuthTimerInfo : i = InfoOf(u).timerId
  BY <1>1, <1>2 DEF TableInv, TimerTableExact, InfoOf
<1>4. u \in Users /\ timers[i].user = u /\ LeftOf(u) = 0 /\ HasTimer(u)
  BY <1>1, <1>2, <1>3, TimerOf DEF HasTimer
<1>5. /\ Begin("timer", u, "NONE", Default, ReasonS)
      /\ UNCHANGED <<strongAuthStateInfo, strongAuthTimerInfo, told, stops, verified>>
      /\ changed' = changed \ {u}
  BY <1>4, FirstNames, Zenon DEF TimerFires, tables, outer
<1>6. "timer" \in Sources
  BY DEF Sources
<1>7. Begun("timer", u, "NONE", Default, ReasonS)
  BY <1>5, <1>6, BeginAlone
<1>8. SameState(u) /\ \A w \in Users : SameState(w) /\ SameOthers(w)
  BY <1>5 DEF SameState, SameOthers, Known
<1>9. ASSUME NEW w \in Users, w # u PROVE SameTimer(w)
  <2>1. HasTimer(w) => InfoOf(w).timerId \in DOMAIN timers /\ InfoOf(w).timerId # i
    BY <1>1, <1>4, <1>9, TimerOf DEF HasTimer
  <2>2. HasTimer(w) => timers'[InfoOf(w).timerId] = timers[InfoOf(w).timerId]
    BY <2>1 DEF TimerFires
  <2> QED
    BY <1>5, <2>2, KeepsTimer DEF HasTimer, InfoOf
<1>10. Quiet(u) /\ thread'["timer"].todo = ReasonS
  BY <1>7 DEF Begun
<1>11. /\ InfoOf(u).age < InfoOf(u).triggerPeriod => LeftOf(u) + InfoOf(u).age = InfoOf(u).triggerPeriod
       /\ Known(u) /\ strongAuthStateInfo[u] = "NONE" /\ verified[u] => told[u] = "NONE"
  BY <1>4, <1>10, AtRest
<1>12. InfoOf(u).age \in Nat /\ InfoOf(u).triggerPeriod \in Nat
  <2>1. InfoOf(u) \in Info
    BY <1>1, TimerOf
  <2>2. InfoOf(u).age \in Nat /\ InfoOf(u).triggerPeriod \in Periods
    BY <2>1, PeriodRange DEF Info
  <2> QED
    BY <2>2, FirstPeriod
<1>13. ~(InfoOf(u).age < InfoOf(u).triggerPeriod)
  BY <1>4, <1>11, <1>12
<1>14. ReasonS \in Firsts
  BY DEF Firsts
<1>15. ReasonS # ExistsR /\ ReasonS # NotifyOnly
  BY FirstApart
<1>16. PeriodAt(u, "timer")'
  BY <1>5, <1>13 DEF PeriodAt, InfoOf
<1>17. ResetAt(u, "timer")'
  BY <1>10, <1>14, <1>15, FirstFacts DEF ResetAt
<1>18. ToldAt(u, "timer")'
  BY <1>5, <1>8, <1>10, <1>11, <1>14, <1>15, FirstFacts DEF ToldAt, SameState
<1>19. ChangedAt(u, "timer")'
  BY <1>5 DEF ChangedAt
<1>20. NoOther(u, "timer") /\ OnlyStep("timer", u) /\ thread'["timer"].todo \in Todos
  BY <1>7, <1>10, <1>14, FirstFacts DEF Begun
<1> QED
  BY <1>4, <1>6, <1>8, <1>9, <1>16, <1>17, <1>18, <1>19, <1>20, Together DEF UserAt

LEMMA StopSerial ==
  ASSUME SerialInv, ArmedInv', DestroyAllStrongAuthTimer PROVE SerialInv'
<1>1. /\ UNCHANGED <<strongAuthStateInfo, thread, told, verified, changed>> /\ stops' = stops + 1
      /\ stops \in Nat
  BY DEF DestroyAllStrongAuthTimer, outer, ghosts, SerialInv, ArmedInv, TableInv, TypeOK, OthersOK
<1>2. stops' # 0
  BY <1>1
<1>3. ASSUME NEW u \in Users PROVE UserInv(u)'
  <2>1. ~HasTimer(u)'
    BY DEF DestroyAllStrongAuthTimer, HasTimer
  <2>2. Callbacks(u)' = Callbacks(u)
    BY <1>1 DEF Callbacks, Here
  <2>3. ResetInv(u) /\ ToldInv(u)
    BY DEF SerialInv
  <2>4. PeriodInv(u)' /\ ResetInv(u)'
    BY <2>1, <2>2, <2>3 DEF PeriodInv, ResetInv
  <2>5. ToldInv(u)'
    BY <1>1, <2>2, <2>3 DEF ToldInv, Known
  <2>6. ChangedInv(u)'
    BY <1>2 DEF ChangedInv
  <2> QED
    BY <2>4, <2>5, <2>6 DEF UserInv
<1> QED
  BY <1>1, <1>3, StillSerial

LEMMA TickSerial ==
  ASSUME SerialInv, ArmedInv', Tick PROVE SerialInv'
<1>1. /\ UNCHANGED <<strongAuthStateInfo, thread, told, verified, changed, stops>>
      /\ TableInv /\ ArmedInv
  BY DEF Tick, outer, ghosts, SerialInv, ArmedInv
<1>2. ASSUME NEW u \in Users PROVE UserInv(u)'
  <2>1. Quiet(u)
    BY DEF Tick, AllQuiet, Quiet
  <2>2. Callbacks(u)' = {}
    BY <1>1, <2>1 DEF Callbacks, Quiet, Here
  <2>3. /\ HasTimer(u) /\ InfoOf(u).age < InfoOf(u).triggerPeriod
             => LeftOf(u) + InfoOf(u).age = InfoOf(u).triggerPeriod
        /\ Known(u) /\ strongAuthStateInfo[u] = "NONE" /\ verified[u] => told[u] = "NONE"
        /\ u \in changed /\ stops = 0 => Known(u) /\ HasTimer(u) /\ LeftOf(u) <= Stages[1]
    BY <2>1, AtRest
  <2>4. HasTimer(u)' <=> HasTimer(u)
    BY DEF Tick, HasTimer
  <2>5. ASSUME HasTimer(u)
        PROVE  /\ InfoOf(u)'.triggerPeriod = InfoOf(u).triggerPeriod
               /\ InfoOf(u)'.age = Older(InfoOf(u).age)
               /\ LeftOf(u)' = LeftOf(u) - 1
               /\ InfoOf(u).triggerPeriod \in Nat /\ InfoOf(u).age \in Nat /\ LeftOf(u) \in Nat
               /\ InfoOf(u).triggerPeriod <= Default
    <3> DEFINE i == InfoOf(u).timerId
    <3>1. /\ InfoOf(u) \in Info /\ i \in DOMAIN timers /\ timers[i] \in Clock
          /\ LeftOf(u) = timers[i].left /\ LeftOf(u) \in 0..Off
      BY <1>1, <2>5, TimerOf DEF HasTimer
    <3>2. InfoOf(u)' = [InfoOf(u) EXCEPT !.age = Older(@)]
      BY <2>5 DEF Tick, HasTimer, InfoOf
    <3>3. /\ InfoOf(u)'.triggerPeriod = InfoOf(u).triggerPeriod
          /\ InfoOf(u)'.age = Older(InfoOf(u).age) /\ InfoOf(u)'.timerId = i
      BY <3>1, <3>2 DEF Info
    <3>4. timers[i].left # Off
      BY <1>1, <2>1, <2>5, ArmedAtRest DEF QuietMeansArmed, HasTimer, InfoOf
    <3>5. timers'[i].left = timers[i].left - 1
      BY <3>1, <3>4 DEF Tick, Clock
    <3>6. LeftOf(u)' = LeftOf(u) - 1
      BY <3>1, <3>3, <3>5 DEF LeftOf
    <3>7. /\ InfoOf(u).triggerPeriod \in Periods /\ InfoOf(u).age \in Nat /\ LeftOf(u) \in Nat
      BY <3>1, PeriodRange DEF Info
    <3>8. InfoOf(u).triggerPeriod \in Nat /\ InfoOf(u).triggerPeriod <= Default
      BY <3>7, StagesAssumption, BoundAssumption DEF Periods
    <3> QED
      BY <3>3, <3>6, <3>7, <3>8
  <2>6. PeriodInv(u)'
    <3> SUFFICES ASSUME HasTimer(u), InfoOf(u)'.age < InfoOf(u)'.triggerPeriod
                 PROVE  LeftOf(u)' + InfoOf(u)'.age = InfoOf(u)'.triggerPeriod
      BY <2>4 DEF PeriodInv
    <3>1. InfoOf(u).age < InfoOf(u).triggerPeriod /\ InfoOf(u)'.age = InfoOf(u).age + 1
      BY <2>5, BoundAssumption DEF Older
    <3> QED
      BY <2>3, <2>5, <3>1
  <2>7. ResetInv(u)' /\ ToldInv(u)'
    BY <1>1, <2>2, <2>3 DEF ResetInv, ToldInv, Known
  <2>8. ChangedInv(u)'
    <3>1. u \in changed /\ stops = 0 => LeftOf(u)' <= Stages[1]
      BY <2>3, <2>5, FirstPeriod
    <3> QED
      BY <1>1, <2>2, <2>3, <2>4, <3>1 DEF ChangedInv, Renewed, Known
  <2> QED
    BY <2>6, <2>7, <2>8 DEF UserInv
<1> QED
  BY <1>1, <1>2, StillSerial

-----------------------------------------------------------------------------
(* What holds when the callbacks of a user do not overlap.                 *)

LEMMA InitSerial == Init => SerialInv
<1> SUFFICES ASSUME Init PROVE SerialInv
  OBVIOUS
<1>1. \A s \in Sources : thread[s].todo = <<>>
  BY DEF Init, NoThread
<1>2. \A u : Callbacks(u) = {} /\ ~HasTimer(u) /\ ~Known(u)
  BY <1>1 DEF Init, Callbacks, HasTimer, Known
<1>3. ASSUME NEW u \in Users
      PROVE  PeriodInv(u) /\ ResetInv(u) /\ ToldInv(u) /\ ChangedInv(u)
  BY <1>2 DEF Init, PeriodInv, ResetInv, ToldInv, ChangedInv
<1> QED
  BY <1>1, <1>3, InitArmed, DoneFacts DEF SerialInv, OneAtATime

LEMMA NextSerial == ASSUME Serial, SerialInv, [Next]_vars PROVE SerialInv'
<1>1. ArmedInv'
  BY NextArmed DEF SerialInv
<1>2. ASSUME NEW u \in Users, GetCredInfo(u) PROVE SerialInv'
  BY <1>1, <1>2, NothingSerial DEF GetCredInfo, clocks, ghosts
<1>3. CASE UNCHANGED vars
  BY <1>1, <1>3, NothingSerial DEF vars, clocks, outer, ghosts
<1>4. ASSUME NEW u \in Users, NEW b \in BOOLEAN, OnCredentialInfo(u, b) \/ CredDeleted(u, b)
      PROVE  SerialInv'
  BY <1>1, <1>4, InfoSerial, DeletedSerial
<1>5. ASSUME NEW u \in Users,
             OnNotifyAuthSuccessEvent(u) \/ CredChanged(u) \/ AccountUnlocked(u)
      PROVE  SerialInv'
  BY <1>1, <1>5, AuthSerial, CredSerial, AccountSerial
<1>6. ASSUME NEW u \in Users, NEW flag, RequestStrongAuth(u, flag) PROVE SerialInv'
  BY <1>1, <1>6, RequestSerial
<1>7. ASSUME NEW i \in TimerIds, TimerFires(i) PROVE SerialInv'
  BY <1>1, <1>7, FiresSerial
<1>8. CASE DestroyAllStrongAuthTimer \/ Tick
  BY <1>1, <1>8, StopSerial, TickSerial
<1>9. ASSUME NEW s \in Sources, Section(s) PROVE SerialInv'
  BY <1>1, <1>9, SectionSerial
<1> QED
  BY <1>2, <1>3, <1>4, <1>5, <1>6, <1>7, <1>8, <1>9, NextKinds DEF Arrival

\* While the callbacks of one user do not overlap, each finds the tables, the
\* timer and the listeners as the one before it left them: a reset carries the
\* first period or the stored one, the timer is set as the table says, and a
\* NONE that was not passed on is still to be announced.
THEOREM SerialInvariant == ASSUME Serial PROVE Spec => []SerialInv
<1>1. SerialInv /\ [Next]_vars => SerialInv'
  BY NextSerial
<1> QED
  BY <1>1, InitSerial, PTL DEF Spec

LEMMA UsersOfTables ==
  ASSUME SerialInv
  PROVE  DOMAIN strongAuthTimerInfo \subseteq Users /\ DOMAIN strongAuthStateInfo \subseteq Users
<1>1. TypeOK
  BY DEF SerialInv, ArmedInv, TableInv
<1> QED
  BY <1>1, TableTypes, PartialDomain DEF TypeOK, TablesOK

\* ResetStrongAuthTimer arms the timer outside the lock and stores the period
\* and the stamp later; if no other callback of the user comes in between, the
\* armed timer goes off when the stored period has passed since the stamp.
THEOREM TimerAsStored == ASSUME Serial PROVE Spec => []PeriodMatchesTimer
<1>1. SerialInv => PeriodMatchesTimer
  BY UsersOfTables, AtRest DEF PeriodMatchesTimer, HasTimer, InfoOf, LeftOf
<1> QED
  BY <1>1, SerialInvariant, PTL

\* NotifyStrongAuthChange keeps NONE from the listeners of a locked account;
\* the announcement of AccountUnlocked makes up for it, in whichever order
\* the entry and the unlocking come.
THEOREM NoneIsTold == ASSUME Serial PROVE Spec => []NoneReachesListeners
<1>1. SerialInv => NoneReachesListeners
  BY UsersOfTables, AtRest DEF NoneReachesListeners, Known
<1> QED
  BY <1>1, SerialInvariant, PTL

\* strongauthmanager.h:37: after a change of the PIN the first demand comes
\* within the first period, until OnStop destroys the timers.
THEOREM FirstPeriodGiven ==
  ASSUME Serial PROVE Spec => [](stops = 0 => FirstPeriodAfterChange)
<1>1. SerialInv => (stops = 0 => FirstPeriodAfterChange)
  BY UsersOfTables, AtRest DEF FirstPeriodAfterChange, HasTimer, InfoOf, LeftOf
<1> QED
  BY <1>1, SerialInvariant, PTL

\* Who changes the period of a user that keeps a timer.
LEMMA PeriodWriters ==
  ASSUME SerialInv, [Next]_vars, NEW u \in DOMAIN strongAuthTimerInfo,
         u \in DOMAIN strongAuthTimerInfo'
  PROVE  \/ strongAuthTimerInfo'[u].triggerPeriod = strongAuthTimerInfo[u].triggerPeriod
         \/ \E s \in Sources : Here(s) = u /\ StampSection(s)
<1> DEFINE Same == strongAuthTimerInfo'[u].triggerPeriod = strongAuthTimerInfo[u].triggerPeriod
<1>1. TableInv /\ TypeOK /\ ArmedInv /\ u \in Users
  BY UsersOfTables DEF SerialInv, ArmedInv, TableInv
<1>2. CASE Arrival \/ UNCHANGED vars
  BY <1>1, <1>2, ArrivalType DEF tables, vars
<1>3. ASSUME NEW i \in TimerIds, TimerFires(i) PROVE Same
  BY <1>3 DEF TimerFires, tables
<1>4. ~DestroyAllStrongAuthTimer
  BY DEF DestroyAllStrongAuthTimer
<1>5. CASE Tick
  <2>1. InfoOf(u) \in Info
    BY <1>1, TimerOf
  <2>2. strongAuthTimerInfo'[u] = [InfoOf(u) EXCEPT !.age = Older(@)]
    BY <1>5 DEF Tick, InfoOf
  <2> QED
    BY <2>1, <2>2 DEF Info, InfoOf
<1>6. ASSUME NEW s \in Sources, Section(s), Here(s) # u PROVE Same
  <2>1. SameTimer(u)
    BY <1>1, <1>6, TimerElsewhere
  <2> QED
    BY <2>1 DEF SameTimer, HasTimer, InfoOf
<1>7. ASSUME NEW s \in Sources, Section(s), Here(s) = u, ~StampSection(s) PROVE Same
  <2>1. CASE Passing(s) \/ StateSection(s) \/ ClockSection(s)
    BY <1>1, <2>1, PassingType DEF StateSection, SetStrongAuthStat, InitStrongAuthStat,
       DestroyStrongAuthStateInfo, ClockSection, StopTimer, StartTimer, tables
  <2>2. CASE StartStrongAuthTimer(s)
    BY <1>7, <2>2 DEF StartStrongAuthTimer, TimerExists, HasTimer
  <2>3. CASE DestroyStrongAuthTimer(s)
    BY <1>7, <2>3 DEF DestroyStrongAuthTimer, HasTimer, Drop
  <2> QED
    BY <1>7, <2>1, <2>2, <2>3, SectionKinds DEF TimerSection
<1> QED
  BY <1>2, <1>3, <1>4, <1>5, <1>6, <1>7, NextKinds

LEMMA AdvanceStep ==
  ASSUME SerialInv, [Next]_vars, NEW u \in DOMAIN strongAuthTimerInfo,
         u \in DOMAIN strongAuthTimerInfo',
         strongAuthTimerInfo'[u].triggerPeriod > strongAuthTimerInfo[u].triggerPeriod
  PROVE  strongAuthTimerInfo[u].age > strongAuthTimerInfo[u].triggerPeriod
<1> DEFINE p == strongAuthTimerInfo[u].triggerPeriod
<1>1. TableInv /\ TypeOK /\ u \in Users /\ HasTimer(u)
  BY UsersOfTables DEF SerialInv, ArmedInv, TableInv, HasTimer
<1>2. strongAuthTimerInfo \in [DOMAIN strongAuthTimerInfo -> Info] /\ p \in Periods
  BY <1>1, TableTypes DEF Info
<1>3. p \in Nat /\ Stages[1] <= p /\ Stages[1] \in Nat
  BY <1>2, FirstPeriod
<1>4. strongAuthTimerInfo'[u].triggerPeriod # p
  BY <1>3
<1>5. PICK s \in Sources : Here(s) = u /\ StampSection(s)
  BY <1>4, PeriodWriters
<1>6. CASE GetStrongAuthTriggerPeriod(s)
  <2>1. CASE StageOver(strongAuthTimerInfo[u])
    BY <2>1 DEF StageOver
  <2>2. CASE ~StageOver(strongAuthTimerInfo[u])
    <3>1. strongAuthTimerInfo' = strongAuthTimerInfo
      BY <1>5, <1>6, <2>2, Zenon DEF GetStrongAuthTriggerPeriod
    <3> QED
      BY <1>4, <3>1
  <2> QED
    BY <2>1, <2>2
<1>7. CASE SetCredChangeTriggerPeriod(s)
  <2> DEFINE q == thread[s].period
  <2>1. thread[s].todo # <<>>
    BY <1>7 DEF SetCredChangeTriggerPeriod, At
  <2>2. Running(s, u)
    BY <1>1, <1>5, <2>1 DEF Running
  <2>3. thread[s].todo = StampOnly
    BY <1>7, <2>1, <2>2, SetUp, TodoCases DEF SetCredChangeTriggerPeriod, At
  <2>4. q \in {p, Stages[1]}
    BY <1>1, <2>2, <2>3, SetUp, ResettingApart DEF UserAt, ResetAt, InfoOf
  <2>5. strongAuthTimerInfo' = [strongAuthTimerInfo EXCEPT ![u].triggerPeriod = q, ![u].age = 0]
    BY <1>1, <1>5, <1>7, Zenon DEF SetCredChangeTriggerPeriod
  <2> HIDE DEF q
  <2>6. strongAuthTimerInfo'[u].triggerPeriod = q
    BY <1>2, <2>5 DEF Info
  <2> QED
    BY <1>3, <2>4, <2>6
<1> QED
  BY <1>5, <1>6, <1>7 DEF StampSection

\* GetStrongAuthTriggerPeriod picks the next period, ResetStrongAuthTimer
\* stores it or the first one later: what ends up in the table grows only after
\* the period before it has run out.
THEOREM PeriodGrowsLate == ASSUME Serial PROVE Spec => StageAdvance
<1>1. SerialInv /\ [Next]_vars
        => [\A u \in DOMAIN strongAuthTimerInfo \cap DOMAIN strongAuthTimerInfo' :
              strongAuthTimerInfo'[u].triggerPeriod > strongAuthTimerInfo[u].triggerPeriod
                => strongAuthTimerInfo[u].age > strongAuthTimerInfo[u].triggerPeriod]_vars
  BY AdvanceStep
<1> QED
  BY <1>1, SerialInvariant, PTL DEF Spec, StageAdvance
=============================================================================
