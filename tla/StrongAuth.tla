----------------------------- MODULE StrongAuth -----------------------------
(***************************************************************************)
(* StrongAuthManger: which users must enter the PIN (face and fingerprint  *)
(* do not do), why, and the timer that demands it again.                   *)
(*                                                                         *)
(* The callbacks of the account, authentication, credential and timer      *)
(* services and the calls of clients run on threads of their own; each     *)
(* takes strongAuthTimerMutex once per table access, so it is a sequence   *)
(* of sections that interleave with those of the others.  A thread here is *)
(* one such source; todo is what is left of its callback.                  *)
(*                                                                         *)
(* External: the time service (timers), the account service (verified) and *)
(* the PIN enrolment (pin).  Time advances in units of the shortest period *)
(* and only between callbacks, which take milliseconds.                    *)
(***************************************************************************)
EXTENDS Naturals, Sequences

CONSTANTS
  Users,
  Stages,     \* the periods after a credential change, in their order
  Default,    \* DEFAULT_STRONG_AUTH_TIMEOUT_MS
  Serial,     \* whether the callbacks of one user never overlap
  ReqFlags,   \* flags clients pass to RequestStrongAuth
  MaxEvents,  \* bound: callbacks and calls
  MaxTimers,  \* bound: timers created
  MaxStops    \* bound: OnStop

ASSUME StagesAssumption ==
  /\ Stages \in Seq(Nat \ {0}) /\ Stages # <<>>
  /\ \A i \in 1..Len(Stages) : Stages[i] < Default
  /\ \A i, j \in 1..Len(Stages) : i < j => Stages[i] < Stages[j]
ASSUME BoundAssumption ==
  /\ Default \in Nat \ {0} /\ MaxEvents \in Nat /\ MaxTimers \in Nat /\ MaxStops \in Nat
  /\ Serial \in BOOLEAN

\* enum StrongAuthReasonFlags
Flags == {"NONE", "AFTER_BOOT", "AFTER_TIMEOUT", "ACTIVE_REQUEST", "DPM_RESTRICT",
          "SECURITY_ENHANCEMENT", "AFTER_CREDENTIAL_CHANGED"}

ASSUME FlagsAssumption == ReqFlags \subseteq Flags

VARIABLES
  strongAuthStateInfo,  \* user -> flag, for the users present
  strongAuthTimerInfo,  \* user -> [timerId, triggerPeriod, age]
  timers,               \* time service: timerId -> [user, left]
  created,              \* ids given out by CreateTimer so far
  thread,               \* the callback each source is in
  queries,              \* users whose GetCredentialInfo is not answered
  pin, verified,        \* external: PIN enrolled, account unlocked
  told,                 \* the last flag the listeners of a user were told
  cleared,              \* history: users whose demand somebody lifted
  changed,              \* history: PIN changed, neither entered nor demanded since
  booted,               \* history: found with a PIN, no demand lifted since
  events, stops

tables == <<strongAuthStateInfo, strongAuthTimerInfo>>
clocks == <<timers, created>>
outer  == <<queries, pin, verified>>
ghosts == <<cleared, changed, booted>>
vars   == <<tables, clocks, thread, outer, told, ghosts, events, stops>>

Sources == {"auth", "cred", "timer", "info", "request", "account"}

NoThread == [user |-> "nobody", flag |-> "NONE", period |-> Default, id |-> 0, todo |-> <<>>]

Ops == {"set", "notify", "trigger", "reset", "stop", "arm", "stamp", "start", "exists",
        "erase", "destroy", "reason", "init"}

Off == Default + 1     \* the left time of a stopped timer
Periods == {Stages[i] : i \in 1..Len(Stages)} \cup {Default}

PartialFcn(S, T) == UNION {[D -> T] : D \in SUBSET S}
TimerIds == 1..MaxTimers

TablesOK ==
  /\ strongAuthStateInfo \in PartialFcn(Users, Flags)
  /\ strongAuthTimerInfo \in
       PartialFcn(Users, [timerId : TimerIds, triggerPeriod : Periods, age : 0..Off])

ClocksOK ==
  /\ timers \in PartialFcn(TimerIds, [user : Users, left : 0..Off])
  /\ created \in 0..MaxTimers

ThreadsOK ==
  /\ thread \in [Sources -> [user : Users \cup {"nobody"}, flag : Flags, period : Periods,
                             id : 0..MaxTimers, todo : Seq(Ops)]]
  /\ \A s \in Sources : thread[s].todo # <<>> => thread[s].user \in Users

OthersOK ==
  /\ queries \in SUBSET Users
  /\ pin \in [Users -> BOOLEAN] /\ verified \in [Users -> BOOLEAN]
  /\ told \in [Users -> Flags \cup {"nothing"}]
  /\ cleared \in SUBSET Users /\ changed \in SUBSET Users /\ booted \in SUBSET Users
  /\ events \in Nat /\ stops \in Nat

\* Types: callbacks only ever write known flags, periods and live timer ids.
TypeOK == TablesOK /\ ClocksOK /\ ThreadsOK /\ OthersOK

Init ==
  /\ strongAuthStateInfo = [u \in {} |-> "NONE"]
  /\ strongAuthTimerInfo = [u \in {} |-> 0]
  /\ timers = [i \in {} |-> 0] /\ created = 0
  /\ thread = [s \in Sources |-> NoThread]
  /\ queries = {}
  /\ pin \in [Users -> BOOLEAN]
  /\ verified = [u \in Users |-> FALSE]
  /\ told = [u \in Users |-> "nothing"]
  /\ cleared = {} /\ changed = {} /\ booted = {}
  /\ events = 0 /\ stops = 0

-----------------------------------------------------------------------------
(* Helpers.                                                                *)

Known(u) == u \in DOMAIN strongAuthStateInfo
HasTimer(u) == u \in DOMAIN strongAuthTimerInfo

Put(f, k, v) == [x \in DOMAIN f \cup {k} |-> IF x = k THEN v ELSE f[x]]
Drop(f, k) == [x \in DOMAIN f \ {k} |-> f[x]]

\* NotifyStrongAuthChange: NONE is passed on only for an unlocked account.
Mut_NotifyOnlyDemand(u, flag) == IF flag = "NONE" THEN told ELSE [told EXCEPT ![u] = flag]

Told(u, flag) ==
  IF flag = "NONE" /\ ~verified[u] THEN told ELSE [told EXCEPT ![u] = flag]

\* GetStrongAuthTriggerPeriod: the next period once more than the current one
\* has passed since the stamp.
NextPeriod(p) ==
  LET i == CHOOSE i \in 1..Len(Stages) : Stages[i] = p
  IN  IF i < Len(Stages) THEN Stages[i + 1] ELSE Default

Mut_StageWithoutWait(info) == info.triggerPeriod # Default

StageOver(info) == info.triggerPeriod # Default /\ info.age > info.triggerPeriod

-----------------------------------------------------------------------------
(* A callback begins.                                                      *)

Quiet(u) == \A s \in Sources : thread[s].todo = <<>> \/ thread[s].user # u
AllQuiet == \A s \in Sources : thread[s].todo = <<>>

Begin(s, u, flag, period, todo) ==
  /\ thread[s].todo = <<>>
  /\ Serial => Quiet(u)
  /\ thread' = [thread EXCEPT ![s] =
       [user |-> u, flag |-> flag, period |-> period, id |-> 0, todo |-> todo]]

Event == events < MaxEvents /\ events' = events + 1

\* OnActiveUser -> GetCredInfo: nothing to do for a known user.
GetCredInfo(u) ==
  /\ Event /\ ~Known(u) /\ u \notin queries
  /\ queries' = queries \cup {u}
  /\ UNCHANGED <<tables, clocks, thread, pin, verified, told, ghosts, stops>>

\* The answer: an error counts as a PIN.
OnCredentialInfo(u, error) ==
  LET found == pin[u] \/ error IN
  /\ u \in queries
  /\ queries' = queries \ {u}
  /\ booted' = IF found /\ u \notin cleared THEN booted \cup {u} ELSE booted
  /\ cleared' = IF found THEN cleared ELSE cleared \cup {u}
  /\ Begin("info", u, IF found THEN "AFTER_BOOT" ELSE "NONE", Default,
           IF found THEN <<"init", "start">> ELSE <<"init">>)
  /\ UNCHANGED <<tables, clocks, pin, verified, told, changed, events, stops>>

\* OnNotifyAuthSuccessEvent for the PIN, not from a widget.
OnNotifyAuthSuccessEvent(u) ==
  /\ Event /\ pin[u]
  /\ Begin("auth", u, "NONE", Default, <<"set", "trigger", "reset">>)
  /\ cleared' = cleared \cup {u}
  /\ changed' = changed \ {u} /\ booted' = booted \ {u}
  /\ UNCHANGED <<tables, clocks, outer, told, stops>>

\* OnNotifyCredChangeEvent: ADD_CRED, or UPDATE_CRED that is not silent.
CredChanged(u) ==
  /\ Event
  /\ pin' = [pin EXCEPT ![u] = TRUE]
  /\ Begin("cred", u, "NONE", Stages[1], <<"exists", "reset">>)
  /\ changed' = IF Known(u) THEN changed \cup {u} ELSE changed
  /\ UNCHANGED <<tables, clocks, queries, verified, told, cleared, booted, stops>>

\* OnNotifyCredChangeEvent: DEL_USER and ENFORCE_DEL_USER.
CredDeleted(u, enforced) ==
  /\ Event /\ pin[u]
  /\ pin' = [pin EXCEPT ![u] = FALSE]
  /\ Begin("cred", u, "NONE", Default,
           <<"exists", IF enforced THEN "erase" ELSE "set", "destroy">>)
  /\ cleared' = cleared \cup {u}
  /\ changed' = changed \ {u} /\ booted' = booted \ {u}
  /\ UNCHANGED <<tables, clocks, queries, verified, told, stops>>

RequestStrongAuth(u, flag) ==
  /\ Event
  /\ Begin("request", u, flag, Default, <<"set">>)
  /\ cleared' = IF flag = "NONE" THEN cleared \cup {u} ELSE cleared
  /\ booted' = IF flag = "NONE" THEN booted \ {u} ELSE booted
  /\ UNCHANGED <<tables, clocks, outer, told, changed, stops>>

AccountUnlocked(u) ==
  /\ ~verified[u]
  /\ verified' = [verified EXCEPT ![u] = TRUE]
  /\ Begin("account", u, "NONE", Default, <<"notify">>)
  /\ UNCHANGED <<tables, clocks, queries, pin, told, ghosts, events, stops>>

\* A timer goes off: StrongAuthTimerCallback, and the timer repeats.
TimerFires(i) ==
  /\ i \in DOMAIN timers /\ timers[i].left = 0
  /\ timers' = [timers EXCEPT ![i].left = Default]
  /\ Begin("timer", timers[i].user, "NONE", Default, <<"reason", "set">>)
  /\ changed' = changed \ {timers[i].user}
  /\ UNCHANGED <<tables, created, outer, told, cleared, booted, events, stops>>

\* OnStop -> DestroyAllStrongAuthTimer.
DestroyAllStrongAuthTimer ==
  /\ stops < MaxStops /\ stops' = stops + 1
  /\ timers' = [i \in {} |-> 0]
  /\ strongAuthTimerInfo' = [u \in {} |-> 0]
  /\ UNCHANGED <<strongAuthStateInfo, created, thread, outer, told, ghosts, events>>

Older(a) == IF a > Default THEN a ELSE a + 1

Tick ==
  /\ AllQuiet
  /\ \A i \in DOMAIN timers : timers[i].left > 0
  /\ timers' = [i \in DOMAIN timers |->
                  [timers[i] EXCEPT !.left = IF @ = Off THEN Off ELSE @ - 1]]
  /\ strongAuthTimerInfo' = [u \in DOMAIN strongAuthTimerInfo |->
                               [strongAuthTimerInfo[u] EXCEPT !.age = Older(@)]]
  /\ UNCHANGED <<strongAuthStateInfo, created, thread, outer, told, ghosts, events, stops>>

-----------------------------------------------------------------------------
(* The sections of a callback.                                             *)

At(s, op) == thread[s].todo # <<>> /\ Head(thread[s].todo) = op
Rest(s) == Tail(thread[s].todo)
Goto(s, todo) == thread' = [thread EXCEPT ![s].todo = todo]
Here(s) == thread[s].user

still == <<outer, ghosts, events, stops>>

\* SetStrongAuthStat: an unknown user is entered and the change announced
\* under the lock; otherwise it is announced after the lock is released.
Mut_BootOverridden(old, flag) == TRUE

Accepts(old, flag) == old = "AFTER_BOOT" => flag = "NONE"

SetStrongAuthStat(s) ==
  LET u == Here(s) flag == thread[s].flag IN
  /\ At(s, "set")
  /\ IF ~Known(u)
     THEN /\ strongAuthStateInfo' = Put(strongAuthStateInfo, u, flag)
          /\ told' = Told(u, flag)
          /\ Goto(s, Rest(s))
     ELSE IF Accepts(strongAuthStateInfo[u], flag)
     THEN /\ strongAuthStateInfo' = [strongAuthStateInfo EXCEPT ![u] = flag]
          /\ Goto(s, <<"notify">> \o Rest(s))
          /\ UNCHANGED told
     ELSE Goto(s, Rest(s)) /\ UNCHANGED <<strongAuthStateInfo, told>>
  /\ UNCHANGED <<strongAuthTimerInfo, clocks, still>>

NotifyStrongAuthChange(s) ==
  /\ At(s, "notify")
  /\ told' = Told(Here(s), thread[s].flag)
  /\ Goto(s, Rest(s))
  /\ UNCHANGED <<tables, clocks, still>>

InitStrongAuthStat(s) ==
  LET u == Here(s) flag == thread[s].flag IN
  /\ At(s, "init")
  /\ IF Known(u) THEN UNCHANGED <<strongAuthStateInfo, told>>
     ELSE /\ strongAuthStateInfo' = Put(strongAuthStateInfo, u, flag)
          /\ told' = Told(u, flag)
  /\ Goto(s, Rest(s))
  /\ UNCHANGED <<strongAuthTimerInfo, clocks, still>>

GetStrongAuthTriggerPeriod(s) ==
  LET u == Here(s)
      over == HasTimer(u) /\ StageOver(strongAuthTimerInfo[u])
      p == IF ~HasTimer(u) THEN Default
           ELSE IF over THEN NextPeriod(strongAuthTimerInfo[u].triggerPeriod)
           ELSE strongAuthTimerInfo[u].triggerPeriod
  IN
  /\ At(s, "trigger")
  /\ strongAuthTimerInfo' =
       IF over THEN [strongAuthTimerInfo EXCEPT ![u].triggerPeriod = p, ![u].age = 0]
       ELSE strongAuthTimerInfo
  /\ thread' = [thread EXCEPT ![s].period = p, ![s].todo = Rest(s)]
  /\ UNCHANGED <<strongAuthStateInfo, clocks, told, still>>

\* ResetStrongAuthTimer: the id is looked up in a section of its own, the
\* timer re-armed outside the lock and the new period stored in a third.
Mut_ArmBeforeStop == <<"arm", "stop", "stamp">>
Mut_NoStamp == <<"stop", "arm">>
Mut_StampOnly == <<"stamp">>

ReArm == <<"stop", "arm", "stamp">>

ResetStrongAuthTimer(s) ==
  LET u == Here(s) IN
  /\ At(s, "reset")
  /\ IF HasTimer(u)
     THEN thread' = [thread EXCEPT ![s].id = strongAuthTimerInfo[u].timerId,
                                   ![s].todo = ReArm \o Rest(s)]
     ELSE Goto(s, <<"start">> \o Rest(s))
  /\ UNCHANGED <<tables, clocks, told, still>>

\* The time service refuses an id it does not know.
StopTimer(s) ==
  LET i == thread[s].id IN
  /\ At(s, "stop")
  /\ timers' = IF i \in DOMAIN timers THEN [timers EXCEPT ![i].left = Off] ELSE timers
  /\ Goto(s, Rest(s))
  /\ UNCHANGED <<tables, created, told, still>>

StartTimer(s) ==
  LET i == thread[s].id IN
  /\ At(s, "arm")
  /\ timers' = IF i \in DOMAIN timers THEN [timers EXCEPT ![i].left = thread[s].period]
               ELSE timers
  /\ Goto(s, Rest(s))
  /\ UNCHANGED <<tables, created, told, still>>

SetCredChangeTriggerPeriod(s) ==
  LET u == Here(s) IN
  /\ At(s, "stamp")
  /\ strongAuthTimerInfo' =
       IF HasTimer(u)
       THEN [strongAuthTimerInfo EXCEPT ![u].triggerPeriod = thread[s].period, ![u].age = 0]
       ELSE strongAuthTimerInfo
  /\ Goto(s, Rest(s))
  /\ UNCHANGED <<strongAuthStateInfo, clocks, told, still>>

\* StartStrongAuthTimer: one section, from the look-up to the insertion.
Mut_NoLookUp(u) == FALSE

TimerExists(u) == HasTimer(u)

StartStrongAuthTimer(s) ==
  LET u == Here(s) IN
  /\ At(s, "start")
  /\ IF TimerExists(u) THEN UNCHANGED <<strongAuthTimerInfo, clocks>>
     ELSE /\ created < MaxTimers
          /\ created' = created + 1
          /\ timers' = Put(timers, created', [user |-> u, left |-> thread[s].period])
          /\ strongAuthTimerInfo' =
               Put(strongAuthTimerInfo, u,
                   [timerId |-> created', triggerPeriod |-> thread[s].period, age |-> 0])
  /\ Goto(s, Rest(s))
  /\ UNCHANGED <<strongAuthStateInfo, told, still>>

IsUserExitInStrongAuthInfo(s) ==
  /\ At(s, "exists")
  /\ Goto(s, IF Known(Here(s)) THEN Rest(s) ELSE <<>>)
  /\ UNCHANGED <<tables, clocks, told, still>>

DestroyStrongAuthStateInfo(s) ==
  /\ At(s, "erase")
  /\ strongAuthStateInfo' = Drop(strongAuthStateInfo, Here(s))
  /\ Goto(s, Rest(s))
  /\ UNCHANGED <<strongAuthTimerInfo, clocks, told, still>>

DestroyStrongAuthTimer(s) ==
  LET u == Here(s) IN
  /\ At(s, "destroy")
  /\ IF HasTimer(u)
     THEN /\ timers' = Drop(timers, strongAuthTimerInfo[u].timerId)
          /\ strongAuthTimerInfo' = Drop(strongAuthTimerInfo, u)
     ELSE UNCHANGED <<timers, strongAuthTimerInfo>>
  /\ Goto(s, Rest(s))
  /\ UNCHANGED <<strongAuthStateInfo, created, told, still>>

\* StrongAuthTimerCallback picks the reason from the period stored now.
GetStrongAuthTimeTrigger(s) ==
  LET u == Here(s)
      short == HasTimer(u) /\ strongAuthTimerInfo[u].triggerPeriod < Default
  IN
  /\ At(s, "reason")
  /\ thread' = [thread EXCEPT ![s].flag = IF short THEN "AFTER_CREDENTIAL_CHANGED"
                                          ELSE "AFTER_TIMEOUT",
                              ![s].todo = Rest(s)]
  /\ UNCHANGED <<tables, clocks, told, still>>

Section(s) ==
  \/ SetStrongAuthStat(s) \/ NotifyStrongAuthChange(s) \/ InitStrongAuthStat(s)
  \/ GetStrongAuthTriggerPeriod(s) \/ ResetStrongAuthTimer(s)
  \/ StopTimer(s) \/ StartTimer(s) \/ SetCredChangeTriggerPeriod(s)
  \/ StartStrongAuthTimer(s) \/ IsUserExitInStrongAuthInfo(s)
  \/ DestroyStrongAuthStateInfo(s) \/ DestroyStrongAuthTimer(s)
  \/ GetStrongAuthTimeTrigger(s)

Next ==
  \/ \E u \in Users :
       \/ GetCredInfo(u) \/ OnNotifyAuthSuccessEvent(u) \/ CredChanged(u) \/ AccountUnlocked(u)
       \/ \E b \in BOOLEAN : OnCredentialInfo(u, b) \/ CredDeleted(u, b)
       \/ \E flag \in ReqFlags : RequestStrongAuth(u, flag)
  \/ \E i \in TimerIds : TimerFires(i)
  \/ DestroyAllStrongAuthTimer
  \/ Tick
  \/ \E s \in Sources : Section(s)

Spec == Init /\ [][Next]_vars

\* Time passes, a due timer goes off, and every callback runs to its end.
Fairness ==
  /\ WF_vars(Tick)
  /\ \A i \in TimerIds : WF_vars(TimerFires(i))
  /\ \A s \in Sources : WF_vars(Section(s))

LiveSpec == Spec /\ Fairness

-----------------------------------------------------------------------------
(* Properties under every interleaving.                                    *)

\* The time service holds a timer for exactly the users of the table, each
\* under the id the table has: concurrent StartStrongAuthTimer and
\* DestroyStrongAuthTimer neither leak a timer nor lose its id.
TimerTableExact ==
  /\ DOMAIN timers = {strongAuthTimerInfo[u].timerId : u \in DOMAIN strongAuthTimerInfo}
  /\ \A u \in DOMAIN strongAuthTimerInfo : timers[strongAuthTimerInfo[u].timerId].user = u

\* SetStrongAuthStat: AFTER_BOOT gives way to NONE or to the user's deletion
\* only; no timeout or request that races with it takes its place.
AfterBootSticky ==
  [][\A u \in DOMAIN strongAuthStateInfo :
       strongAuthStateInfo[u] = "AFTER_BOOT" /\ u \in DOMAIN strongAuthStateInfo'
         => strongAuthStateInfo'[u] \in {"AFTER_BOOT", "NONE"}]_vars

\* ResetStrongAuthTimer stops the timer and starts it again outside the lock:
\* when no callback is under way, no user's timer has been left stopped.
QuietMeansArmed ==
  \A u \in DOMAIN strongAuthTimerInfo :
    Quiet(u) => timers[strongAuthTimerInfo[u].timerId].left # Off

\* A user with a timer is in the end asked for the PIN, unless the timer is
\* taken away: the point of having it.
TimeoutDemands ==
  \A u \in Users :
    HasTimer(u) ~> (Known(u) /\ strongAuthStateInfo[u] # "NONE") \/ ~HasTimer(u)

-----------------------------------------------------------------------------
(* The inductive invariants behind the first three.                        *)

\* Ids are never reused.
FreshIds ==
  /\ \A i \in DOMAIN timers : i <= created
  /\ \A s \in Sources : thread[s].id <= created

TableInv == TypeOK /\ TimerTableExact /\ FreshIds

\* A callback about to stop a timer will start it next, and the timer it
\* looked up is still that of its user, or gone.
StopThenArm(s) ==
  LET t == thread[s] IN
  /\ \A k \in 1..Len(t.todo) :
       t.todo[k] = "stop" => k = 1 /\ Len(t.todo) > 1 /\ t.todo[2] = "arm"
  /\ t.id \in DOMAIN timers => timers[t.id].user = t.user

\* A stopped timer is between the two calls of a ResetStrongAuthTimer.
OffMeansResetting(i) ==
  timers[i].left = Off => \E s \in Sources : At(s, "arm") /\ thread[s].id = i

ArmedInv ==
  /\ TableInv
  /\ \A s \in Sources : StopThenArm(s)
  /\ \A i \in DOMAIN timers : OffMeansResetting(i)

-----------------------------------------------------------------------------
(* Properties that hold when the callbacks of a user do not overlap.       *)

\* The stored period and stamp describe the armed timer: it will go off when
\* the stored period has passed since the stamp.
PeriodMatchesTimer ==
  \A u \in DOMAIN strongAuthTimerInfo :
    LET info == strongAuthTimerInfo[u] IN
    Quiet(u) /\ info.age < info.triggerPeriod
      => timers[info.timerId].left + info.age = info.triggerPeriod

\* NotifyStrongAuthChange holds NONE back while the account is locked, and
\* AccountUnlocked makes up for it: the listeners of an unlocked account
\* whose state is NONE have been told.
NoneReachesListeners ==
  \A u \in DOMAIN strongAuthStateInfo :
    strongAuthStateInfo[u] = "NONE" /\ verified[u] /\ Quiet(u) => told[u] = "NONE"

\* GetStrongAuthTriggerPeriod: the period grows only once the current one has
\* run out, that is, after the timer has demanded the PIN.
StageAdvance ==
  [][\A u \in DOMAIN strongAuthTimerInfo \cap DOMAIN strongAuthTimerInfo' :
       strongAuthTimerInfo'[u].triggerPeriod > strongAuthTimerInfo[u].triggerPeriod
         => strongAuthTimerInfo[u].age > strongAuthTimerInfo[u].triggerPeriod]_vars

-----------------------------------------------------------------------------
(* What the comments say.                                                  *)

\* strongauthmanager.h:37: after a change of the PIN the first demand comes
\* after the first period.
FirstPeriodAfterChange ==
  \A u \in changed \cap DOMAIN strongAuthTimerInfo :
    Quiet(u) => timers[strongAuthTimerInfo[u].timerId].left <= Stages[1]

\* strongauthmanager.cpp:365: the state of a restart has the highest priority.
AfterBootPriority ==
  \A u \in booted \cap DOMAIN strongAuthStateInfo :
    Quiet(u) => strongAuthStateInfo[u] = "AFTER_BOOT"

-----------------------------------------------------------------------------
(* The inductive invariant behind those of callbacks that do not overlap.  *)

\* The callbacks of the user that are under way: one, if they do not overlap.
Callbacks(u) == {thread[s] : s \in {r \in Sources : thread[r].todo # <<>> /\ Here(r) = u}}

OneAtATime ==
  \A r, s \in Sources :
    thread[r].todo # <<>> /\ thread[s].todo # <<>> /\ Here(r) = Here(s) => r = s

\* What may be left of a callback.
Todos ==
  {<<>>, <<"set", "trigger", "reset">>, <<"notify", "trigger", "reset">>, <<"trigger", "reset">>,
   <<"reset">>, ReArm, <<"arm", "stamp">>, <<"stamp">>, <<"start">>,
   <<"exists", "reset">>, <<"exists", "erase", "destroy">>, <<"erase", "destroy">>,
   <<"exists", "set", "destroy">>, <<"set", "destroy">>, <<"notify", "destroy">>, <<"destroy">>,
   <<"reason", "set">>, <<"set">>, <<"notify">>, <<"init", "start">>, <<"init">>}

ReArming == {ReArm, <<"arm", "stamp">>, <<"stamp">>}
Resetting == ReArming \cup {<<"reset">>}

InfoOf(u) == strongAuthTimerInfo[u]
LeftOf(u) == timers[InfoOf(u).timerId].left

\* The stored period and stamp describe the timer unless it is being reset.
PeriodInv(u) ==
  HasTimer(u) /\ (\A c \in Callbacks(u) : c.todo \notin Resetting)
    => (InfoOf(u).age < InfoOf(u).triggerPeriod
          => LeftOf(u) + InfoOf(u).age = InfoOf(u).triggerPeriod)

\* A reset is with the first period or the stored one, and of the user's timer.
ResetInv(u) ==
  \A c \in Callbacks(u) :
    /\ c.todo = <<"exists", "reset">> => c.period = Stages[1]
    /\ HasTimer(u) =>
         /\ c.todo \in Resetting => c.period \in {InfoOf(u).triggerPeriod, Stages[1]}
         /\ c.todo \in ReArming => c.id = InfoOf(u).timerId
         /\ c.todo = <<"stamp">> => LeftOf(u) = c.period

\* The listeners know NONE or are about to be told it.
ToldInv(u) ==
  Known(u) /\ strongAuthStateInfo[u] = "NONE" =>
    /\ \A c \in Callbacks(u) : Head(c.todo) = "notify" => c.flag = "NONE"
    /\ verified[u] => told[u] = "NONE" \/ \E c \in Callbacks(u) : Head(c.todo) = "notify"

\* After a change of the PIN the timer is about to get the first period, or
\* has had it and nothing else is about to change it.
Renewing(u) ==
  \E c \in Callbacks(u) :
    /\ c.period = Stages[1]
    /\ \/ c.todo \in {<<"exists", "reset">>, <<"reset">>}
       \/ c.todo \in {ReArm, <<"arm", "stamp">>} /\ HasTimer(u)
       \/ c.todo = <<"start">> /\ ~HasTimer(u)

LeavesTimer == {<<"stamp">>, <<"set">>, <<"notify">>, <<"init", "start">>, <<"start">>, <<"init">>}

Renewed(u) ==
  HasTimer(u) /\ LeftOf(u) <= Stages[1] /\ \A c \in Callbacks(u) : c.todo \in LeavesTimer

ChangedInv(u) == u \in changed /\ stops = 0 => Known(u) /\ (Renewing(u) \/ Renewed(u))

SerialInv ==
  /\ ArmedInv /\ OneAtATime
  /\ \A s \in Sources : thread[s].todo \in Todos
  /\ \A u \in Users : PeriodInv(u) /\ ResetInv(u) /\ ToldInv(u) /\ ChangedInv(u)
=============================================================================
