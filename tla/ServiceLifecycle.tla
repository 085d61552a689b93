-------------------------- MODULE ServiceLifecycle --------------------------
(***************************************************************************)
(* The start and stop of the service and the announcement of its readiness *)
(* (SYSTEM_READY) to the screen lock app.                                  *)
(*                                                                         *)
(* The registration of the display listener, its retries, the second       *)
(* attempt at Init and the polling of OnSystemReady share queue_, a serial *)
(* ffrt queue: one task runs at a time.  Tasks without a delay run in      *)
(* their order; a delayed one becomes due at any time after that.          *)
(*                                                                         *)
(* External: SAMGR (starts and publishes the service, reports the display  *)
(* manager), the display manager, and the app, which finds the service     *)
(* once it is published.                                                   *)
(***************************************************************************)
EXTENDS Naturals, Sequences

CONSTANTS
  Apps,           \* registrations of the screen lock app
  UserOf,         \* the user each is made for
  MaxTries,       \* tryTime of OnSystemReady
  MAX_RETRY_TIMES,
  MaxFails,       \* bound: failures to publish or to register with the display
  MaxStops        \* bound: OnStop

ASSUME LifecycleAssumption ==
  /\ MaxTries \in Nat \ {0} /\ MAX_RETRY_TIMES \in Nat
  /\ MaxFails \in Nat /\ MaxStops \in Nat
  /\ \A a \in Apps : UserOf[a] \in Nat \ {0}
  /\ "nobody" \notin Apps

VARIABLES
  main,                  \* where OnStart or OnStop is
  published,             \* SAMGR: the service can be found
  state_, systemReady_,
  systemEventListener_, currentUser_,
  queue_,                \* tasks not started, or NoQueue
  running,               \* the task that runs
  call,                  \* where the OnSystemEvent call of each app is
  told,                  \* SYSTEM_READY events each app got
  attempts,              \* history: display registrations tried since OnAddSystemAbility
  overlap,               \* history: a call overlapped another, or Init
  added,                 \* OnAddSystemAbility was called for the display manager
  fails, stops

serviceState == <<state_, systemReady_, systemEventListener_, currentUser_>>
counters == <<attempts, added, fails, stops>>
vars == <<main, published, serviceState, queue_, running, call, told, overlap, counters>>

NoQueue == [up |-> FALSE]
Queue(s) == [up |-> TRUE, tasks |-> s]
NoTask == [kind |-> "none"]

\* n: the times of a display retry, the tries a poll has left, the step of Init.
Task(kind, n) == [kind |-> kind, n |-> n]
Tasks == [kind : {"display", "poll", "init"}, n : Nat]
Queues == {NoQueue} \cup [up : {TRUE}, tasks : Seq(Tasks)]

LifecycleTypeOK ==
  /\ main \in {"off", "publish", "reset", "on", "stop queue", "stop display"}
  /\ published \in BOOLEAN /\ overlap \in BOOLEAN /\ added \in BOOLEAN
  /\ state_ \in {"NOT_START", "RUNNING"} /\ systemReady_ \in BOOLEAN
  /\ systemEventListener_ \in Apps \cup {"nobody"}
  /\ currentUser_ \in {0} \cup {UserOf[a] : a \in Apps}
  /\ queue_ \in Queues
  /\ running \in Tasks \cup {NoTask}
  /\ call \in [Apps -> {"no", "set", "reset", "submit", "user", "done"}]
  /\ told \in [Apps -> Nat]
  /\ attempts \in Nat /\ fails \in Nat /\ stops \in Nat

Init ==
  /\ main = "off" /\ published = FALSE
  /\ state_ = "NOT_START" /\ systemReady_ = FALSE
  /\ systemEventListener_ = "nobody" /\ currentUser_ = 0
  /\ queue_ = NoQueue /\ running = NoTask
  /\ call = [a \in Apps |-> "no"] /\ told = [a \in Apps |-> 0]
  /\ attempts = 0 /\ overlap = FALSE /\ added = FALSE /\ fails = 0 /\ stops = 0

Calling(a) == call[a] \notin {"no", "done"}
InitUnderWay == main = "reset" \/ running = Task("init", 1)

\* queue_->submit, if there is a queue.
Submit(task) == IF queue_.up THEN Queue(Append(queue_.tasks, task)) ELSE queue_

-----------------------------------------------------------------------------
(* OnStart and OnStop, one thread of SAMGR.                                *)

OnStart ==
  /\ main = "off"
  /\ IF state_ = "RUNNING" THEN UNCHANGED <<main, queue_>>
     ELSE /\ main' = "publish"
          /\ queue_' = IF queue_.up THEN queue_ ELSE Queue(<<>>)
  /\ UNCHANGED <<published, serviceState, running, call, told, overlap, counters>>

\* Init, first part; a failure is tried once more, delayed.
Publish(ok) ==
  /\ main = "publish"
  /\ IF ok
     THEN published' = TRUE /\ main' = "reset" /\ UNCHANGED <<queue_, fails>>
     ELSE /\ fails < MaxFails /\ fails' = fails + 1
          /\ queue_' = Submit(Task("init", 2)) /\ main' = "on"
          /\ UNCHANGED published
  /\ UNCHANGED <<serviceState, running, call, told, overlap, attempts, added, stops>>

\* Init, second part: stateValue_.Reset() comes after the service is published.
Reset ==
  /\ main = "reset" /\ main' = "on"
  /\ currentUser_' = 0
  /\ UNCHANGED <<published, state_, systemReady_, systemEventListener_, queue_, running,
                 call, told, overlap, counters>>

Mut_StateKept == state_

StoppedState == "NOT_START"

OnStop ==
  /\ main = "on" /\ state_ = "RUNNING" /\ stops < MaxStops
  /\ stops' = stops + 1
  /\ state_' = StoppedState
  /\ main' = "stop queue"
  /\ UNCHANGED <<published, systemReady_, systemEventListener_, currentUser_, queue_, running,
                 call, told, overlap, attempts, added, fails>>

\* The tasks that wait are dropped; one that runs goes on, and the tasks of a new
\* queue wait for it.
DropQueue ==
  /\ main = "stop queue" /\ main' = "stop display"
  /\ queue_' = NoQueue
  /\ UNCHANGED <<published, serviceState, running, call, told, overlap, counters>>

\* The display listener is unregistered, and SAMGR forgets the service.
UnregisterDisplay ==
  /\ main = "stop display" /\ main' = "off"
  /\ published' = FALSE /\ added' = FALSE
  /\ UNCHANGED <<serviceState, queue_, running, call, told, overlap, attempts, fails, stops>>

-----------------------------------------------------------------------------
(* RegisterDisplayPowerEventListener(times).                               *)

Mut_TimesNotCounted(times) == times

Counted(times) == times + 1

Register(times, ok) ==
  /\ ~ok => fails < MaxFails
  /\ fails' = IF ok THEN fails ELSE fails + 1
  /\ systemReady_' = ok
  /\ state_' = IF ok THEN "RUNNING" ELSE state_
  /\ queue_' = IF ~ok /\ Counted(times) <= MAX_RETRY_TIMES
               THEN Submit(Task("display", Counted(times))) ELSE queue_

\* OnAddSystemAbility of the display manager.
OnAddSystemAbility(ok) ==
  /\ main = "on" /\ ~added
  /\ added' = TRUE /\ attempts' = 1
  /\ Register(0, ok)
  /\ UNCHANGED <<main, published, systemEventListener_, currentUser_, running, call, told,
                 overlap, stops>>

-----------------------------------------------------------------------------
(* The queue.                                                              *)

\* Only delayed tasks are overtaken.
Due(i) == queue_.tasks[i].kind # "poll"
          \/ \A j \in 1..i - 1 : queue_.tasks[j].kind # "poll"

StartTask(i) ==
  /\ queue_.up /\ running = NoTask
  /\ i \in DOMAIN queue_.tasks /\ Due(i)
  /\ running' = queue_.tasks[i]
  /\ queue_' = Queue(SubSeq(queue_.tasks, 1, i - 1) \o SubSeq(queue_.tasks, i + 1, Len(queue_.tasks)))
  /\ UNCHANGED <<main, published, serviceState, call, told, overlap, counters>>

RetryDisplay(ok) ==
  /\ running.kind = "display"
  /\ running' = NoTask
  /\ attempts' = attempts + 1
  /\ Register(running.n, ok)
  /\ UNCHANGED <<main, published, systemEventListener_, currentUser_, call, told, overlap,
                 added, stops>>

\* The second attempt at Init is the last.
RetryPublish(ok) ==
  /\ running = Task("init", 2)
  /\ IF ok THEN published' = TRUE /\ running' = Task("init", 1) /\ UNCHANGED fails
     ELSE /\ fails < MaxFails /\ fails' = fails + 1
          /\ running' = NoTask
          /\ UNCHANGED published
  /\ UNCHANGED <<main, serviceState, queue_, call, told, overlap, attempts, added, stops>>

RetryReset ==
  /\ running = Task("init", 1)
  /\ running' = NoTask
  /\ currentUser_' = 0
  /\ UNCHANGED <<main, published, state_, systemReady_, systemEventListener_, queue_, call,
                 told, overlap, counters>>

\* One round of the loop of OnSystemReady, which sleeps for a second.
OnSystemReady ==
  LET a == systemEventListener_ IN
  /\ running.kind = "poll"
  /\ IF a # "nobody" /\ systemReady_
     THEN told' = [told EXCEPT ![a] = @ + 1] /\ running' = NoTask
     ELSE /\ running' = IF running.n > 1 THEN Task("poll", running.n - 1) ELSE NoTask
          /\ UNCHANGED told
  /\ UNCHANGED <<main, published, serviceState, queue_, call, overlap, counters>>

-----------------------------------------------------------------------------
(* OnSystemEvent, on an IPC thread.                                        *)

Mut_UserFirst == <<"set", "user", "reset", "submit", "done">>

\* The order of its steps.
Sections == <<"set", "reset", "submit", "user", "done">>

SectionAfter(pc) ==
  LET i == CHOOSE i \in 1..Len(Sections) : Sections[i] = pc IN Sections[i + 1]

Arrive(a) ==
  /\ published /\ call[a] = "no"
  /\ call' = [call EXCEPT ![a] = Sections[1]]
  /\ overlap' = (overlap \/ InitUnderWay \/ \E b \in Apps : Calling(b))
  /\ UNCHANGED <<main, published, serviceState, queue_, running, told, counters>>

Mut_NoPoll == queue_

Polled == Submit(Task("poll", MaxTries))

OnSystemEvent(a) ==
  /\ Calling(a)
  /\ call' = [call EXCEPT ![a] = SectionAfter(call[a])]
  /\ systemEventListener_' = IF call[a] = "set" THEN a ELSE systemEventListener_
  /\ currentUser_' = CASE call[a] = "reset" -> 0
                       [] call[a] = "user" -> UserOf[a]
                       [] OTHER -> currentUser_
  /\ queue_' = IF call[a] = "submit" THEN Polled ELSE queue_
  /\ UNCHANGED <<main, published, state_, systemReady_, running, told, overlap, counters>>

-----------------------------------------------------------------------------
Next ==
  \/ OnStart \/ Reset \/ OnStop \/ DropQueue \/ UnregisterDisplay
  \/ \E ok \in BOOLEAN :
       Publish(ok) \/ OnAddSystemAbility(ok) \/ RetryDisplay(ok) \/ RetryPublish(ok)
  \/ (queue_.up /\ \E i \in DOMAIN queue_.tasks : StartTask(i))
  \/ RetryReset \/ OnSystemReady
  \/ \E a \in Apps : Arrive(a) \/ OnSystemEvent(a)

Spec == Init /\ [][Next]_vars

\* SAMGR starts the service and reports the display manager, the queue works
\* through its tasks, and calls end.
Fairness ==
  /\ WF_vars(OnStart) /\ WF_vars(\E ok \in BOOLEAN : Publish(ok)) /\ WF_vars(Reset)
  /\ WF_vars(\E ok \in BOOLEAN : OnAddSystemAbility(ok))
  /\ WF_vars(queue_.up /\ \E i \in DOMAIN queue_.tasks : StartTask(i))
  /\ WF_vars(RetryReset \/ OnSystemReady \/ \E ok \in BOOLEAN : RetryDisplay(ok) \/ RetryPublish(ok))
  /\ \A a \in Apps : WF_vars(OnSystemEvent(a))

LiveSpec == Spec /\ Fairness

-----------------------------------------------------------------------------
(* Properties.                                                             *)

\* StrongAuthChanged and PreAuthStateNotify forward only what concerns
\* currentUser_: after registrations that overlapped neither each other nor
\* the Reset of an Init, it is the user of the registered app, until a stop.
CurrentUserOfListener ==
  ~overlap /\ stops = 0 /\ ~InitUnderWay /\ (\A a \in Apps : ~Calling(a))
    => systemEventListener_ = "nobody" \/ currentUser_ = UserOf[systemEventListener_]

\* RegisterDisplayPowerEventListener: one attempt and MAX_RETRY_TIMES more.
AttemptsBounded == attempts <= MAX_RETRY_TIMES + 1

\* A service that was stopped is not left RUNNING by a retry that was under
\* way: OnStart would then return at once and never publish it again.
StoppedMayStart == main = "off" => state_ = "NOT_START"

\* A registration at a time when the service is ready is answered with
\* SYSTEM_READY, unless another takes its place or the service is stopped,
\* however many polls of other registrations the queue still has to work through.
ReadyTold ==
  \A a \in Apps :
    call[a] = "submit" /\ systemReady_ /\ systemEventListener_ = a
      ~> told[a] > 0 \/ systemEventListener_ # a \/ stops > 0

\* README.md:5: the service provides a "screenlock manager service running
\* status callback": an app that registers while the display listener is being
\* registered is told when that succeeds.
ReadyReported ==
  \A a \in Apps :
    call[a] = "submit" /\ added ~> (told[a] > 0 \/ systemEventListener_ # a)

-----------------------------------------------------------------------------
(* The inductive invariant behind the safety properties.                   *)

Queued == IF queue_.up THEN queue_.tasks ELSE <<>>

\* A display retry carries the number of attempts made, and there is one at
\* most; none once the service is RUNNING, and then SAMGR has not stopped it.
RetryPending(n) ==
  /\ main = "on" /\ added /\ state_ = "NOT_START"
  /\ n = attempts /\ n <= MAX_RETRY_TIMES

DisplayRetries ==
  /\ \A i \in 1..Len(Queued) : Queued[i].kind = "display" =>
       /\ RetryPending(Queued[i].n) /\ running.kind # "display"
       /\ \A j \in 1..Len(Queued) : Queued[j].kind = "display" => i = j
  /\ running.kind = "display" => RetryPending(running.n)
  /\ state_ = "RUNNING" => main = "on" /\ added

\* Until the first stop Init is under way once at a time, and a service that
\* was published is not published again.
InitRetries ==
  stops = 0 =>
    /\ main \in {"off", "publish", "reset", "on"}
    /\ main \in {"off", "publish"} => ~published
    /\ main = "reset" \/ running = Task("init", 1) => published
    /\ running.kind = "init" => main = "on" /\ (running.n = 2 => ~published)
    /\ \A i \in 1..Len(Queued) : Queued[i].kind = "init" =>
         /\ main = "on" /\ ~published /\ Queued[i].n = 2 /\ running.kind # "init"
         /\ \A j \in 1..Len(Queued) : Queued[j].kind = "init" => i = j

\* One registration at a time, none while Init goes on, and one that is past a
\* step has its effect.
Registrations ==
  ~overlap /\ stops = 0 =>
    /\ ~published \/ InitUnderWay =>
         systemEventListener_ = "nobody" /\ \A a \in Apps : call[a] = "no"
    /\ \A a, b \in Apps : Calling(a) /\ Calling(b) => a = b
    /\ \A a \in Apps : call[a] \in {"reset", "submit", "user"} => systemEventListener_ = a

LifecycleInv ==
  /\ LifecycleTypeOK /\ AttemptsBounded /\ StoppedMayStart /\ CurrentUserOfListener
  /\ DisplayRetries /\ InitRetries /\ Registrations
=============================================================================
