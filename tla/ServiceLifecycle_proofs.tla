----------------------- MODULE ServiceLifecycle_proofs -----------------------
(***************************************************************************)
(* Theorems about ServiceLifecycle: the types, that display registrations  *)
(* end, that a stopped service can start, and whose user is the current    *)
(* one.  Each part of the inductive invariant has a lemma with a step per  *)
(* action.                                                                 *)
(***************************************************************************)
EXTENDS ServiceLifecycle, TLAPS, SequenceTheorems

-----------------------------------------------------------------------------
(* The queue.                                                              *)

\* What is left of a sequence without its i-th entry.
LEMMA WithoutOne ==
  ASSUME NEW S, NEW s \in Seq(S), NEW i \in 1..Len(s)
  PROVE  LET r == SubSeq(s, 1, i - 1) \o SubSeq(s, i + 1, Len(s)) IN
         /\ r \in Seq(S) /\ Len(r) = Len(s) - 1
         /\ \A j \in 1..Len(r) : r[j] = IF j < i THEN s[j] ELSE s[j + 1]
<1> DEFINE a == SubSeq(s, 1, i - 1)
           b == SubSeq(s, i + 1, Len(s))
<1>1. \A k \in 1..Len(s) : s[k] \in S
  OBVIOUS
<1>2. a \in Seq(S) /\ Len(a) = i - 1 /\ \A k \in 1..i - 1 : a[k] = s[k]
  <2>1. /\ a \in Seq(S) /\ Len(a) = (IF 1 <= i - 1 THEN (i - 1) - 1 + 1 ELSE 0)
        /\ \A k \in 1..(i - 1) - 1 + 1 : a[k] = s[1 + k - 1]
    <3> HIDE DEF a
    <3>1. \A k \in 1..i - 1 : s[k] \in S
      BY <1>1
    <3> QED
      BY <3>1, SubSeqProperties DEF a
  <2> HIDE DEF a
  <2> QED
    BY <2>1
<1>3. b \in Seq(S) /\ Len(b) = Len(s) - i /\ \A k \in 1..Len(s) - i : b[k] = s[i + k]
  <2>1. /\ b \in Seq(S)
        /\ Len(b) = (IF i + 1 <= Len(s) THEN Len(s) - (i + 1) + 1 ELSE 0)
        /\ \A k \in 1..Len(s) - (i + 1) + 1 : b[k] = s[i + 1 + k - 1]
    <3> HIDE DEF b
    <3>1. \A k \in i + 1..Len(s) : s[k] \in S
      BY <1>1
    <3> QED
      BY <3>1, SubSeqProperties DEF b
  <2> HIDE DEF b
  <2> QED
    BY <2>1
<1> HIDE DEF a, b
<1>4. /\ a \o b \in Seq(S) /\ Len(a \o b) = Len(a) + Len(b)
      /\ \A j \in 1..Len(a) + Len(b) : (a \o b)[j] = IF j <= Len(a) THEN a[j] ELSE b[j - Len(a)]
  BY <1>2, <1>3, ConcatProperties
<1>5. Len(a \o b) = Len(s) - 1
  BY <1>2, <1>3, <1>4
<1>6. \A j \in 1..Len(a \o b) : (a \o b)[j] = IF j < i THEN s[j] ELSE s[j + 1]
  BY <1>2, <1>3, <1>4
<1> QED
  BY <1>4, <1>5, <1>6 DEF a, b

\* queue_ is absent or holds a sequence of tasks; Queued is that sequence.
LEMMA QueueForm ==
  ASSUME queue_ \in Queues
  PROVE  /\ Queued \in Seq(Tasks)
         /\ \/ queue_ = NoQueue /\ queue_.up = FALSE /\ Queued = <<>>
            \/ queue_.up = TRUE /\ queue_.tasks \in Seq(Tasks) /\ Queued = queue_.tasks
<1>1. CASE queue_ = NoQueue
  <2>1. queue_.up = FALSE
    BY <1>1 DEF NoQueue
  <2>2. Queued = <<>>
    BY <2>1 DEF Queued
  <2> QED
    BY <1>1, <2>1, <2>2
<1>2. CASE queue_ \in [up : {TRUE}, tasks : Seq(Tasks)]
  <2>1. queue_.up = TRUE /\ queue_.tasks \in Seq(Tasks)
    BY <1>2
  <2> QED
    BY <2>1 DEF Queued
<1> QED
  BY <1>1, <1>2 DEF Queues

\* queue_->submit.
LEMMA SubmitStep ==
  ASSUME queue_ \in Queues, NEW t \in Tasks, queue_' = Submit(t)
  PROVE  /\ queue_' \in Queues /\ Queued' \in Seq(Tasks)
         /\ \/ Queued' = Queued
            \/ /\ Len(Queued') = Len(Queued) + 1
               /\ \A i \in 1..Len(Queued) : Queued'[i] = Queued[i]
               /\ Queued'[Len(Queued) + 1] = t
<1>1. CASE queue_ = NoQueue
  BY <1>1 DEF Submit, NoQueue, Queues, Queued
<1>2. CASE queue_.up = TRUE /\ queue_.tasks \in Seq(Tasks) /\ Queued = queue_.tasks
  <2>1. queue_' = [up |-> TRUE, tasks |-> Append(queue_.tasks, t)]
    BY <1>2 DEF Submit, Queue
  <2>2. Append(queue_.tasks, t) \in Seq(Tasks)
    BY <1>2
  <2>3. queue_' \in Queues /\ Queued' = Append(queue_.tasks, t)
    BY <2>1, <2>2 DEF Queues, Queued
  <2> QED
    BY <1>2, <2>2, <2>3
<1> QED
  BY <1>1, <1>2, QueueForm

\* The queue starts the i-th of the tasks that wait.
LEMMA StartStep ==
  ASSUME queue_ \in Queues, NEW i \in DOMAIN queue_.tasks, StartTask(i)
  PROVE  /\ queue_' \in Queues /\ Queued' \in Seq(Tasks)
         /\ i \in 1..Len(Queued) /\ running' = Queued[i] /\ running' \in Tasks
         /\ Len(Queued') = Len(Queued) - 1
         /\ \A j \in 1..Len(Queued') :
              Queued'[j] = IF j < i THEN Queued[j] ELSE Queued[j + 1]
<1> DEFINE r == SubSeq(queue_.tasks, 1, i - 1) \o SubSeq(queue_.tasks, i + 1, Len(queue_.tasks))
<1>1. queue_.up
  BY DEF StartTask
<1>2. queue_.tasks \in Seq(Tasks) /\ Queued = queue_.tasks
  BY <1>1, QueueForm
<1>3. i \in 1..Len(queue_.tasks)
  BY <1>2
<1>4. running' = queue_.tasks[i] /\ queue_' = [up |-> TRUE, tasks |-> r]
  BY DEF StartTask, Queue
<1>5. /\ r \in Seq(Tasks) /\ Len(r) = Len(queue_.tasks) - 1
      /\ \A j \in 1..Len(r) : r[j] = IF j < i THEN queue_.tasks[j] ELSE queue_.tasks[j + 1]
  BY <1>2, <1>3, WithoutOne
<1> HIDE DEF r
<1>6. queue_' \in Queues /\ Queued' = r
  BY <1>4, <1>5 DEF Queues, Queued
<1> QED
  BY <1>2, <1>3, <1>4, <1>5, <1>6

\* The steps of OnSystemEvent, one after the other.
LEMMA SectionOrder ==
  /\ Sections[1] = "set"
  /\ SectionAfter("set") = "reset" /\ SectionAfter("reset") = "submit"
  /\ SectionAfter("submit") = "user" /\ SectionAfter("user") = "done"
BY DEF Sections, SectionAfter

-----------------------------------------------------------------------------
(* The types.                                                              *)

\* The tasks the code submits, and that NoTask is none of them.
LEMMA TaskTypes ==
  /\ Task("init", 1) \in Tasks /\ Task("init", 2) \in Tasks
  /\ Task("init", 1).kind = "init" /\ Task("init", 1).n = 1
  /\ Task("init", 2).kind = "init" /\ Task("init", 2).n = 2
  /\ Task("poll", MaxTries) \in Tasks /\ Task("poll", MaxTries).kind = "poll"
  /\ \A n \in Nat : Task("display", n) \in Tasks /\ Task("display", n).kind = "display"
                     /\ Task("display", n).n = n
  /\ \A n \in Nat : Task("poll", n) \in Tasks /\ Task("poll", n).kind = "poll"
  /\ NoTask.kind = "none" /\ NoTask \notin Tasks
BY LifecycleAssumption DEF Task, Tasks, NoTask

\* A task that runs is a task.
LEMMA RunningTyped ==
  ASSUME running \in Tasks \cup {NoTask}, running.kind # "none"
  PROVE  running \in Tasks /\ running.n \in Nat
<1>1. running \in Tasks
  BY TaskTypes
<1> QED
  BY <1>1 DEF Tasks

\* The queue after InitServiceHandler and after OnStop.
LEMMA EmptyQueue == Queue(<<>>) \in Queues /\ NoQueue \in Queues
<1>1. <<>> \in Seq(Tasks)
  OBVIOUS
<1>2. [up |-> TRUE, tasks |-> <<>>] \in [up : {TRUE}, tasks : Seq(Tasks)]
  BY <1>1
<1> QED
  BY <1>2 DEF Queue, Queues

\* The queue's conjunct of the types.
LEMMA QueueTyped == LifecycleTypeOK => queue_ \in Queues
BY DEF LifecycleTypeOK

\* The counters' conjunct of the types.
LEMMA CountersTyped == LifecycleTypeOK => attempts \in Nat /\ fails \in Nat /\ stops \in Nat
BY DEF LifecycleTypeOK

\* Register, of either caller.
LEMMA RegisterStep ==
  ASSUME queue_ \in Queues, fails \in Nat, NEW t \in Nat, NEW ok \in BOOLEAN, Register(t, ok)
  PROVE  /\ queue_' \in Queues /\ Queued' \in Seq(Tasks)
         /\ fails' \in Nat
         /\ \/ Queued' = Queued
            \/ /\ ~ok /\ t + 1 <= MAX_RETRY_TIMES
               /\ Len(Queued') = Len(Queued) + 1
               /\ \A i \in 1..Len(Queued) : Queued'[i] = Queued[i]
               /\ Queued'[Len(Queued) + 1] = Task("display", t + 1)
<1>1. fails' \in Nat
  BY DEF Register
<1>2. CASE queue_' = queue_
  BY <1>1, <1>2, QueueForm DEF Queued
<1>3. CASE ~ok /\ t + 1 <= MAX_RETRY_TIMES /\ queue_' = Submit(Task("display", t + 1))
  BY <1>1, <1>3, TaskTypes, SubmitStep
<1> QED
  BY <1>2, <1>3 DEF Register, Counted

\* Every step keeps the types.
LEMMA TypeStep ==
  ASSUME LifecycleTypeOK, [Next]_vars
  PROVE  LifecycleTypeOK'
<1>1. CASE OnStart
  <2>1. queue_' \in Queues
    BY <1>1, QueueTyped, EmptyQueue DEF OnStart
  <2> QED
    BY <1>1, <2>1 DEF OnStart, LifecycleTypeOK, serviceState, counters
<1>2. CASE Reset
  BY <1>2 DEF Reset, LifecycleTypeOK, serviceState, counters
<1>3. CASE OnStop
  <2>1. stops' \in Nat
    <3>1. stops \in Nat
      BY CountersTyped
    <3>2. stops' = stops + 1
      BY <1>3 DEF OnStop
    <3> QED
      BY <3>1, <3>2
  <2>2. /\ main' = "stop queue" /\ state_' = "NOT_START"
        /\ UNCHANGED <<published, systemReady_, systemEventListener_, currentUser_, queue_, running,
                      call, told, overlap, attempts, added, fails>>
    BY <1>3 DEF OnStop, StoppedState
  <2> QED
    BY <2>1, <2>2 DEF LifecycleTypeOK
<1>4. CASE DropQueue
  <2>1. queue_' \in Queues
    BY <1>4, EmptyQueue DEF DropQueue
  <2> QED
    BY <1>4, <2>1 DEF DropQueue, LifecycleTypeOK, serviceState, counters
<1>5. CASE UnregisterDisplay
  BY <1>5 DEF UnregisterDisplay, LifecycleTypeOK, serviceState, counters
<1>6. ASSUME NEW ok \in BOOLEAN, Publish(ok) PROVE LifecycleTypeOK'
  <2>1. queue_' \in Queues
    BY <1>6, QueueTyped, TaskTypes, SubmitStep DEF Publish
  <2>2. fails' \in Nat
    BY <1>6, CountersTyped DEF Publish
  <2>4. published' \in BOOLEAN /\ main' \in {"reset", "on"}
    BY <1>6 DEF Publish, LifecycleTypeOK
  <2>3. UNCHANGED <<serviceState, running, call, told, overlap, attempts, added, stops>>
    BY <1>6 DEF Publish
  <2> QED
    BY <2>1, <2>2, <2>3, <2>4 DEF LifecycleTypeOK, serviceState
<1>7. ASSUME NEW ok \in BOOLEAN, OnAddSystemAbility(ok) PROVE LifecycleTypeOK'
  <2>1. Register(0, ok)
    BY <1>7 DEF OnAddSystemAbility
  <2>2. queue_' \in Queues /\ fails' \in Nat
    BY <2>1, QueueTyped, CountersTyped, RegisterStep
  <2> QED
    BY <1>7, <2>1, <2>2 DEF Register, OnAddSystemAbility, LifecycleTypeOK, serviceState, counters
<1>8. ASSUME NEW ok \in BOOLEAN, RetryDisplay(ok) PROVE LifecycleTypeOK'
  <2>1. running.n \in Nat /\ Register(running.n, ok)
    BY <1>8, RunningTyped DEF RetryDisplay, LifecycleTypeOK
  <2>2. queue_' \in Queues /\ fails' \in Nat
    BY <2>1, QueueTyped, CountersTyped, RegisterStep
  <2> QED
    <3>1. /\ running' \in Tasks \cup {NoTask} /\ systemReady_' \in BOOLEAN
          /\ state_' \in {"NOT_START", "RUNNING"}
      BY <1>8, <2>1 DEF Register, RetryDisplay, LifecycleTypeOK
    <3>2. attempts' \in Nat
      BY <1>8, CountersTyped DEF RetryDisplay
    <3> QED
      BY <1>8, <2>2, <3>1, <3>2 DEF RetryDisplay, LifecycleTypeOK
<1>9. ASSUME NEW ok \in BOOLEAN, RetryPublish(ok) PROVE LifecycleTypeOK'
  <2>1. running' \in Tasks \cup {NoTask} /\ fails' \in Nat
    BY <1>9, TaskTypes, CountersTyped DEF RetryPublish
  <2> QED
    BY <1>9, <2>1 DEF RetryPublish, LifecycleTypeOK, serviceState, counters
<1>10. ASSUME queue_.up, NEW i \in DOMAIN queue_.tasks, StartTask(i) PROVE LifecycleTypeOK'
  <2>1. queue_' \in Queues /\ running' \in Tasks
    BY <1>10, QueueTyped, StartStep
  <2> QED
    BY <1>10, <2>1 DEF StartTask, LifecycleTypeOK, serviceState, counters
<1>11. CASE RetryReset
  BY <1>11 DEF RetryReset, LifecycleTypeOK, serviceState, counters
<1>12. CASE OnSystemReady
  <2>1. running.n > 1 => running.n - 1 \in Nat /\ Task("poll", running.n - 1) \in Tasks
    <3>1. running \in Tasks \cup {NoTask} /\ running.kind # "none"
      BY <1>12 DEF OnSystemReady, LifecycleTypeOK
    <3>2. running.n \in Nat
      BY <3>1, RunningTyped
    <3>3. running.n > 1 => running.n - 1 \in Nat
      BY <3>2
    <3> QED
      BY <3>3, TaskTypes
  <2>2. running' \in Tasks \cup {NoTask}
    BY <1>12, <2>1 DEF OnSystemReady
  <2>3. told' \in [Apps -> Nat]
    <3>1. CASE systemEventListener_ # "nobody" /\ systemReady_
      <4>1. systemEventListener_ \in Apps
        BY <3>1 DEF LifecycleTypeOK
      <4> QED
        <5>1. told' = [told EXCEPT ![systemEventListener_] = told[systemEventListener_] + 1]
          BY <1>12, <3>1 DEF OnSystemReady
        <5>2. told \in [Apps -> Nat]
          BY DEF LifecycleTypeOK
        <5> QED
          BY <4>1, <5>1, <5>2
    <3>2. CASE ~(systemEventListener_ # "nobody" /\ systemReady_)
      BY <1>12, <3>2 DEF OnSystemReady, LifecycleTypeOK
    <3> QED
      BY <3>1, <3>2
  <2> QED
    BY <1>12, <2>2, <2>3 DEF OnSystemReady, LifecycleTypeOK, serviceState, counters
<1>13. ASSUME NEW a \in Apps, Arrive(a) PROVE LifecycleTypeOK'
  BY <1>13, SectionOrder DEF Arrive, LifecycleTypeOK, serviceState, counters
<1>14. ASSUME NEW a \in Apps, OnSystemEvent(a) PROVE LifecycleTypeOK'
  <2>1. queue_' \in Queues
    <3>1. CASE call[a] = "submit"
      BY <3>1, <1>14, QueueTyped, TaskTypes, SubmitStep DEF OnSystemEvent, Polled
    <3>2. CASE call[a] # "submit"
      BY <3>2, <1>14, QueueTyped DEF OnSystemEvent
    <3> QED
      BY <3>1, <3>2
  <2>2. call[a] \in {"set", "reset", "submit", "user"}
    BY <1>14 DEF OnSystemEvent, Calling, LifecycleTypeOK
  <2>3. SectionAfter(call[a]) \in {"reset", "submit", "user", "done"}
    BY <2>2, SectionOrder
  <2>4. call' \in [Apps -> {"no", "set", "reset", "submit", "user", "done"}]
    BY <1>14, <2>3 DEF OnSystemEvent, LifecycleTypeOK
  <2>5. /\ systemEventListener_' \in Apps \cup {"nobody"}
        /\ currentUser_' \in {0} \cup {UserOf[b] : b \in Apps}
    BY <1>14 DEF OnSystemEvent, LifecycleTypeOK
  <2> QED
    BY <1>14, <2>1, <2>4, <2>5 DEF OnSystemEvent, LifecycleTypeOK, serviceState, counters
<1>15. CASE UNCHANGED vars
  BY <1>15 DEF vars, LifecycleTypeOK, serviceState, counters
<1> QED
  BY <1>1, <1>2, <1>3, <1>4, <1>5, <1>6, <1>7, <1>8, <1>9, <1>10, <1>11, <1>12, <1>13, <1>14, <1>15 DEF Next

-----------------------------------------------------------------------------
(* The retries of the display registration.                                *)

DisplayOK == DisplayRetries /\ AttemptsBounded /\ StoppedMayStart

\* What the lemmas below need of the types.
LEMMA QueueFacts ==
  ASSUME LifecycleTypeOK
  PROVE  /\ Queued \in Seq(Tasks) /\ Len(Queued) \in Nat
         /\ state_ \in {"NOT_START", "RUNNING"} /\ attempts \in Nat
         /\ running.kind # "none" => running.n \in Nat
<1>1. Queued \in Seq(Tasks)
  BY QueueTyped, QueueForm
<1>2. Len(Queued) \in Nat
  BY <1>1
<1>3. ASSUME running.kind # "none" PROVE running.n \in Nat
  BY <1>3, RunningTyped DEF LifecycleTypeOK
<1> QED
  BY <1>1, <1>2, <1>3 DEF LifecycleTypeOK

\* Every step keeps the invariant of the display retries.
LEMMA DisplayStep ==
  ASSUME LifecycleTypeOK, DisplayOK, [Next]_vars
  PROVE  DisplayOK'
<1>1. CASE OnStart
  <2>1. Queued' = Queued
    <3>1. CASE state_ = "RUNNING" \/ queue_.up
      BY <1>1, <3>1 DEF OnStart, Queued
    <3>2. CASE state_ # "RUNNING" /\ ~queue_.up
      <4>1. queue_' = Queue(<<>>)
        BY <1>1, <3>2 DEF OnStart
      <4> QED
        BY <3>2, <4>1 DEF Queued, Queue
    <3> QED
      BY <3>1, <3>2
  <2> QED
    BY <1>1, <2>1 DEF OnStart, serviceState, counters, DisplayRetries, RetryPending, DisplayOK, AttemptsBounded, StoppedMayStart
<1>2. CASE Reset
  <2>1. Queued' = Queued
    BY <1>2 DEF Reset, Queued, serviceState, counters
  <2> QED
    BY <1>2, <2>1 DEF Reset, serviceState, counters, DisplayRetries, RetryPending, DisplayOK, AttemptsBounded, StoppedMayStart
<1>3. CASE OnStop
  <2>1. Queued' = Queued
    BY <1>3 DEF OnStop, Queued, serviceState, counters
  <2> QED
    BY <1>3, <2>1 DEF OnStop, StoppedState, DisplayRetries, RetryPending, DisplayOK, AttemptsBounded, StoppedMayStart
<1>4. CASE DropQueue
  <2>1. Queued' = <<>>
    BY <1>4 DEF DropQueue, Queued, NoQueue
  <2> QED
    <3>1. /\ main # "on" /\ main' = "stop display"
          /\ UNCHANGED <<state_, running, attempts, added>>
      BY <1>4 DEF DropQueue, serviceState, counters
    <3>2. running.kind # "display" /\ state_ # "RUNNING" /\ attempts <= MAX_RETRY_TIMES + 1
      BY <3>1 DEF DisplayRetries, RetryPending, DisplayOK, AttemptsBounded, StoppedMayStart
    <3>3. \A i \in 1..Len(Queued') : FALSE
      BY <2>1
    <3> QED
      BY <3>1, <3>2, <3>3 DEF DisplayRetries, RetryPending, DisplayOK, AttemptsBounded, StoppedMayStart
<1>5. CASE UnregisterDisplay
  <2>1. Queued' = Queued /\ running' = running /\ main' = "off" /\ state_' = state_
    BY <1>5 DEF UnregisterDisplay, Queued, serviceState, counters
  <2>2. /\ main # "on" /\ state_ = "NOT_START" /\ attempts' = attempts
    BY <1>5, QueueFacts DEF UnregisterDisplay, DisplayRetries, RetryPending, DisplayOK, AttemptsBounded, StoppedMayStart
  <2> QED
    BY <2>1, <2>2 DEF DisplayRetries, RetryPending, DisplayOK, AttemptsBounded, StoppedMayStart
<1>6. ASSUME NEW ok \in BOOLEAN, Publish(ok) PROVE DisplayOK'
  <2>1. \A i \in 1..Len(Queued) : Queued[i].kind # "display"
    BY <1>6 DEF Publish, DisplayRetries, RetryPending, DisplayOK, AttemptsBounded, StoppedMayStart
  <2>2. \A i \in 1..Len(Queued') : Queued'[i].kind # "display"
    <3>1. CASE ok
      BY <1>6, <2>1, <3>1 DEF Publish, Queued
    <3>2. CASE ~ok
      <4>1. queue_' = Submit(Task("init", 2))
        BY <1>6, <3>2 DEF Publish
      <4> QED
        BY <2>1, <4>1, QueueTyped, QueueFacts, TaskTypes, SubmitStep
    <3> QED
      BY <3>1, <3>2
  <2> QED
    BY <1>6, <2>2 DEF Publish, serviceState, counters, DisplayRetries, RetryPending, DisplayOK, AttemptsBounded, StoppedMayStart
<1>7. ASSUME NEW ok \in BOOLEAN, OnAddSystemAbility(ok) PROVE DisplayOK'
  <2>1. /\ \A i \in 1..Len(Queued) : Queued[i].kind # "display"
        /\ running.kind # "display" /\ state_ = "NOT_START"
    BY <1>7, QueueFacts DEF OnAddSystemAbility, DisplayRetries, RetryPending, DisplayOK, AttemptsBounded, StoppedMayStart
  <2>2. Register(0, ok)
    BY <1>7 DEF OnAddSystemAbility
  <2>3. /\ running' = running /\ main' = "on" /\ added' = TRUE /\ attempts' = 1
        /\ state_' = IF ok THEN "RUNNING" ELSE "NOT_START"
    BY <1>7, <2>1, <2>2 DEF OnAddSystemAbility, Register
  <2>4. CASE Queued' = Queued
    BY <2>1, <2>3, <2>4, LifecycleAssumption DEF DisplayRetries, RetryPending, DisplayOK, AttemptsBounded, StoppedMayStart
  <2>5. CASE /\ ~ok /\ 0 + 1 <= MAX_RETRY_TIMES
             /\ Len(Queued') = Len(Queued) + 1
             /\ \A i \in 1..Len(Queued) : Queued'[i] = Queued[i]
             /\ Queued'[Len(Queued) + 1] = Task("display", 0 + 1)
    <3>1. \A i \in 1..Len(Queued') : Queued'[i].kind = "display" =>
            i = Len(Queued) + 1 /\ Queued'[i].n = 1
      BY <2>1, <2>5, QueueFacts, TaskTypes
    <3> QED
      BY <2>1, <2>3, <2>5, <3>1, LifecycleAssumption DEF DisplayRetries, RetryPending, DisplayOK, AttemptsBounded, StoppedMayStart
  <2> QED
    BY <2>2, <2>4, <2>5, QueueTyped, RegisterStep DEF LifecycleTypeOK
<1>8. ASSUME NEW ok \in BOOLEAN, RetryDisplay(ok) PROVE DisplayOK'
  <2>1. /\ \A i \in 1..Len(Queued) : Queued[i].kind # "display"
        /\ RetryPending(running.n) /\ running.n \in Nat
    BY <1>8, QueueFacts DEF RetryDisplay, DisplayRetries, RetryPending, DisplayOK, AttemptsBounded, StoppedMayStart
  <2>2. Register(running.n, ok)
    BY <1>8 DEF RetryDisplay
  <2>3. /\ running'.kind # "display" /\ main' = "on" /\ added' = TRUE
        /\ attempts' = running.n + 1 /\ attempts' <= MAX_RETRY_TIMES + 1
        /\ state_' = IF ok THEN "RUNNING" ELSE "NOT_START"
    BY <1>8, <2>1, <2>2, TaskTypes, LifecycleAssumption DEF RetryDisplay, Register, RetryPending, LifecycleTypeOK
  <2>4. CASE Queued' = Queued
    BY <2>1, <2>3, <2>4 DEF DisplayRetries, RetryPending, DisplayOK, AttemptsBounded, StoppedMayStart
  <2>5. CASE /\ ~ok /\ running.n + 1 <= MAX_RETRY_TIMES
             /\ Len(Queued') = Len(Queued) + 1
             /\ \A i \in 1..Len(Queued) : Queued'[i] = Queued[i]
             /\ Queued'[Len(Queued) + 1] = Task("display", running.n + 1)
    <3>1. Task("display", running.n + 1).n = running.n + 1
      BY <2>1, TaskTypes
    <3>2. \A i \in 1..Len(Queued') : Queued'[i].kind = "display" =>
            i = Len(Queued) + 1 /\ Queued'[i].n = running.n + 1
      BY <2>1, <2>5, <3>1, QueueFacts
    <3> QED
      BY <2>3, <2>5, <3>2 DEF DisplayRetries, RetryPending, DisplayOK, AttemptsBounded, StoppedMayStart
  <2> QED
    BY <2>1, <2>2, <2>4, <2>5, QueueTyped, RegisterStep DEF LifecycleTypeOK
<1>9. ASSUME NEW ok \in BOOLEAN, RetryPublish(ok) PROVE DisplayOK'
  <2>1. Queued' = Queued
    BY <1>9 DEF RetryPublish, Queued
  <2>2. running'.kind # "display"
    BY <1>9, TaskTypes DEF RetryPublish
  <2> QED
    BY <1>9, <2>1, <2>2 DEF RetryPublish, serviceState, counters, DisplayRetries, RetryPending, DisplayOK, AttemptsBounded, StoppedMayStart
<1>10. ASSUME queue_.up, NEW i \in DOMAIN queue_.tasks, StartTask(i) PROVE DisplayOK'
  <2>1. /\ i \in 1..Len(Queued) /\ running' = Queued[i]
        /\ Len(Queued') = Len(Queued) - 1
        /\ \A j \in 1..Len(Queued') : Queued'[j] = IF j < i THEN Queued[j] ELSE Queued[j + 1]
    BY <1>10, QueueTyped, StartStep
  <2>2. \A j \in 1..Len(Queued') : Queued'[j].kind = "display" =>
          Queued[IF j < i THEN j ELSE j + 1].kind = "display"
    BY <2>1
  <2>3. running.kind # "display"
    BY <1>10, TaskTypes DEF StartTask
  <2>4. \A j \in 1..Len(Queued') : Queued'[j].kind = "display" =>
          /\ RetryPending(Queued'[j].n) /\ running'.kind # "display"
          /\ \A k \in 1..Len(Queued') : Queued'[k].kind = "display" => j = k
    <3> SUFFICES ASSUME NEW j \in 1..Len(Queued'), Queued'[j].kind = "display"
                 PROVE  /\ RetryPending(Queued'[j].n) /\ running'.kind # "display"
                        /\ \A k \in 1..Len(Queued') : Queued'[k].kind = "display" => j = k
      OBVIOUS
    <3> DEFINE p(k) == IF k < i THEN k ELSE k + 1
    <3>1. Len(Queued) \in Nat /\ i \in Nat /\ j \in Nat
      BY <2>1, QueueFacts
    <3>2. \A k \in 1..Len(Queued') : p(k) \in 1..Len(Queued) /\ p(k) # i /\ (p(j) = p(k) => j = k)
      BY <2>1, <3>1
    <3>3. \A k \in 1..Len(Queued') : Queued'[k] = Queued[p(k)]
      BY <2>1
    <3> HIDE DEF p
    <3>4. Queued[p(j)].kind = "display"
      BY <3>3
    <3>5. /\ RetryPending(Queued[p(j)].n)
          /\ \A m \in 1..Len(Queued) : Queued[m].kind = "display" => p(j) = m
      BY <3>2, <3>4 DEF DisplayOK, DisplayRetries
    <3> QED
      BY <2>1, <3>2, <3>3, <3>5
  <2> QED
    BY <1>10, <2>1, <2>4 DEF StartTask, serviceState, counters, DisplayRetries, RetryPending, DisplayOK, AttemptsBounded, StoppedMayStart
<1>11. CASE RetryReset
  <2>1. Queued' = Queued /\ running'.kind # "display"
    BY <1>11, TaskTypes DEF RetryReset, Queued
  <2> QED
    BY <1>11, <2>1 DEF RetryReset, serviceState, counters, DisplayRetries, RetryPending, DisplayOK, AttemptsBounded, StoppedMayStart
<1>12. CASE OnSystemReady
  <2>1. Queued' = Queued
    BY <1>12 DEF OnSystemReady, Queued
  <2>2. running.n \in Nat
    BY <1>12, QueueFacts DEF OnSystemReady
  <2>3. running'.kind # "display"
    BY <1>12, <2>2, TaskTypes DEF OnSystemReady
  <2> QED
    BY <1>12, <2>1, <2>3 DEF OnSystemReady, serviceState, counters, DisplayRetries, RetryPending, DisplayOK, AttemptsBounded, StoppedMayStart
<1>13. ASSUME NEW a \in Apps, Arrive(a) PROVE DisplayOK'
  <2>1. Queued' = Queued
    BY <1>13 DEF Arrive, Queued, serviceState, counters
  <2> QED
    BY <1>13, <2>1 DEF Arrive, serviceState, counters, DisplayRetries, RetryPending, DisplayOK, AttemptsBounded, StoppedMayStart
<1>14. ASSUME NEW a \in Apps, OnSystemEvent(a) PROVE DisplayOK'
  <2>1. CASE call[a] = "submit"
    <3>1. queue_' = Submit(Task("poll", MaxTries))
      BY <1>14, <2>1 DEF OnSystemEvent, Polled
    <3>2. \A i \in 1..Len(Queued') : Queued'[i].kind = "display" =>
            i \in 1..Len(Queued) /\ Queued'[i] = Queued[i]
      BY <3>1, QueueTyped, QueueFacts, TaskTypes, SubmitStep
    <3> QED
      BY <1>14, <3>2 DEF OnSystemEvent, serviceState, counters, DisplayRetries, RetryPending, DisplayOK, AttemptsBounded, StoppedMayStart
  <2>2. CASE call[a] # "submit"
    <3>1. Queued' = Queued
      BY <1>14, <2>2 DEF OnSystemEvent, Queued
    <3> QED
      BY <1>14, <3>1 DEF OnSystemEvent, serviceState, counters, DisplayRetries, RetryPending, DisplayOK, AttemptsBounded, StoppedMayStart
  <2> QED
    BY <2>1, <2>2
<1>15. CASE UNCHANGED vars
  <2>1. Queued' = Queued
    BY <1>15 DEF vars, Queued
  <2> QED
    BY <1>15, <2>1 DEF vars, serviceState, counters, DisplayRetries, RetryPending, DisplayOK, AttemptsBounded, StoppedMayStart
<1> QED
  BY <1>1, <1>2, <1>3, <1>4, <1>5, <1>6, <1>7, <1>8, <1>9, <1>10, <1>11, <1>12, <1>13, <1>14, <1>15 DEF Next

-----------------------------------------------------------------------------
(* Init and its second attempt.                                            *)

\* OnStart makes the queue, without a task, if there is none.
LEMMA OnStartQueue == ASSUME OnStart PROVE Queued' = Queued
<1>1. CASE state_ = "RUNNING" \/ queue_.up
  BY <1>1 DEF OnStart, Queued
<1>2. CASE state_ # "RUNNING" /\ ~queue_.up
  <2>1. queue_' = Queue(<<>>)
    BY <1>2 DEF OnStart
  <2> QED
    BY <1>2, <2>1 DEF Queued, Queue
<1> QED
  BY <1>1, <1>2

\* A step that neither submits nor starts an attempt.
LEMMA InitKept ==
  ASSUME InitRetries, main' = main, published' = published, stops' = stops,
         running' = running \/ (running' # Task("init", 1) /\ running'.kind # "init"),
         \A i \in 1..Len(Queued') : Queued'[i].kind = "init" =>
           i \in 1..Len(Queued) /\ Queued'[i] = Queued[i],
         \/ running' = running
         \/ \A i \in 1..Len(Queued') : Queued'[i].kind # "init"
         \/ running'.kind # "init"
  PROVE  InitRetries'
BY DEF InitRetries

\* What an appended task of another kind changes.
LEMMA OtherAppended ==
  ASSUME LifecycleTypeOK, NEW t \in Tasks, t.kind # "init",
         \/ Queued' = Queued
         \/ /\ Len(Queued') = Len(Queued) + 1
            /\ \A i \in 1..Len(Queued) : Queued'[i] = Queued[i]
            /\ Queued'[Len(Queued) + 1] = t
  PROVE  \A i \in 1..Len(Queued') : Queued'[i].kind = "init" =>
           i \in 1..Len(Queued) /\ Queued'[i] = Queued[i]
BY QueueFacts

\* Every step keeps the invariant of the two attempts at Init.
LEMMA InitStep ==
  ASSUME LifecycleTypeOK, InitRetries, [Next]_vars
  PROVE  InitRetries'
<1>1. CASE OnStart
  <2>1. Queued' = Queued
    BY <1>1, OnStartQueue
  <2>2. /\ main = "off" /\ main' \in {"off", "publish"}
        /\ UNCHANGED <<published, running, stops>>
    BY <1>1 DEF OnStart, counters
  <2> QED
    BY <2>1, <2>2 DEF InitRetries
<1>2. CASE Reset
  <2>1. Queued' = Queued
    BY <1>2 DEF Reset, Queued
  <2>2. main = "reset" /\ main' = "on" /\ UNCHANGED <<published, running, stops>>
    BY <1>2 DEF Reset, counters
  <2> QED
    BY <2>1, <2>2 DEF InitRetries
<1>3. CASE OnStop
  <2>1. stops \in Nat /\ stops' = stops + 1
    BY <1>3, CountersTyped DEF OnStop
  <2>2. stops' # 0
    BY <2>1
  <2> QED
    BY <2>2 DEF InitRetries
<1>4. CASE DropQueue
  BY <1>4 DEF DropQueue, InitRetries, counters
<1>5. CASE UnregisterDisplay
  BY <1>5 DEF UnregisterDisplay, InitRetries, counters
<1>6. ASSUME NEW ok \in BOOLEAN, Publish(ok) PROVE InitRetries'
  <2> SUFFICES ASSUME stops = 0 PROVE InitRetries'
    BY <1>6 DEF Publish, InitRetries
  <2>1. /\ main = "publish" /\ ~published /\ running.kind # "init" /\ running # Task("init", 1)
        /\ \A i \in 1..Len(Queued) : Queued[i].kind # "init"
    BY <1>6, TaskTypes DEF Publish, InitRetries
  <2>2. CASE ok
    <3>1. Queued' = Queued /\ main' = "reset" /\ published' = TRUE /\ running' = running
      BY <1>6, <2>2 DEF Publish, Queued
    <3> QED
      BY <2>1, <3>1 DEF InitRetries
  <2>3. CASE ~ok
    <3>1. queue_' = Submit(Task("init", 2)) /\ main' = "on" /\ UNCHANGED <<published, running>>
      BY <1>6, <2>3 DEF Publish
    <3>2. \A i \in 1..Len(Queued') : Queued'[i].kind = "init" =>
            i = Len(Queued) + 1 /\ Queued'[i].n = 2
      BY <2>1, <3>1, QueueTyped, QueueFacts, TaskTypes, SubmitStep
    <3> QED
      BY <2>1, <3>1, <3>2 DEF InitRetries
  <2> QED
    BY <2>2, <2>3
<1>7. ASSUME NEW ok \in BOOLEAN, OnAddSystemAbility(ok) PROVE InitRetries'
  <2>1. 0 \in Nat /\ Register(0, ok)
    BY <1>7, QueueFacts DEF OnAddSystemAbility
  <2>2. 0 + 1 \in Nat
    BY <2>1
  <2>3. Task("display", 0 + 1) \in Tasks /\ Task("display", 0 + 1).kind # "init"
    BY <2>2, TaskTypes
  <2>4. \A i \in 1..Len(Queued') : Queued'[i].kind = "init" =>
          i \in 1..Len(Queued) /\ Queued'[i] = Queued[i]
    BY <2>1, <2>3, QueueTyped, CountersTyped, RegisterStep, OtherAppended
  <2>5. running' = running \/ (running' # Task("init", 1) /\ running'.kind # "init")
    BY <1>7, TaskTypes DEF OnAddSystemAbility
  <2>6. UNCHANGED <<main, published, stops>>
    BY <1>7 DEF OnAddSystemAbility
  <2> QED
    BY <2>4, <2>5, <2>6, InitKept
<1>8. ASSUME NEW ok \in BOOLEAN, RetryDisplay(ok) PROVE InitRetries'
  <2>1. running.n \in Nat /\ Register(running.n, ok)
    BY <1>8, QueueFacts DEF RetryDisplay
  <2>2. running.n + 1 \in Nat
    BY <2>1
  <2>3. Task("display", running.n + 1) \in Tasks /\ Task("display", running.n + 1).kind # "init"
    BY <2>2, TaskTypes
  <2>4. \A i \in 1..Len(Queued') : Queued'[i].kind = "init" =>
          i \in 1..Len(Queued) /\ Queued'[i] = Queued[i]
    BY <2>1, <2>3, QueueTyped, CountersTyped, RegisterStep, OtherAppended
  <2>5. running' = running \/ (running' # Task("init", 1) /\ running'.kind # "init")
    BY <1>8, TaskTypes DEF RetryDisplay
  <2>6. UNCHANGED <<main, published, stops>>
    BY <1>8 DEF RetryDisplay
  <2> QED
    BY <2>4, <2>5, <2>6, InitKept
<1>9. ASSUME NEW ok \in BOOLEAN, RetryPublish(ok) PROVE InitRetries'
  <2>1. Queued' = Queued /\ UNCHANGED <<main, stops>>
    BY <1>9 DEF RetryPublish, Queued
  <2>2. CASE ok
    <3>1. published' = TRUE /\ running' = Task("init", 1)
      BY <1>9, <2>2 DEF RetryPublish
    <3>2. running'.kind = "init" /\ running'.n = 1 /\ running.kind = "init" /\ running.n = 2
      BY <1>9, <3>1, TaskTypes DEF RetryPublish
    <3> QED
      BY <2>1, <3>1, <3>2 DEF InitRetries
  <2>3. CASE ~ok
    <3>1. published' = published /\ running' = NoTask
      BY <1>9, <2>3 DEF RetryPublish
    <3>2. running' # Task("init", 1) /\ running'.kind # "init"
      BY <3>1, TaskTypes
    <3> QED
      BY <2>1, <3>1, <3>2, InitKept
  <2> QED
    BY <2>2, <2>3
<1>10. ASSUME queue_.up, NEW i \in DOMAIN queue_.tasks, StartTask(i) PROVE InitRetries'
  <2> SUFFICES ASSUME stops = 0 PROVE InitRetries'
    BY <1>10 DEF StartTask, InitRetries, counters
  <2>1. /\ i \in 1..Len(Queued) /\ running' = Queued[i]
        /\ Len(Queued') = Len(Queued) - 1
        /\ \A j \in 1..Len(Queued') : Queued'[j] = IF j < i THEN Queued[j] ELSE Queued[j + 1]
    BY <1>10, QueueTyped, StartStep
  <2>2. UNCHANGED <<main, published, stops>>
    BY <1>10 DEF StartTask, counters
  <2> DEFINE p(k) == IF k < i THEN k ELSE k + 1
  <2>3. \A j, k \in 1..Len(Queued') :
          /\ p(k) \in 1..Len(Queued) /\ p(k) # i /\ (p(j) = p(k) => j = k)
          /\ Queued'[k] = Queued[p(k)]
    BY <2>1, QueueFacts
  <2> HIDE DEF p
  <2>4. running'.kind = "init" =>
          /\ main = "on" /\ ~published /\ running'.n = 2
          /\ \A k \in 1..Len(Queued') : Queued'[k].kind # "init"
    BY <2>1, <2>3 DEF InitRetries
  <2>5. running' # Task("init", 1)
    BY <2>4, TaskTypes
  <2>6. \A j \in 1..Len(Queued') : Queued'[j].kind = "init" =>
          /\ main = "on" /\ ~published /\ Queued'[j].n = 2 /\ running'.kind # "init"
          /\ \A k \in 1..Len(Queued') : Queued'[k].kind = "init" => j = k
    <3> SUFFICES ASSUME NEW j \in 1..Len(Queued'), Queued'[j].kind = "init"
                 PROVE  /\ main = "on" /\ ~published /\ Queued'[j].n = 2 /\ running'.kind # "init"
                        /\ \A k \in 1..Len(Queued') : Queued'[k].kind = "init" => j = k
      OBVIOUS
    <3>1. /\ main = "on" /\ ~published /\ Queued[p(j)].n = 2
          /\ \A m \in 1..Len(Queued) : Queued[m].kind = "init" => p(j) = m
      BY <2>3 DEF InitRetries
    <3> QED
      BY <2>3, <2>4, <3>1
  <2>7. /\ main \in {"off", "publish", "reset", "on"}
        /\ main \in {"off", "publish"} => ~published
        /\ main = "reset" => published
    BY DEF InitRetries
  <2> QED
    BY <2>2, <2>4, <2>5, <2>6, <2>7 DEF InitRetries
<1>11. CASE RetryReset
  <2>1. Queued' = Queued
    BY <1>11 DEF RetryReset, Queued
  <2>2. running' # Task("init", 1) /\ running'.kind # "init"
    BY <1>11, QueueFacts, TaskTypes DEF RetryReset
  <2>3. UNCHANGED <<main, published, stops>>
    BY <1>11 DEF RetryReset, serviceState, counters
  <2> QED
    BY <2>1, <2>2, <2>3, InitKept
<1>12. CASE OnSystemReady
  <2>1. Queued' = Queued
    BY <1>12 DEF OnSystemReady, Queued
  <2>2. running' # Task("init", 1) /\ running'.kind # "init"
    BY <1>12, QueueFacts, TaskTypes DEF OnSystemReady
  <2>3. UNCHANGED <<main, published, stops>>
    BY <1>12 DEF OnSystemReady, serviceState, counters
  <2> QED
    BY <2>1, <2>2, <2>3, InitKept
<1>13. ASSUME NEW a \in Apps, Arrive(a) PROVE InitRetries'
  <2>1. Queued' = Queued /\ UNCHANGED <<main, published, running, stops>>
    BY <1>13 DEF Arrive, Queued, counters
  <2> QED
    BY <2>1, InitKept
<1>14. ASSUME NEW a \in Apps, OnSystemEvent(a) PROVE InitRetries'
  <2>1. UNCHANGED <<main, published, running, stops>>
    BY <1>14 DEF OnSystemEvent, counters
  <2>2. Task("poll", MaxTries) \in Tasks /\ Task("poll", MaxTries).kind # "init"
    BY TaskTypes
  <2>3. \A i \in 1..Len(Queued') : Queued'[i].kind = "init" =>
          i \in 1..Len(Queued) /\ Queued'[i] = Queued[i]
    <3>1. CASE call[a] = "submit"
      <4>1. queue_' = Submit(Task("poll", MaxTries))
        BY <1>14, <3>1 DEF OnSystemEvent, Polled
      <4> QED
        BY <2>2, <4>1, QueueTyped, SubmitStep, OtherAppended
    <3>2. CASE call[a] # "submit"
      BY <1>14, <3>2 DEF OnSystemEvent, Queued
    <3> QED
      BY <3>1, <3>2
  <2> QED
    BY <2>1, <2>3, InitKept
<1>15. CASE UNCHANGED vars
  <2>1. Queued' = Queued /\ UNCHANGED <<main, published, running, stops>>
    BY <1>15 DEF vars, Queued, counters
  <2> QED
    BY <2>1, InitKept
<1> QED
  BY <1>1, <1>2, <1>3, <1>4, <1>5, <1>6, <1>7, <1>8, <1>9, <1>10, <1>11, <1>12, <1>13, <1>14, <1>15 DEF Next

-----------------------------------------------------------------------------
(* The registrations of the app.                                           *)

RegistrationsOK == Registrations /\ CurrentUserOfListener

\* A step that leaves the registrations alone.
LEMMA RegistrationsKept ==
  ASSUME RegistrationsOK, published' = published, stops' = stops, overlap' = overlap,
         systemEventListener_' = systemEventListener_, currentUser_' = currentUser_, call' = call,
         InitUnderWay' <=> InitUnderWay
  PROVE  RegistrationsOK'
BY DEF RegistrationsOK, Registrations, CurrentUserOfListener, Calling

\* A step before which nobody is registered.
LEMMA NobodyRegistered ==
  ASSUME systemEventListener_ = "nobody", \A a \in Apps : call[a] = "no",
         systemEventListener_' = systemEventListener_, call' = call
  PROVE  RegistrationsOK'
BY DEF RegistrationsOK, Registrations, CurrentUserOfListener, Calling

\* Every step keeps the invariant of the registrations.
LEMMA RegistrationStep ==
  ASSUME LifecycleTypeOK, InitRetries, RegistrationsOK, [Next]_vars
  PROVE  RegistrationsOK'
<1>1. CASE OnStart
  <2>1. UNCHANGED <<published, stops, overlap, systemEventListener_, currentUser_, call>>
    BY <1>1 DEF OnStart, serviceState, counters
  <2>2. InitUnderWay' <=> InitUnderWay
    BY <1>1 DEF OnStart, InitUnderWay, serviceState, counters
  <2> QED
    BY <2>1, <2>2, RegistrationsKept
<1>2. CASE Reset
  <2> SUFFICES ASSUME stops = 0, ~overlap PROVE RegistrationsOK'
    BY <1>2 DEF Reset, RegistrationsOK, Registrations, CurrentUserOfListener, counters
  <2>1. InitUnderWay
    BY <1>2 DEF Reset, InitUnderWay
  <2>2. systemEventListener_ = "nobody" /\ \A a \in Apps : call[a] = "no"
    BY <2>1 DEF RegistrationsOK, Registrations
  <2>3. UNCHANGED <<systemEventListener_, call>>
    BY <1>2 DEF Reset, serviceState
  <2> QED
    BY <2>2, <2>3, NobodyRegistered
<1>3. CASE OnStop
  <2>1. stops \in Nat /\ stops' = stops + 1
    BY <1>3, CountersTyped DEF OnStop
  <2>2. stops' # 0
    BY <2>1
  <2> QED
    BY <2>2 DEF RegistrationsOK, Registrations, CurrentUserOfListener
<1>4. CASE DropQueue
  <2>1. UNCHANGED <<published, stops, overlap, systemEventListener_, currentUser_, call>>
    BY <1>4 DEF DropQueue, serviceState, counters
  <2>2. InitUnderWay' <=> InitUnderWay
    BY <1>4 DEF DropQueue, InitUnderWay, serviceState, counters
  <2> QED
    BY <2>1, <2>2, RegistrationsKept
<1>5. CASE UnregisterDisplay
  BY <1>5 DEF UnregisterDisplay, InitRetries, RegistrationsOK, Registrations, CurrentUserOfListener, counters
<1>6. ASSUME NEW ok \in BOOLEAN, Publish(ok) PROVE RegistrationsOK'
  <2> SUFFICES ASSUME stops = 0, ~overlap PROVE RegistrationsOK'
    BY <1>6 DEF Publish, RegistrationsOK, Registrations, CurrentUserOfListener, counters
  <2>1. ~published
    BY <1>6 DEF Publish, InitRetries
  <2>2. systemEventListener_ = "nobody" /\ \A a \in Apps : call[a] = "no"
    BY <2>1 DEF RegistrationsOK, Registrations
  <2>3. UNCHANGED <<systemEventListener_, call>>
    BY <1>6 DEF Publish, serviceState
  <2> QED
    BY <2>2, <2>3, NobodyRegistered
<1>7. ASSUME NEW ok \in BOOLEAN, OnAddSystemAbility(ok) PROVE RegistrationsOK'
  <2>1. UNCHANGED <<published, stops, overlap, systemEventListener_, currentUser_, call>>
    BY <1>7 DEF OnAddSystemAbility, serviceState, counters
  <2>2. InitUnderWay' <=> InitUnderWay
    BY <1>7 DEF OnAddSystemAbility, InitUnderWay, serviceState, counters
  <2> QED
    BY <2>1, <2>2, RegistrationsKept
<1>8. ASSUME NEW ok \in BOOLEAN, RetryDisplay(ok) PROVE RegistrationsOK'
  <2>1. UNCHANGED <<published, stops, overlap, systemEventListener_, currentUser_, call>>
    BY <1>8 DEF RetryDisplay, serviceState, counters
  <2>2. InitUnderWay' <=> InitUnderWay
    BY <1>8, TaskTypes DEF RetryDisplay, InitUnderWay, serviceState, counters
  <2> QED
    BY <2>1, <2>2, RegistrationsKept
<1>9. ASSUME NEW ok \in BOOLEAN, RetryPublish(ok) PROVE RegistrationsOK'
  <2> SUFFICES ASSUME stops = 0, ~overlap PROVE RegistrationsOK'
    BY <1>9 DEF RetryPublish, RegistrationsOK, Registrations, CurrentUserOfListener, counters
  <2>1. ~published
    BY <1>9, TaskTypes DEF RetryPublish, InitRetries
  <2>2. systemEventListener_ = "nobody" /\ \A a \in Apps : call[a] = "no"
    BY <2>1 DEF RegistrationsOK, Registrations
  <2>3. UNCHANGED <<systemEventListener_, call>>
    BY <1>9 DEF RetryPublish, serviceState
  <2> QED
    BY <2>2, <2>3, NobodyRegistered
<1>10. ASSUME queue_.up, NEW i \in DOMAIN queue_.tasks, StartTask(i) PROVE RegistrationsOK'
  <2> SUFFICES ASSUME stops = 0, ~overlap PROVE RegistrationsOK'
    BY <1>10 DEF StartTask, RegistrationsOK, Registrations, CurrentUserOfListener, counters
  <2>1. i \in 1..Len(Queued) /\ running' = Queued[i] /\ running = NoTask
    BY <1>10, QueueTyped, StartStep DEF StartTask
  <2>2. running' # Task("init", 1) /\ running # Task("init", 1)
    BY <2>1, TaskTypes DEF InitRetries
  <2>3. UNCHANGED <<published, stops, overlap, systemEventListener_, currentUser_, call>> /\ main' = main
    BY <1>10 DEF StartTask, serviceState, counters
  <2> QED
    BY <2>2, <2>3, RegistrationsKept DEF InitUnderWay
<1>11. CASE RetryReset
  <2> SUFFICES ASSUME stops = 0, ~overlap PROVE RegistrationsOK'
    BY <1>11 DEF RetryReset, RegistrationsOK, Registrations, CurrentUserOfListener, counters
  <2>1. InitUnderWay
    BY <1>11 DEF RetryReset, InitUnderWay
  <2>2. systemEventListener_ = "nobody" /\ \A a \in Apps : call[a] = "no"
    BY <2>1 DEF RegistrationsOK, Registrations
  <2>3. UNCHANGED <<systemEventListener_, call>>
    BY <1>11 DEF RetryReset, serviceState
  <2> QED
    BY <2>2, <2>3, NobodyRegistered
<1>12. CASE OnSystemReady
  <2>1. running # Task("init", 1) /\ running' # Task("init", 1)
    BY <1>12, QueueFacts, TaskTypes DEF OnSystemReady
  <2>2. UNCHANGED <<published, stops, overlap, systemEventListener_, currentUser_, call>> /\ main' = main
    BY <1>12 DEF OnSystemReady, serviceState, counters
  <2> QED
    BY <2>1, <2>2, RegistrationsKept DEF InitUnderWay
<1>13. ASSUME NEW a \in Apps, Arrive(a) PROVE RegistrationsOK'
  <2>1. /\ published' = published /\ stops' = stops /\ published
        /\ systemEventListener_' = systemEventListener_ /\ (InitUnderWay' <=> InitUnderWay)
    BY <1>13 DEF Arrive, InitUnderWay, serviceState, counters
  <2> SUFFICES ASSUME ~overlap' PROVE RegistrationsOK'
    BY DEF RegistrationsOK, Registrations, CurrentUserOfListener
  <2>2. ~overlap /\ ~InitUnderWay /\ \A b \in Apps : ~Calling(b)
    BY <1>13 DEF Arrive
  <2>3. call' = [call EXCEPT ![a] = "set"] /\ call \in [Apps -> {"no", "set", "reset", "submit", "user", "done"}]
    BY <1>13, SectionOrder DEF Arrive, LifecycleTypeOK
  <2>4. \A b \in Apps : call'[b] = IF b = a THEN "set" ELSE call[b]
    BY <2>3
  <2>5. \A b \in Apps : b # a => call'[b] \in {"no", "done"}
    BY <2>2, <2>3, <2>4 DEF Calling
  <2> QED
    BY <2>1, <2>2, <2>4, <2>5 DEF RegistrationsOK, Registrations, CurrentUserOfListener, Calling
<1>14. ASSUME NEW a \in Apps, OnSystemEvent(a) PROVE RegistrationsOK'
  <2>1. /\ UNCHANGED <<published, stops, overlap>> /\ (InitUnderWay' <=> InitUnderWay)
    BY <1>14 DEF OnSystemEvent, InitUnderWay, counters
  <2> SUFFICES ASSUME ~overlap, stops = 0 PROVE RegistrationsOK'
    BY <2>1 DEF RegistrationsOK, Registrations, CurrentUserOfListener
  <2>2. call \in [Apps -> {"no", "set", "reset", "submit", "user", "done"}]
    BY DEF LifecycleTypeOK
  <2>3. call[a] \in {"set", "reset", "submit", "user"}
    BY <1>14, <2>2 DEF OnSystemEvent, Calling
  <2>4. published /\ ~InitUnderWay /\ \A b \in Apps : b # a => ~Calling(b)
    BY <2>3 DEF RegistrationsOK, Registrations, Calling
  <2>5. \A b \in Apps : call'[b] = IF b = a THEN SectionAfter(call[a]) ELSE call[b]
    BY <1>14, <2>2 DEF OnSystemEvent
  <2>6. \A b \in Apps : b # a => call'[b] \in {"no", "done"}
    BY <2>2, <2>4, <2>5 DEF Calling
  <2>7. SectionAfter(call[a]) \in {"reset", "submit", "user", "done"}
    BY <2>3, SectionOrder
  <2>8. systemEventListener_' = a
    BY <1>14, <2>3 DEF OnSystemEvent, RegistrationsOK, Registrations
  <2>9. SectionAfter(call[a]) = "done" => currentUser_' = UserOf[a]
    BY <1>14, <2>3, SectionOrder DEF OnSystemEvent
  <2>10. Registrations'
    BY <2>1, <2>4, <2>5, <2>6, <2>7, <2>8 DEF Registrations, Calling
  <2>11. CurrentUserOfListener'
    BY <2>5, <2>7, <2>8, <2>9 DEF CurrentUserOfListener, Calling
  <2> QED
    BY <2>10, <2>11 DEF RegistrationsOK
<1>15. CASE UNCHANGED vars
  <2>1. UNCHANGED <<published, stops, overlap, systemEventListener_, currentUser_, call>>
    BY <1>15 DEF vars, serviceState, counters
  <2>2. InitUnderWay' <=> InitUnderWay
    BY <1>15 DEF vars, InitUnderWay, serviceState, counters
  <2> QED
    BY <2>1, <2>2, RegistrationsKept
<1> QED
  BY <1>1, <1>2, <1>3, <1>4, <1>5, <1>6, <1>7, <1>8, <1>9, <1>10, <1>11, <1>12, <1>13, <1>14, <1>15 DEF Next

-----------------------------------------------------------------------------
(* The theorems.                                                           *)

\* The initial states satisfy the invariant.
LEMMA InitHolds == Init => LifecycleInv
<1> SUFFICES ASSUME Init PROVE LifecycleInv
  OBVIOUS
<1>1. queue_ \in Queues /\ Queued = <<>> /\ Len(Queued) = 0
  BY EmptyQueue DEF Init, Queued, NoQueue
<1>2. running = NoTask /\ running.kind = "none" /\ running # Task("init", 1)
  BY TaskTypes DEF Init
<1>3. LifecycleTypeOK
  BY <1>1, <1>2 DEF Init, LifecycleTypeOK
<1>4. DisplayRetries /\ InitRetries
  BY <1>1, <1>2 DEF Init, DisplayRetries, InitRetries
<1>5. Registrations /\ CurrentUserOfListener
  BY DEF Init, Registrations, CurrentUserOfListener, Calling
<1>6. AttemptsBounded /\ StoppedMayStart
  BY LifecycleAssumption DEF Init, AttemptsBounded, StoppedMayStart
<1> QED
  BY <1>3, <1>4, <1>5, <1>6 DEF LifecycleInv

\* Every step preserves it.
LEMMA StepHolds == LifecycleInv /\ [Next]_vars => LifecycleInv'
<1> SUFFICES ASSUME LifecycleInv, [Next]_vars PROVE LifecycleInv'
  OBVIOUS
<1>1. LifecycleTypeOK /\ InitRetries /\ DisplayOK /\ RegistrationsOK
  BY DEF LifecycleInv, DisplayOK, RegistrationsOK
<1>2. LifecycleTypeOK'
  BY <1>1, TypeStep
<1>3. InitRetries'
  BY <1>1, InitStep
<1>4. DisplayOK'
  BY <1>1, DisplayStep
<1>5. RegistrationsOK'
  BY <1>1, RegistrationStep
<1> QED
  BY <1>2, <1>3, <1>4, <1>5 DEF LifecycleInv, DisplayOK, RegistrationsOK

\* The inductive invariant of the start, the stop and the announcement holds
\* for every number of apps, tries, retries and stops.
THEOREM LifecycleInvariant == Spec => []LifecycleInv
BY InitHolds, StepHolds, PTL DEF Spec

\* State, queue, running task and calls keep their types: the queue takes
\* only display retries, polls and second attempts at Init.
THEOREM LifecycleTypeCorrect == Spec => []LifecycleTypeOK
<1>1. LifecycleInv => LifecycleTypeOK
  BY DEF LifecycleInv
<1> QED
  BY <1>1, LifecycleInvariant, PTL

\* OnSystemEvent: after registrations that overlapped neither each other nor an
\* Init the events forwarded are those of the registered app's user.
THEOREM CurrentUserRight == Spec => []CurrentUserOfListener
<1>1. LifecycleInv => CurrentUserOfListener
  BY DEF LifecycleInv
<1> QED
  BY <1>1, LifecycleInvariant, PTL

\* RegisterDisplayPowerEventListener tries once and MAX_RETRY_TIMES more, in
\* whatever order the queue runs what waits in it.
THEOREM AttemptsEnd == Spec => []AttemptsBounded
<1>1. LifecycleInv => AttemptsBounded
  BY DEF LifecycleInv
<1> QED
  BY <1>1, LifecycleInvariant, PTL

\* OnStop: no display retry that was queued or under way leaves the stopped
\* service RUNNING, so OnStart publishes it again.
THEOREM StoppedCanStart == Spec => []StoppedMayStart
<1>1. LifecycleInv => StoppedMayStart
  BY DEF LifecycleInv
<1> QED
  BY <1>1, LifecycleInvariant, PTL
==============================================================================
