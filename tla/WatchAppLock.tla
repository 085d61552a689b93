---------------------------- MODULE WatchAppLock ----------------------------
(***************************************************************************)
(* The lock of payment apps on a watch.  An app whose user entered the PIN *)
(* is on the record unlockedRecord until its window is hidden, the screen  *)
(* goes off or the watch is taken off; with the leave-wrist setting one    *)
(* entry of the PIN (isWristUnlock_) holds for every app as long as the    *)
(* watch is worn.                                                          *)
(*                                                                         *)
(* unlockedRecord has a mutex of its own, under which the observers of     *)
(* windows and of the setting are registered and unregistered.             *)
(* isWearOn_ and isWristUnlock_ are plain members: every access to one is  *)
(* a step.                                                                 *)
(*                                                                         *)
(* External: the sensor, the display, the settings, the windows and the    *)
(* PIN dialog.  The PIN and the password scope are read from outside and   *)
(* may have any value.                                                     *)
(***************************************************************************)
EXTENDS Naturals

CONSTANTS
  Apps,         \* payment apps
  MAX_RETRIES,
  MaxEvents,    \* bound: calls of unlockScreen and changes outside
  MaxFails      \* bound: registrations that fail

ASSUME WatchAssumption ==
  MAX_RETRIES \in Nat \ {0} /\ MaxEvents \in Nat /\ MaxFails \in Nat

VARIABLES
  elements,             \* the apps on unlockedRecord
  appStateObserver_, leaveWristSettingObserver_,
  isWearOn_, isWristUnlock_,
  unlock,               \* where the unlockScreen call of an app is
  dataReady,            \* AuthCallback: the result, "none" before OnResult
  wear,                 \* where WearStateChange is
  onChange,             \* where OnChange is
  registered_, retryCount_, tasks, \* of the observers of sensor and display
  subscribed,           \* external: whether they get events
  visible, hiddenEvents,\* external: windows, and OnWindowHidden on its way
  leaveWrist, settingEvent, \* external: the setting, and OnChange on its way
  early,                \* history: apps hidden before they were on the record
  stale,                \* history: why isWristUnlock_ may hold too long
  events, fails

recordVars   == <<elements, appStateObserver_, leaveWristSettingObserver_>>
wristVars    == <<isWearOn_, isWristUnlock_>>
callVars     == <<unlock, dataReady>>
sensorVars   == <<registered_, retryCount_, tasks, subscribed>>
windowVars   == <<visible, hiddenEvents, early>>
settingVars  == <<leaveWrist, settingEvent, onChange>>
vars == <<recordVars, wristVars, callVars, wear, sensorVars, windowVars, settingVars, stale,
          events, fails>>

Sources == {"sensor", "display"}
ObserverStates == {"none", "registered", "failed"}
AuthSteps == {"wait", "waiting", "woken", "add"}

WatchTypeOK ==
  /\ elements \in SUBSET Apps
  /\ appStateObserver_ \in ObserverStates /\ leaveWristSettingObserver_ \in ObserverStates
  /\ isWearOn_ \in BOOLEAN /\ isWristUnlock_ \in BOOLEAN
  /\ unlock \in [Apps -> {"no"} \cup AuthSteps \cup {"setting", "wear", "store"}]
  /\ dataReady \in [Apps -> {"none", "success", "failure"}]
  /\ wear \in {"idle", "clear", "reset"} /\ onChange \in {"idle", "clear", "reset"}
  /\ registered_ \in [Sources -> BOOLEAN] /\ subscribed \in [Sources -> BOOLEAN]
  /\ retryCount_ \in [Sources -> 0..MAX_RETRIES] /\ tasks \in [Sources -> {0, 1}]
  /\ visible \in SUBSET Apps /\ hiddenEvents \in SUBSET Apps /\ early \in SUBSET Apps
  /\ leaveWrist \in BOOLEAN /\ settingEvent \in BOOLEAN
  /\ stale \in SUBSET {"wear", "setting"}
  /\ events \in Nat /\ fails \in Nat

\* The constructor registers with the sensor and the display.
Init ==
  /\ elements = {} /\ appStateObserver_ = "none" /\ leaveWristSettingObserver_ = "none"
  /\ isWearOn_ = FALSE /\ isWristUnlock_ = FALSE
  /\ unlock = [a \in Apps |-> "no"] /\ dataReady = [a \in Apps |-> "none"]
  /\ wear = "idle" /\ onChange = "idle"
  /\ registered_ = [o \in Sources |-> TRUE] /\ retryCount_ = [o \in Sources |-> 0]
  /\ tasks = [o \in Sources |-> 1] /\ subscribed = [o \in Sources |-> FALSE]
  /\ visible = {} /\ hiddenEvents = {} /\ early = {}
  /\ leaveWrist \in BOOLEAN /\ settingEvent = FALSE
  /\ stale = {}
  /\ events = 0 /\ fails = 0

Counted == events < MaxEvents /\ events' = events + 1

-----------------------------------------------------------------------------
(* UnlockedRecord, under its mutex.  (Each Mut_ operator is a faulty       *)
(* variant of the definition that follows it; no action uses one.)         *)

\* A registration replaces the observer, one that fails leaves an observer
\* without events.
RegisterObservers ==
  \E ok \in [{"app", "setting"} -> BOOLEAN] :
    /\ appStateObserver_' = IF ok["app"] THEN "registered" ELSE "failed"
    /\ leaveWristSettingObserver_' = IF ok["setting"] THEN "registered" ELSE "failed"
    /\ IF \A o \in {"app", "setting"} : ok[o] THEN UNCHANGED fails
       ELSE fails < MaxFails /\ fails' = fails + 1

UnregisterObservers ==
  /\ appStateObserver_' = IF appStateObserver_ = "failed" THEN "failed" ELSE "none"
  /\ leaveWristSettingObserver_' = "none"

add(a) ==
  /\ elements' = elements \cup {a}
  /\ IF elements = {} THEN RegisterObservers
     ELSE UNCHANGED <<appStateObserver_, leaveWristSettingObserver_, fails>>

Mut_UnregisterAtOnce(rest) == TRUE

Emptied(rest) == rest = {}

\* remove, and clear.
Keep(rest) ==
  /\ elements' = rest
  /\ IF Emptied(rest) THEN UnregisterObservers
     ELSE UNCHANGED <<appStateObserver_, leaveWristSettingObserver_>>

-----------------------------------------------------------------------------
(* The observers of the sensor and the display.                            *)

Mut_AlwaysStarts(o) == TRUE

Starts(o) == ~registered_[o]

\* RegisterSensorListener and RegisterDisplayPowerEventListener.
RegisterListeners ==
  /\ registered_' = [o \in Sources |-> TRUE]
  /\ retryCount_' = [o \in Sources |-> IF Starts(o) THEN 0 ELSE retryCount_[o]]
  /\ tasks' = [o \in Sources |-> IF Starts(o) THEN tasks[o] + 1 ELSE tasks[o]]
  /\ UNCHANGED subscribed

\* One turn of the loop of RetryRegistration.
RetryRegistration(o, ok) ==
  /\ tasks[o] > 0
  /\ IF ok
     THEN /\ subscribed' = [subscribed EXCEPT ![o] = TRUE]
          /\ tasks' = [tasks EXCEPT ![o] = @ - 1]
          /\ UNCHANGED <<registered_, retryCount_, fails>>
     ELSE /\ fails < MaxFails /\ fails' = fails + 1
          /\ retryCount_' = [retryCount_ EXCEPT ![o] = @ + 1]
          /\ LET over == retryCount_[o] + 1 = MAX_RETRIES IN
             /\ registered_' = [registered_ EXCEPT ![o] = ~over]
             /\ tasks' = [tasks EXCEPT ![o] = IF over THEN @ - 1 ELSE @]
          /\ UNCHANGED subscribed
  /\ UNCHANGED <<recordVars, wristVars, callVars, wear, windowVars, settingVars, stale, events>>

-----------------------------------------------------------------------------
(* unlockScreen.                                                           *)

Goto(a, pc) == unlock' = [unlock EXCEPT ![a] = pc]

\* IsScreenLocked(false) of the caller's own bundle: the value of a setting
\* that cannot be read is that of a disabled one.
AppLocked(a, hasPin, deviceScope, known) ==
  hasPin /\ ~(leaveWrist /\ known /\ deviceScope) /\ ~isWristUnlock_ /\ a \notin elements

\* Up to the start of the PIN dialog.
unlockScreen(a) ==
  /\ Counted
  /\ unlock[a] = "no" /\ a \in visible
  /\ RegisterListeners
  /\ \E hasPin, deviceScope, known \in BOOLEAN :
       Goto(a, IF AppLocked(a, hasPin, deviceScope, known) THEN "wait" ELSE "no")
  /\ dataReady' = [dataReady EXCEPT ![a] = "none"]
  /\ UNCHANGED <<recordVars, wristVars, wear, windowVars, settingVars, stale, fails>>

\* The dialog calls back once; notify_one wakes only a thread that waits.
OnResult(a, result) ==
  /\ unlock[a] \in {"wait", "waiting"} /\ dataReady[a] = "none"
  /\ dataReady' = [dataReady EXCEPT ![a] = result]
  /\ unlock' = IF unlock[a] = "waiting" THEN [unlock EXCEPT ![a] = "woken"] ELSE unlock
  /\ UNCHANGED <<recordVars, wristVars, wear, sensorVars, windowVars, settingVars, stale,
                 events, fails>>

Mut_WaitFirst(a) == unlock[a] = "wait"

MustWait(a) == dataReady[a] = "none"

\* WaitAuthFinish: the predicate is looked at before the thread waits.
WaitAuthFinish(a) ==
  /\ unlock[a] \in {"wait", "woken"}
  /\ Goto(a, IF MustWait(a) THEN "waiting" ELSE IF dataReady[a] = "success" THEN "add" ELSE "no")
  /\ UNCHANGED <<recordVars, wristVars, dataReady, wear, sensorVars, windowVars, settingVars,
                 stale, events, fails>>

AddToRecord(a) ==
  /\ unlock[a] = "add" /\ Goto(a, "setting")
  /\ add(a)
  /\ UNCHANGED <<wristVars, dataReady, wear, sensorVars, windowVars, settingVars, stale, events>>

\* IsLeaveWrist, which a failed query answers with false.
ReadLeaveWrist(a, known) ==
  /\ unlock[a] = "setting" /\ Goto(a, IF leaveWrist /\ known THEN "wear" ELSE "no")
  /\ UNCHANGED <<recordVars, wristVars, dataReady, wear, sensorVars, windowVars, settingVars,
                 stale, events, fails>>

Mut_Worn == TRUE

Worn == isWearOn_

ReadWearOn(a) ==
  /\ unlock[a] = "wear" /\ Goto(a, IF Worn THEN "store" ELSE "no")
  /\ UNCHANGED <<recordVars, wristVars, dataReady, wear, sensorVars, windowVars, settingVars,
                 stale, events, fails>>

StoreWristUnlock(a) ==
  /\ unlock[a] = "store" /\ Goto(a, "no")
  /\ isWristUnlock_' = TRUE
  /\ UNCHANGED <<recordVars, isWearOn_, dataReady, wear, sensorVars, windowVars, settingVars,
                 stale, events, fails>>

-----------------------------------------------------------------------------
(* What locks again.                                                       *)

\* An unlockScreen that saw the watch worn, or the setting on, goes on.
Racing(steps, why) == IF \E a \in Apps : unlock[a] \in steps THEN stale \cup {why} ELSE stale

\* WearStateChange: the member, the record, the flag.
WearStateChange(isWearOn) ==
  /\ Counted /\ subscribed["sensor"] /\ wear = "idle"
  /\ isWearOn_' = isWearOn
  /\ wear' = IF isWearOn THEN "idle" ELSE "clear"
  /\ stale' = IF isWearOn THEN stale \ {"wear"} ELSE stale
  /\ UNCHANGED <<recordVars, isWristUnlock_, callVars, sensorVars, windowVars, settingVars, fails>>

WearClears ==
  /\ wear = "clear" /\ wear' = "reset"
  /\ Keep({})
  /\ UNCHANGED <<wristVars, callVars, sensorVars, windowVars, settingVars, stale, events, fails>>

WearResets ==
  /\ wear = "reset" /\ wear' = "idle"
  /\ isWristUnlock_' = FALSE
  /\ stale' = Racing({"store"}, "wear")
  /\ UNCHANGED <<recordVars, isWearOn_, callVars, sensorVars, windowVars, settingVars, events, fails>>

OnScreenOffEnd ==
  /\ Counted /\ subscribed["display"]
  /\ Keep({})
  /\ UNCHANGED <<wristVars, callVars, wear, sensorVars, windowVars, settingVars, stale, fails>>

OnWindowHidden(a) ==
  /\ a \in hiddenEvents /\ hiddenEvents' = hiddenEvents \ {a}
  /\ Keep(elements \ {a})
  /\ UNCHANGED <<wristVars, callVars, wear, sensorVars, visible, early, settingVars, stale,
                 events, fails>>

\* LeaveWristSettingObserver::OnChange: the setting, the record, the flag.
OnChange(known) ==
  /\ settingEvent /\ settingEvent' = FALSE
  /\ onChange = "idle" /\ onChange' = IF leaveWrist /\ known THEN "idle" ELSE "clear"
  /\ UNCHANGED <<recordVars, wristVars, callVars, wear, sensorVars, windowVars, leaveWrist, stale,
                 events, fails>>

OnChangeClears ==
  /\ onChange = "clear" /\ onChange' = "reset"
  /\ Keep({})
  /\ UNCHANGED <<wristVars, callVars, wear, sensorVars, windowVars, leaveWrist, settingEvent,
                 stale, events, fails>>

Mut_FlagKept == isWristUnlock_

FlagReset == FALSE

OnChangeResets ==
  /\ onChange = "reset" /\ onChange' = "idle"
  /\ isWristUnlock_' = FlagReset
  /\ stale' = Racing({"wear", "store"}, "setting")
  /\ UNCHANGED <<recordVars, isWearOn_, callVars, wear, sensorVars, windowVars, leaveWrist,
                 settingEvent, events, fails>>

-----------------------------------------------------------------------------
(* Outside.                                                                *)

Show(a) ==
  /\ Counted /\ a \notin visible
  /\ visible' = visible \cup {a} /\ early' = early \ {a}
  /\ UNCHANGED <<recordVars, wristVars, callVars, wear, sensorVars, hiddenEvents, settingVars,
                 stale, fails>>

\* Who hides before it is on the record may not be observed yet.
Hide(a) ==
  /\ a \in visible /\ visible' = visible \ {a}
  /\ hiddenEvents' = IF appStateObserver_ = "registered" THEN hiddenEvents \cup {a} ELSE hiddenEvents
  /\ early' = IF unlock[a] \in AuthSteps THEN early \cup {a} ELSE early
  /\ UNCHANGED <<recordVars, wristVars, callVars, wear, sensorVars, settingVars, stale, events, fails>>

SetLeaveWrist(on) ==
  /\ Counted /\ leaveWrist # on /\ leaveWrist' = on
  /\ settingEvent' = (settingEvent \/ leaveWristSettingObserver_ = "registered")
  /\ stale' = IF on THEN stale \ {"setting"}
              ELSE IF leaveWristSettingObserver_ = "registered" THEN stale
              ELSE stale \cup {"setting"}
  /\ UNCHANGED <<recordVars, wristVars, callVars, wear, sensorVars, windowVars, onChange, fails>>

-----------------------------------------------------------------------------
CallStep(a) ==
  \/ WaitAuthFinish(a) \/ AddToRecord(a)
  \/ \E known \in BOOLEAN : ReadLeaveWrist(a, known)
  \/ ReadWearOn(a) \/ StoreWristUnlock(a)

Next ==
  \/ \E a \in Apps :
       \/ unlockScreen(a) \/ CallStep(a)
       \/ OnResult(a, "success") \/ OnResult(a, "failure")
       \/ OnWindowHidden(a) \/ Show(a) \/ Hide(a)
  \/ \E o \in Sources, ok \in BOOLEAN : RetryRegistration(o, ok)
  \/ \E b \in BOOLEAN : WearStateChange(b) \/ OnChange(b) \/ SetLeaveWrist(b)
  \/ WearClears \/ WearResets \/ OnScreenOffEnd \/ OnChangeClears \/ OnChangeResets

Spec == Init /\ [][Next]_vars

\* The dialog ends, and a call that has begun goes on.
Fairness ==
  \A a \in Apps :
    /\ WF_vars(OnResult(a, "success") \/ OnResult(a, "failure"))
    /\ WF_vars(CallStep(a))

LiveSpec == Spec /\ Fairness

-----------------------------------------------------------------------------
(* Properties.                                                             *)

\* OnWindowHidden: an app on the record whose window was hidden since is about
\* to be removed, whatever other apps come to and leave the record and take
\* the common observer with them.  (Unless it was hidden before it was on the
\* record, or the observer could not be registered.)
HiddenRelocked ==
  \A a \in elements \ (visible \cup early) :
    a \in hiddenEvents \/ appStateObserver_ = "failed"

\* WearStateChange: no unlocking on the wrist outlives the wearing, unless an
\* unlockScreen that had read isWearOn_ before stored the flag after the reset.
WearOffEndsUnlock ==
  isWristUnlock_ /\ wear = "idle" /\ "wear" \notin stale => isWearOn_

\* OnChange: no unlocking on the wrist outlives the setting, unless the
\* observer was not registered when it was turned off (the record was empty)
\* or an unlockScreen that had read the setting went on after the reset.
SettingOffEndsUnlock ==
  isWristUnlock_ /\ "setting" \notin stale => leaveWrist \/ settingEvent \/ onChange # "idle"

\* registered_ of either observer says that it is subscribed or that exactly
\* one retry thread is at work, however many unlockScreen calls register again
\* while one gives up.
RegistrationHeld ==
  \A o \in Sources :
    tasks[o] + (IF subscribed[o] THEN 1 ELSE 0) = (IF registered_[o] THEN 1 ELSE 0)

\* Every unlockScreen returns once the dialog ended, also when the result
\* comes before WaitAuthFinish waits for it.
UnlockReturns == \A a \in Apps : unlock[a] # "no" ~> unlock[a] = "no"

-----------------------------------------------------------------------------
(* The inductive invariant behind the safety properties.                   *)

SettingKnown == leaveWrist \/ settingEvent \/ onChange # "idle"

\* A retry thread that runs has an attempt left.
RetriesLeft == \A o \in Sources : tasks[o] = 1 => retryCount_[o] < MAX_RETRIES

\* An app on the record is observed, or the observer could not be registered.
ElementsObserved == elements # {} => appStateObserver_ # "none"

\* Who waits for the dialog is visible or was hidden too early.
WaitingSeen == \A a \in Apps : unlock[a] \in AuthSteps => a \in visible \cup early

\* The properties of the flag hold already of a call about to store it.
AboutToStore ==
  \A a \in Apps :
    /\ unlock[a] = "store" /\ wear = "idle" /\ "wear" \notin stale => isWearOn_
    /\ unlock[a] \in {"wear", "store"} /\ "setting" \notin stale => SettingKnown

WatchInv ==
  /\ WatchTypeOK /\ RegistrationHeld /\ RetriesLeft
  /\ HiddenRelocked /\ ElementsObserved /\ WaitingSeen
  /\ WearOffEndsUnlock /\ SettingOffEndsUnlock /\ AboutToStore
=============================================================================
