------------------------- MODULE WatchAppLock_proofs -------------------------
(***************************************************************************)
(* Theorems about WatchAppLock, for any payment apps and bounds.           *)
(***************************************************************************)
EXTENDS WatchAppLock, TLAPS

-----------------------------------------------------------------------------
(* The observers of the sensor and the display.                            *)

SensorOK ==
  /\ registered_ \in [Sources -> BOOLEAN] /\ subscribed \in [Sources -> BOOLEAN]
  /\ retryCount_ \in [Sources -> 0..MAX_RETRIES] /\ tasks \in [Sources -> {0, 1}]
  /\ RegistrationHeld /\ RetriesLeft

LEMMA RegisterKeeps == ASSUME SensorOK, RegisterListeners PROVE SensorOK'
<1>1. ASSUME NEW o \in Sources
      PROVE  /\ tasks'[o] \in {0, 1} /\ retryCount_'[o] \in 0..MAX_RETRIES
             /\ tasks'[o] = 1 => retryCount_'[o] < MAX_RETRIES
             /\ tasks'[o] + (IF subscribed'[o] THEN 1 ELSE 0) = 1 /\ registered_'[o]
  <2>1. /\ tasks[o] \in {0, 1} /\ retryCount_[o] \in 0..MAX_RETRIES
        /\ tasks[o] = 1 => retryCount_[o] < MAX_RETRIES
        /\ tasks[o] + (IF subscribed[o] THEN 1 ELSE 0) = (IF registered_[o] THEN 1 ELSE 0)
    BY DEF SensorOK, RegistrationHeld, RetriesLeft
  <2>2. /\ tasks'[o] = (IF registered_[o] THEN tasks[o] ELSE tasks[o] + 1)
        /\ retryCount_'[o] = (IF registered_[o] THEN retryCount_[o] ELSE 0)
        /\ registered_'[o] /\ subscribed' = subscribed
    BY DEF RegisterListeners, Starts
  <2>3. CASE registered_[o]
    BY <2>1, <2>2, <2>3
  <2>4. CASE ~registered_[o]
    BY <2>1, <2>2, <2>4, WatchAssumption
  <2> QED
    BY <2>3, <2>4
<1>2. registered_' \in [Sources -> BOOLEAN] /\ subscribed' \in [Sources -> BOOLEAN]
  BY DEF SensorOK, RegisterListeners
<1>3. retryCount_' \in [Sources -> 0..MAX_RETRIES] /\ tasks' \in [Sources -> {0, 1}]
  BY <1>1 DEF RegisterListeners
<1> QED
  BY <1>1, <1>2, <1>3 DEF SensorOK, RegistrationHeld, RetriesLeft

LEMMA RetryKeeps ==
  ASSUME SensorOK, NEW o \in Sources, NEW ok \in BOOLEAN, RetryRegistration(o, ok)
  PROVE  SensorOK'
<1>1. /\ tasks[o] = 1 /\ retryCount_[o] \in Nat /\ retryCount_[o] < MAX_RETRIES
      /\ ~subscribed[o] /\ registered_[o]
  BY DEF RetryRegistration, SensorOK, RegistrationHeld, RetriesLeft
<1>2. CASE ok
  <2>1. /\ subscribed' = [subscribed EXCEPT ![o] = TRUE]
        /\ tasks' = [tasks EXCEPT ![o] = 0]
        /\ UNCHANGED <<registered_, retryCount_>>
    BY <1>1, <1>2 DEF RetryRegistration
  <2> QED
    BY <1>1, <2>1 DEF SensorOK, RegistrationHeld, RetriesLeft
<1>3. CASE ~ok
  <2> DEFINE over == retryCount_[o] + 1 = MAX_RETRIES
  <2>1. /\ retryCount_' = [retryCount_ EXCEPT ![o] = retryCount_[o] + 1]
        /\ registered_' = [registered_ EXCEPT ![o] = ~over]
        /\ tasks' = [tasks EXCEPT ![o] = IF over THEN 0 ELSE 1]
        /\ UNCHANGED subscribed
    BY <1>1, <1>3 DEF RetryRegistration
  <2>2. retryCount_[o] + 1 \in 0..MAX_RETRIES /\ (~over => retryCount_[o] + 1 < MAX_RETRIES)
    BY <1>1, WatchAssumption
  <2>3. CASE over
    BY <1>1, <2>1, <2>2, <2>3 DEF SensorOK, RegistrationHeld, RetriesLeft
  <2>4. CASE ~over
    BY <1>1, <2>1, <2>2, <2>4 DEF SensorOK, RegistrationHeld, RetriesLeft
  <2> QED
    BY <2>3, <2>4
<1> QED
  BY <1>2, <1>3

LEMMA SensorStep == ASSUME SensorOK, [Next]_vars PROVE SensorOK'
<1>1. ASSUME NEW a \in Apps, unlockScreen(a) PROVE SensorOK'
  BY <1>1, RegisterKeeps DEF unlockScreen
<1>2. ASSUME NEW o \in Sources, NEW ok \in BOOLEAN, RetryRegistration(o, ok) PROVE SensorOK'
  BY <1>2, RetryKeeps
<1>3. ASSUME UNCHANGED sensorVars PROVE SensorOK'
  BY <1>3 DEF SensorOK, RegistrationHeld, RetriesLeft, sensorVars
<1>4. ASSUME NEW a \in Apps, CallStep(a) PROVE UNCHANGED sensorVars
  BY <1>4 DEF CallStep, WaitAuthFinish, AddToRecord, ReadLeaveWrist, ReadWearOn, StoreWristUnlock
<1>5. ASSUME NEW a \in Apps,
             OnResult(a, "success") \/ OnResult(a, "failure") \/ OnWindowHidden(a) \/ Show(a) \/ Hide(a)
      PROVE  UNCHANGED sensorVars
  BY <1>5 DEF OnResult, OnWindowHidden, Show, Hide
<1>6. ASSUME NEW b \in BOOLEAN, WearStateChange(b) \/ OnChange(b) \/ SetLeaveWrist(b)
      PROVE  UNCHANGED sensorVars
  BY <1>6 DEF WearStateChange, OnChange, SetLeaveWrist
<1>7. ASSUME WearClears \/ WearResets \/ OnScreenOffEnd \/ OnChangeClears \/ OnChangeResets
      PROVE  UNCHANGED sensorVars
  BY <1>7 DEF WearClears, WearResets, OnScreenOffEnd, OnChangeClears, OnChangeResets
<1>8. CASE UNCHANGED vars
  BY <1>3, <1>8 DEF vars
<1> QED
  BY <1>1, <1>2, <1>3, <1>4, <1>5, <1>6, <1>7, <1>8 DEF Next

-----------------------------------------------------------------------------
(* The record, the windows and the calls.                                  *)

RecordOK ==
  /\ elements \in SUBSET Apps
  /\ appStateObserver_ \in ObserverStates /\ leaveWristSettingObserver_ \in ObserverStates
  /\ unlock \in [Apps -> {"no"} \cup AuthSteps \cup {"setting", "wear", "store"}]
  /\ dataReady \in [Apps -> {"none", "success", "failure"}]
  /\ visible \in SUBSET Apps /\ hiddenEvents \in SUBSET Apps /\ early \in SUBSET Apps
  /\ HiddenRelocked /\ ElementsObserved /\ WaitingSeen

\* A call goes to its next step; who starts to wait is visible or was seen early.
LEMMA GotoKeeps ==
  ASSUME RecordOK, NEW a \in Apps,
         NEW pc \in {"no"} \cup AuthSteps \cup {"setting", "wear", "store"}, Goto(a, pc),
         pc \in AuthSteps => a \in visible \/ unlock[a] \in AuthSteps,
         dataReady' \in [Apps -> {"none", "success", "failure"}],
         UNCHANGED <<recordVars, windowVars>>
  PROVE  RecordOK'
<1>1. unlock' \in [Apps -> {"no"} \cup AuthSteps \cup {"setting", "wear", "store"}]
  BY DEF RecordOK, Goto
<1>2. WaitingSeen'
  BY DEF RecordOK, Goto, WaitingSeen, windowVars
<1> QED
  BY <1>1, <1>2 DEF RecordOK, HiddenRelocked, ElementsObserved, recordVars, windowVars

\* The record shrinks.
LEMMA KeepKeeps ==
  ASSUME RecordOK, NEW rest \in SUBSET elements, Keep(rest),
         \A a \in rest : a \in hiddenEvents => a \in hiddenEvents',
         hiddenEvents' \in SUBSET Apps, UNCHANGED <<callVars, visible, early>>
  PROVE  RecordOK'
<1>1. elements' = rest /\ elements' \in SUBSET Apps
  BY DEF RecordOK, Keep
<1>2. CASE rest = {}
  BY <1>1, <1>2 DEF RecordOK, Keep, Emptied, UnregisterObservers, ObserverStates, HiddenRelocked,
                    ElementsObserved, WaitingSeen, callVars
<1>3. CASE rest # {}
  BY <1>1, <1>3 DEF RecordOK, Keep, Emptied, HiddenRelocked, ElementsObserved, WaitingSeen, callVars
<1> QED
  BY <1>2, <1>3

LEMMA AddKeeps == ASSUME RecordOK, NEW a \in Apps, AddToRecord(a) PROVE RecordOK'
<1>1. a \in visible \cup early /\ elements' = elements \cup {a}
  BY DEF RecordOK, AddToRecord, WaitingSeen, AuthSteps, add
<1>2. UNCHANGED <<dataReady, visible, hiddenEvents, early>>
  BY DEF AddToRecord, windowVars
<1>3. /\ unlock' \in [Apps -> {"no"} \cup AuthSteps \cup {"setting", "wear", "store"}]
      /\ WaitingSeen'
  BY <1>2 DEF RecordOK, AddToRecord, Goto, WaitingSeen, AuthSteps
<1>4. CASE elements = {}
  <2>1. /\ appStateObserver_' \in {"registered", "failed"}
        /\ leaveWristSettingObserver_' \in {"registered", "failed"}
    <3>1. RegisterObservers
      BY <1>4 DEF AddToRecord, add
    <3> QED
      BY <3>1 DEF RegisterObservers
  <2>2. HiddenRelocked' /\ ElementsObserved'
    BY <1>1, <1>2, <1>4, <2>1 DEF HiddenRelocked, ElementsObserved
  <2> QED
    BY <1>1, <1>2, <1>3, <2>1, <2>2 DEF RecordOK, ObserverStates
<1>5. CASE elements # {}
  <2>1. UNCHANGED <<appStateObserver_, leaveWristSettingObserver_>>
    BY <1>5 DEF AddToRecord, add
  <2>2. HiddenRelocked' /\ ElementsObserved'
    BY <1>1, <1>2, <1>5, <2>1 DEF RecordOK, HiddenRelocked, ElementsObserved
  <2> QED
    BY <1>1, <1>2, <1>3, <2>1, <2>2 DEF RecordOK
<1> QED
  BY <1>4, <1>5

LEMMA WindowsKeep ==
  ASSUME RecordOK, NEW a \in Apps, OnWindowHidden(a) \/ Show(a) \/ Hide(a)
  PROVE  RecordOK'
<1>1. CASE OnWindowHidden(a)
  <2>1. /\ hiddenEvents' \in SUBSET Apps /\ UNCHANGED <<callVars, visible, early>>
        /\ \A b \in elements \ {a} : b \in hiddenEvents => b \in hiddenEvents'
    BY <1>1 DEF RecordOK, OnWindowHidden
  <2>2. Keep(elements \ {a})
    BY <1>1 DEF OnWindowHidden
  <2> QED
    BY <2>1, <2>2, KeepKeeps
<1>2. CASE Show(a)
  BY <1>2 DEF RecordOK, Show, HiddenRelocked, ElementsObserved, WaitingSeen, recordVars, callVars
<1>3. CASE Hide(a)
  <2>1. UNCHANGED <<recordVars, callVars>> /\ visible' = visible \ {a}
    BY <1>3 DEF Hide
  <2>2. /\ early' \in SUBSET Apps /\ early \subseteq early'
        /\ unlock[a] \in AuthSteps => a \in early'
    BY <1>3 DEF RecordOK, Hide
  <2>3. /\ hiddenEvents' \in SUBSET Apps /\ hiddenEvents \subseteq hiddenEvents'
        /\ appStateObserver_ = "registered" => a \in hiddenEvents'
    BY <1>3 DEF RecordOK, Hide
  <2>4. WaitingSeen'
    BY <2>1, <2>2 DEF RecordOK, WaitingSeen, callVars
  <2>5. HiddenRelocked' /\ ElementsObserved'
    BY <2>1, <2>2, <2>3 DEF RecordOK, HiddenRelocked, ElementsObserved, ObserverStates, recordVars
  <2> QED
    BY <2>1, <2>2, <2>3, <2>4, <2>5 DEF RecordOK, recordVars, callVars
<1> QED
  BY <1>1, <1>2, <1>3

LEMMA RecordStep == ASSUME RecordOK, [Next]_vars PROVE RecordOK'
<1> DEFINE Steps == {"no"} \cup AuthSteps \cup {"setting", "wear", "store"}
           Frame == UNCHANGED <<recordVars, windowVars>>
<1>1. ASSUME NEW a \in Apps, unlockScreen(a) PROVE RecordOK'
  <2>1. PICK pc \in {"wait", "no"} : Goto(a, pc)
    BY <1>1 DEF unlockScreen
  <2>2. pc \in Steps /\ a \in visible /\ Frame /\ dataReady' \in [Apps -> {"none", "success", "failure"}]
    BY <1>1 DEF RecordOK, unlockScreen, AuthSteps
  <2> QED
    BY <2>1, <2>2, GotoKeeps
<1>2. ASSUME NEW a \in Apps, WaitAuthFinish(a) PROVE RecordOK'
  <2>1. PICK pc \in {"waiting", "add", "no"} : Goto(a, pc)
    BY <1>2 DEF WaitAuthFinish
  <2>2. /\ pc \in Steps /\ unlock[a] \in AuthSteps /\ Frame
        /\ dataReady' \in [Apps -> {"none", "success", "failure"}]
    BY <1>2 DEF RecordOK, WaitAuthFinish, AuthSteps
  <2> QED
    BY <2>1, <2>2, GotoKeeps
<1>3. ASSUME NEW a \in Apps,
             (\E known \in BOOLEAN : ReadLeaveWrist(a, known)) \/ ReadWearOn(a) \/ StoreWristUnlock(a)
      PROVE  RecordOK'
  <2>1. PICK pc \in {"wear", "store", "no"} : Goto(a, pc)
    BY <1>3 DEF ReadLeaveWrist, ReadWearOn, StoreWristUnlock
  <2>2. /\ pc \in Steps /\ pc \notin AuthSteps /\ Frame
        /\ dataReady' \in [Apps -> {"none", "success", "failure"}]
    BY <1>3 DEF RecordOK, ReadLeaveWrist, ReadWearOn, StoreWristUnlock, AuthSteps
  <2> QED
    BY <2>1, <2>2, GotoKeeps
<1>4. ASSUME NEW a \in Apps, NEW r \in {"success", "failure"}, OnResult(a, r) PROVE RecordOK'
  <2>1. Goto(a, IF unlock[a] = "waiting" THEN "woken" ELSE unlock[a])
    BY <1>4 DEF RecordOK, OnResult, Goto
  <2>2. /\ unlock[a] \in AuthSteps /\ "woken" \in AuthSteps /\ Frame
        /\ dataReady' \in [Apps -> {"none", "success", "failure"}]
    BY <1>4 DEF RecordOK, OnResult, AuthSteps
  <2> QED
    BY <2>1, <2>2, GotoKeeps
<1>5. ASSUME WearClears \/ OnScreenOffEnd \/ OnChangeClears PROVE RecordOK'
  <2>1. Keep({}) /\ UNCHANGED <<callVars, windowVars>>
    BY <1>5 DEF WearClears, OnScreenOffEnd, OnChangeClears
  <2> QED
    BY <2>1, KeepKeeps DEF RecordOK, windowVars
<1>6. ASSUME UNCHANGED <<recordVars, callVars, windowVars>> PROVE RecordOK'
  BY <1>6 DEF RecordOK, HiddenRelocked, ElementsObserved, WaitingSeen, recordVars, callVars, windowVars
<1>7. ASSUME NEW o \in Sources, NEW ok \in BOOLEAN, RetryRegistration(o, ok) PROVE RecordOK'
  BY <1>6, <1>7 DEF RetryRegistration
<1>8. ASSUME NEW b \in BOOLEAN, WearStateChange(b) \/ OnChange(b) \/ SetLeaveWrist(b)
      PROVE  RecordOK'
  BY <1>6, <1>8 DEF WearStateChange, OnChange, SetLeaveWrist
<1>9. ASSUME WearResets \/ OnChangeResets PROVE RecordOK'
  BY <1>6, <1>9 DEF WearResets, OnChangeResets
<1>10. CASE UNCHANGED vars
  BY <1>6, <1>10 DEF vars
<1> QED
  BY <1>1, <1>2, <1>3, <1>4, <1>5, <1>7, <1>8, <1>9, <1>10, AddKeeps, WindowsKeep DEF Next, CallStep

-----------------------------------------------------------------------------
(* The unlocking on the wrist.                                             *)

FlagsOK ==
  /\ isWearOn_ \in BOOLEAN /\ isWristUnlock_ \in BOOLEAN
  /\ wear \in {"idle", "clear", "reset"} /\ onChange \in {"idle", "clear", "reset"}
  /\ leaveWrist \in BOOLEAN /\ settingEvent \in BOOLEAN
  /\ stale \in SUBSET {"wear", "setting"}
  /\ events \in Nat /\ fails \in Nat

LEMMA FlagsStep == ASSUME FlagsOK, [Next]_vars PROVE FlagsOK'
<1>1. ASSUME NEW a \in Apps, CallStep(a) PROVE FlagsOK'
  <2>1. CASE AddToRecord(a)
    <3>1. fails' \in Nat
      BY <2>1 DEF FlagsOK, AddToRecord, add, RegisterObservers
    <3> QED
      BY <2>1, <3>1 DEF FlagsOK, AddToRecord, wristVars, settingVars
  <2>2. CASE WaitAuthFinish(a) \/ (\E known \in BOOLEAN : ReadLeaveWrist(a, known)) \/ ReadWearOn(a)
    <3>1. UNCHANGED <<wristVars, wear, settingVars, stale, events, fails>>
      BY <2>2 DEF WaitAuthFinish, ReadLeaveWrist, ReadWearOn
    <3> QED
      BY <3>1 DEF FlagsOK, wristVars, settingVars
  <2>3. CASE StoreWristUnlock(a)
    BY <2>3 DEF FlagsOK, StoreWristUnlock, settingVars
  <2> QED
    BY <1>1, <2>1, <2>2, <2>3 DEF CallStep
<1>2. ASSUME NEW a \in Apps,
             \/ unlockScreen(a) \/ OnResult(a, "success") \/ OnResult(a, "failure")
             \/ OnWindowHidden(a) \/ Show(a) \/ Hide(a)
      PROVE  FlagsOK'
  <2>1. UNCHANGED <<wristVars, wear, settingVars, stale, fails>>
    BY <1>2 DEF unlockScreen, OnResult, OnWindowHidden, Show, Hide
  <2>2. events' = events \/ events' = events + 1
    BY <1>2 DEF unlockScreen, Counted, OnResult, OnWindowHidden, Show, Hide
  <2> QED
    BY <2>1, <2>2 DEF FlagsOK, wristVars, settingVars
<1>3. ASSUME NEW o \in Sources, NEW ok \in BOOLEAN, RetryRegistration(o, ok) PROVE FlagsOK'
  BY <1>3 DEF FlagsOK, RetryRegistration, wristVars, settingVars
<1>4. ASSUME NEW b \in BOOLEAN, WearStateChange(b) PROVE FlagsOK'
  BY <1>4 DEF FlagsOK, WearStateChange, Counted, settingVars
<1>5. ASSUME NEW b \in BOOLEAN, OnChange(b) PROVE FlagsOK'
  BY <1>5 DEF FlagsOK, OnChange, wristVars
<1>6. ASSUME NEW b \in BOOLEAN, SetLeaveWrist(b) PROVE FlagsOK'
  <2>1. settingEvent' \in BOOLEAN
    BY <1>6 DEF SetLeaveWrist
  <2> QED
    BY <1>6, <2>1 DEF FlagsOK, SetLeaveWrist, Counted, wristVars
<1>7. ASSUME WearClears \/ OnScreenOffEnd \/ OnChangeClears PROVE FlagsOK'
  <2>1. CASE WearClears
    BY <2>1 DEF FlagsOK, WearClears, wristVars, settingVars
  <2>2. CASE OnScreenOffEnd
    BY <2>2 DEF FlagsOK, OnScreenOffEnd, Counted, wristVars, settingVars
  <2>3. CASE OnChangeClears
    BY <2>3 DEF FlagsOK, OnChangeClears, wristVars
  <2> QED
    BY <1>7, <2>1, <2>2, <2>3
<1>8. ASSUME WearResets \/ OnChangeResets PROVE FlagsOK'
  BY <1>8 DEF FlagsOK, WearResets, OnChangeResets, FlagReset, Racing, settingVars
<1>9. CASE UNCHANGED vars
  BY <1>9 DEF FlagsOK, vars, wristVars, settingVars
<1> QED
  BY <1>1, <1>2, <1>3, <1>4, <1>5, <1>6, <1>7, <1>8, <1>9 DEF Next

WristOK == WearOffEndsUnlock /\ SettingOffEndsUnlock /\ AboutToStore

\* A step of a call other than the reading and the storing of the flags.
LEMMA OtherCallKeeps ==
  ASSUME WristOK, NEW a, NEW pc, Goto(a, pc), pc \notin {"wear", "store"},
         UNCHANGED <<wristVars, wear, settingVars, stale>>
  PROVE  WristOK'
<1>1. \A b \in Apps : unlock'[b] \in {"wear", "store"} => unlock'[b] = unlock[b]
  BY DEF Goto
<1> QED
  BY <1>1 DEF WristOK, WearOffEndsUnlock, SettingOffEndsUnlock, AboutToStore, SettingKnown,
              wristVars, settingVars

LEMMA WristStep == ASSUME WristOK, FlagsOK, RecordOK, [Next]_vars PROVE WristOK'
<1> USE DEF WristOK, WearOffEndsUnlock, SettingOffEndsUnlock, AboutToStore, SettingKnown
<1>1. ASSUME UNCHANGED <<wristVars, wear, unlock, settingVars, stale>> PROVE WristOK'
  BY <1>1 DEF wristVars, settingVars
<1>2. ASSUME NEW a \in Apps, unlockScreen(a) \/ WaitAuthFinish(a) \/ AddToRecord(a) PROVE WristOK'
  <2>1. PICK pc \in {"wait", "waiting", "add", "setting", "no"} : Goto(a, pc)
    BY <1>2 DEF unlockScreen, WaitAuthFinish, AddToRecord
  <2>2. UNCHANGED <<wristVars, wear, settingVars, stale>>
    BY <1>2 DEF unlockScreen, WaitAuthFinish, AddToRecord
  <2> QED
    BY <2>1, <2>2, OtherCallKeeps
<1>3. ASSUME NEW a \in Apps, NEW r \in {"success", "failure"}, OnResult(a, r) PROVE WristOK'
  <2>1. Goto(a, IF unlock[a] = "waiting" THEN "woken" ELSE "wait")
    BY <1>3 DEF RecordOK, OnResult, Goto
  <2>2. UNCHANGED <<wristVars, wear, settingVars, stale>>
    BY <1>3 DEF OnResult
  <2> QED
    BY <2>1, <2>2, OtherCallKeeps
<1>4. ASSUME NEW a \in Apps, NEW known \in BOOLEAN, ReadLeaveWrist(a, known) PROVE WristOK'
  <2>1. UNCHANGED <<wristVars, wear, settingVars, stale>>
    BY <1>4 DEF ReadLeaveWrist
  <2>2. CASE leaveWrist /\ known
    BY <1>4, <2>1, <2>2 DEF RecordOK, ReadLeaveWrist, Goto, wristVars, settingVars
  <2>3. CASE ~(leaveWrist /\ known)
    BY <1>4, <2>1, <2>3, OtherCallKeeps DEF ReadLeaveWrist
  <2> QED
    BY <2>2, <2>3
<1>5. ASSUME NEW a \in Apps, ReadWearOn(a) PROVE WristOK'
  <2>1. UNCHANGED <<wristVars, wear, settingVars, stale>> /\ unlock[a] = "wear"
    BY <1>5 DEF ReadWearOn
  <2>2. CASE isWearOn_
    BY <1>5, <2>1, <2>2 DEF RecordOK, ReadWearOn, Worn, Goto, wristVars, settingVars
  <2>3. CASE ~isWearOn_
    BY <1>5, <2>1, <2>3, OtherCallKeeps DEF ReadWearOn, Worn
  <2> QED
    BY <2>2, <2>3
<1>6. ASSUME NEW a \in Apps, StoreWristUnlock(a) PROVE WristOK'
  <2>1. /\ wear = "idle" /\ "wear" \notin stale => isWearOn_
        /\ "setting" \notin stale => SettingKnown
    BY <1>6 DEF StoreWristUnlock
  <2>2. \A b \in Apps : unlock'[b] \in {"wear", "store"} => unlock'[b] = unlock[b]
    BY <1>6 DEF StoreWristUnlock, Goto
  <2> QED
    BY <1>6, <2>1, <2>2 DEF StoreWristUnlock, settingVars
<1>7. ASSUME NEW b \in BOOLEAN, WearStateChange(b) PROVE WristOK'
  BY <1>7 DEF FlagsOK, WearStateChange, callVars, settingVars
<1>8. ASSUME WearResets PROVE WristOK'
  <2>1. \A a \in Apps : unlock[a] = "store" => "wear" \in stale'
    BY <1>8 DEF WearResets, Racing
  <2>2. stale \subseteq stale' /\ ~isWristUnlock_' /\ UNCHANGED <<isWearOn_, unlock, settingVars>>
    BY <1>8 DEF WearResets, Racing, callVars
  <2> QED
    BY <2>1, <2>2 DEF settingVars
<1>9. ASSUME NEW known \in BOOLEAN, OnChange(known) PROVE WristOK'
  <2>1. SettingKnown' /\ UNCHANGED <<wristVars, unlock, wear, stale>>
    BY <1>9 DEF OnChange, callVars
  <2> QED
    BY <2>1 DEF wristVars
<1>10. ASSUME OnChangeResets PROVE WristOK'
  <2>1. \A a \in Apps : unlock[a] \in {"wear", "store"} => "setting" \in stale'
    BY <1>10 DEF OnChangeResets, Racing
  <2>2. stale \subseteq stale' /\ ~isWristUnlock_' /\ UNCHANGED <<isWearOn_, unlock, wear>>
    BY <1>10 DEF OnChangeResets, FlagReset, Racing, callVars
  <2> QED
    BY <2>1, <2>2
<1>11. ASSUME NEW on \in BOOLEAN, SetLeaveWrist(on) PROVE WristOK'
  <2>1. UNCHANGED <<wristVars, unlock, wear, onChange>>
    BY <1>11 DEF SetLeaveWrist, callVars
  <2>2. ("wear" \in stale => "wear" \in stale') /\ ("setting" \notin stale' => SettingKnown')
    BY <1>11 DEF SetLeaveWrist
  <2> QED
    BY <2>1, <2>2 DEF wristVars
<1>12. ASSUME WearClears PROVE WristOK'
  BY <1>12 DEF WearClears, wristVars, callVars, settingVars
<1>13. ASSUME OnChangeClears PROVE WristOK'
  BY <1>13 DEF OnChangeClears, wristVars, callVars
<1>14. ASSUME NEW a \in Apps, OnWindowHidden(a) \/ Show(a) \/ Hide(a) PROVE WristOK'
  BY <1>1, <1>14 DEF OnWindowHidden, Show, Hide, callVars
<1>15. ASSUME OnScreenOffEnd PROVE WristOK'
  BY <1>1, <1>15 DEF OnScreenOffEnd, callVars
<1>16. ASSUME NEW o \in Sources, NEW ok \in BOOLEAN, RetryRegistration(o, ok) PROVE WristOK'
  BY <1>1, <1>16 DEF RetryRegistration, callVars
<1>17. CASE UNCHANGED vars
  BY <1>1, <1>17 DEF vars, callVars
<1> HIDE DEF WristOK
<1> QED
  BY <1>2, <1>3, <1>4, <1>5, <1>6, <1>7, <1>8, <1>9, <1>10, <1>11, <1>12, <1>13, <1>14, <1>15,
     <1>16, <1>17 DEF Next, CallStep

-----------------------------------------------------------------------------
(* The theorems.                                                           *)

LEMMA WatchParts == WatchInv <=> SensorOK /\ RecordOK /\ FlagsOK /\ WristOK
BY DEF WatchInv, WatchTypeOK, SensorOK, RecordOK, FlagsOK, WristOK

\* The inductive invariant: an app that waits for the dialog was seen, a call
\* about to store the flag saw the watch worn and the setting on, and a retry
\* thread at work has an attempt left.
THEOREM WatchInvariant == Spec => []WatchInv
<1>1. Init => WatchInv
  <2> SUFFICES ASSUME Init PROVE WatchInv
    OBVIOUS
  <2>1. SensorOK
    BY WatchAssumption DEF Init, SensorOK, RegistrationHeld, RetriesLeft
  <2>2. RecordOK
    BY DEF Init, RecordOK, ObserverStates, AuthSteps, HiddenRelocked, ElementsObserved, WaitingSeen
  <2>3. FlagsOK /\ WristOK
    BY DEF Init, FlagsOK, WristOK, WearOffEndsUnlock, SettingOffEndsUnlock, AboutToStore
  <2> QED
    BY <2>1, <2>2, <2>3, WatchParts
<1>2. WatchInv /\ [Next]_vars => WatchInv'
  <2> SUFFICES ASSUME WatchInv, [Next]_vars PROVE WatchInv'
    OBVIOUS
  <2>1. SensorOK' /\ RecordOK' /\ FlagsOK' /\ WristOK'
    BY WatchParts, SensorStep, RecordStep, FlagsStep, WristStep
  <2> QED
    BY <2>1, WatchParts DEF WatchInv, WatchTypeOK, SensorOK, RecordOK, FlagsOK, WristOK
<1> QED
  BY <1>1, <1>2, PTL DEF Spec

\* Every variable of the watch lock keeps its type (unlockScreen and the
\* observers).
THEOREM WatchTypeCorrect == Spec => []WatchTypeOK
<1>1. WatchInv => WatchTypeOK
  BY DEF WatchInv
<1> QED
  BY <1>1, WatchInvariant, PTL

\* RegisterSensorListener and RegisterDisplayPowerEventListener never leave
\* two retry threads, nor a flag that says registered without either.
THEOREM RegistrationAlwaysHeld == Spec => []RegistrationHeld
<1>1. WatchInv => RegistrationHeld
  BY DEF WatchInv
<1> QED
  BY <1>1, WatchInvariant, PTL

\* An app on the record whose window was hidden will be removed
\* (OnWindowHidden, UnlockedRecord::add, remove and clear).
THEOREM HiddenAreRelocked == Spec => []HiddenRelocked
<1>1. WatchInv => HiddenRelocked
  BY DEF WatchInv
<1> QED
  BY <1>1, WatchInvariant, PTL

\* An unlocking on the wrist ends with the wearing (WearStateChange), but for
\* the race the property names.
THEOREM WristUnlockEnds == Spec => []WearOffEndsUnlock
<1>1. WatchInv => WearOffEndsUnlock
  BY DEF WatchInv
<1> QED
  BY <1>1, WatchInvariant, PTL

\* An unlocking on the wrist ends with the setting (LeaveWristSettingObserver::
\* OnChange), but for the races the property names.
THEOREM SettingOffEnds == Spec => []SettingOffEndsUnlock
<1>1. WatchInv => SettingOffEndsUnlock
  BY DEF WatchInv
<1> QED
  BY <1>1, WatchInvariant, PTL
=============================================================================
