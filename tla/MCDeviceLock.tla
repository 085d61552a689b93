---------------------------- MODULE MCDeviceLock ----------------------------
(***************************************************************************)
(* TLC instance: one process listens to both types, another for all users.  *)
(***************************************************************************)
EXTENDS DeviceLock, TLC

CONSTANTS app1, app2, lis1, lis2, lis3

Procs_ == {app1, app2}
Listeners_ == {lis1, lis2, lis3}
Owner_ == lis1 :> app1 @@ lis2 :> app1 @@ lis3 :> app2
TypeOf_ == lis1 :> "STRONG_AUTH" @@ lis2 :> "DEVICE_LOCK" @@ lis3 :> "DEVICE_LOCK"
UserOf_ == lis1 :> 0 @@ lis2 :> USER_CURRENT @@ lis3 :> USER_ALL
CallingUser_ == app1 :> 0 @@ app2 :> 1

\* A behaviour begins with a service that has just started, and listeners are
\* going to be registered, lis3 for the second time; or else states are going
\* to be set, and lis1 has been registered for the last time.
Bounds ==
  \/ made = (lis1 :> 0 @@ lis2 :> 0 @@ lis3 :> 1) /\ sets = MaxSets
  \/ made = (lis1 :> 2 @@ lis2 :> 1 @@ lis3 :> 1) /\ sets = 0

MCInit ==
  /\ Bounds
  /\ InnerListenerWrapperMap = NoFunction /\ call = [p \in Procs |-> NoCall]
  /\ gone = {} /\ unsure = {} /\ deaths = 0 /\ restarts = 0
  /\ deathRecipientMap = NoFunction /\ innerListenMap = {} /\ obituaries = NoFunction
  /\ authStateInfo = NoFunction /\ setter = [t \in Setters |-> Idle]
  /\ inbox = [w \in Wrappers |-> <<>>]
  /\ view = [w \in Wrappers |-> [u \in Users |-> "unknown"]]
  /\ removed = {}

MCSpec == MCInit /\ [][DeviceNext]_deviceAll /\ Fairness
=============================================================================
