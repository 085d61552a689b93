----------------------------- MODULE ClientProxy -----------------------------
(***************************************************************************)
(* How ScreenLockManager, in the process of a client, keeps its proxy to a  *)
(* service that dies and starts again.  An incarnation of the service is a   *)
(* number, 0 for none.                                                     *)
(*                                                                         *)
(* The calls are made by threads of the client: the JS thread makes the     *)
(* synchronous ones and the registration of the app (OnSystemEvent), workers *)
(* the others; the obituary of the service comes on an IPC thread.  What     *)
(* managerProxyLock_ covers is one step.  The system ability manager learns  *)
(* of a death on its own, before or after the client does.                  *)
(***************************************************************************)
EXTENDS Integers, FiniteSets

CONSTANTS Calls,     \* the calls the client makes
          MaxDeaths  \* bound on the deaths of the service

ASSUME ClientAssumption == MaxDeaths \in Nat

VARIABLES running,     \* the incarnation that runs
          born,        \* incarnations so far
          samgr,       \* the one GetSystemAbility gives
          proxy,       \* the one screenlockManagerProxy_ refers to
          recipients,  \* incarnations with our death recipient
          obituaries,  \* deaths OnRemoteSaDied is yet to be called for
          stale,       \* history: incarnations that were dead when fetched
          listening,   \* systemEventListener_ is set
          registered,  \* the last incarnation that registered the listener
          events,      \* serviceRestart events on their way to the JS thread
          believes,    \* the app has been told that it is registered
          kind,        \* "register", "sync" or "async", of each call
          pc,          \* where each call is
          via,         \* the proxy it was given
          won          \* the service accepted it

clientVars == <<running, born, samgr, proxy, recipients, obituaries, stale, listening, registered,
                events, believes, kind, pc, via, won>>

Kinds == {"register", "sync", "async"}
Places == {"idle", "begun", "fetched", "stored", "sent", "served", "returned", "done"}
Incarnations == 0..(MaxDeaths + 1)

ClientTypeOK ==
  /\ running \in Incarnations /\ born \in Incarnations
  /\ samgr \in Incarnations /\ proxy \in Incarnations
  /\ recipients \subseteq Incarnations /\ obituaries \subseteq Incarnations
  /\ stale \subseteq Incarnations
  /\ listening \in BOOLEAN /\ registered \in Incarnations
  /\ events \in Nat /\ believes \in BOOLEAN
  /\ kind \in [Calls -> Kinds] /\ pc \in [Calls -> Places]
  /\ via \in [Calls -> Incarnations] /\ won \in [Calls -> BOOLEAN]

ClientInit ==
  /\ running = 1 /\ born = 1 /\ samgr = 1
  /\ proxy = 0 /\ recipients = {} /\ obituaries = {} /\ stale = {}
  /\ listening = FALSE /\ registered = 0 /\ events = 0 /\ believes = FALSE
  /\ kind \in [Calls -> Kinds]
  /\ pc = [c \in Calls |-> "idle"] /\ via = [c \in Calls |-> 0] /\ won = [c \in Calls |-> FALSE]

service == <<running, born, samgr>>
binder == <<proxy, recipients, obituaries, stale>>
app == <<listening, registered, events, believes>>

Goto(c, place) == pc' = [pc EXCEPT ![c] = place]

-----------------------------------------------------------------------------
(* A call.                                                                 *)

\* The JS thread waits for its own call.
JsBusy == \E c \in Calls : kind[c] # "async" /\ pc[c] \notin {"idle", "done"}

Begin(c) ==
  /\ pc[c] = "idle"
  /\ kind[c] # "async" => ~JsBusy
  /\ Goto(c, "begun")
  /\ UNCHANGED <<service, binder, app, kind, via, won>>

Mut_NoRecipient == UNCHANGED <<recipients, stale>>

\* AddDeathRecipient on what was fetched; that it fails on a dead incarnation
\* is not looked at.
AddDeathRecipient ==
  /\ recipients' = IF samgr # 0 /\ samgr = running THEN recipients \cup {samgr} ELSE recipients
  /\ stale' = IF samgr # running THEN stale \cup ({samgr} \ {0}) ELSE stale

GetScreenLockManagerProxy == proxy' = samgr /\ AddDeathRecipient

GetProxy(c) ==
  /\ pc[c] = "begun"
  /\ IF proxy = 0 THEN GetScreenLockManagerProxy ELSE UNCHANGED <<proxy, recipients, stale>>
  /\ via' = [via EXCEPT ![c] = proxy']
  /\ Goto(c, IF proxy' = 0 THEN "returned" ELSE "fetched")
  /\ UNCHANGED <<service, obituaries, app, kind, won>>

\* A null listener: nothing is sent.
Withhold(c) ==
  /\ pc[c] = "fetched"
  /\ Goto(c, "returned")
  /\ UNCHANGED <<service, binder, app, kind, via, won>>

\* OnSystemEvent keeps the listener before it calls.
StoreListener(c) ==
  /\ pc[c] = "fetched" /\ kind[c] = "register"
  /\ listening' = TRUE
  /\ Goto(c, "stored")
  /\ UNCHANGED <<service, binder, registered, events, believes, kind, via, won>>

\* SendRequest fails on a proxy to the dead.
Transact(c) ==
  /\ pc[c] = IF kind[c] = "register" THEN "stored" ELSE "fetched"
  /\ Goto(c, IF via[c] = running THEN "sent" ELSE "returned")
  /\ UNCHANGED <<service, binder, app, kind, via, won>>

\* The service executes the call.
Handle(c, accepts) ==
  /\ pc[c] = "sent"
  /\ won' = [won EXCEPT ![c] = accepts]
  /\ registered' = IF kind[c] = "register" /\ accepts THEN via[c] ELSE registered
  /\ Goto(c, "served")
  /\ UNCHANGED <<service, binder, listening, events, believes, kind, via>>

Reply(c) ==
  /\ pc[c] = "served"
  /\ Goto(c, "returned")
  /\ UNCHANGED <<service, binder, app, kind, via, won>>

Finish(c) ==
  /\ pc[c] = "returned"
  /\ believes' = (believes \/ (kind[c] = "register" /\ won[c]))
  /\ Goto(c, "done")
  /\ UNCHANGED <<service, binder, listening, registered, events, kind, via, won>>

-----------------------------------------------------------------------------
(* Deaths.                                                                 *)

\* The calls the service has not answered fail.
ServiceDies ==
  /\ running # 0 /\ born <= MaxDeaths
  /\ running' = 0
  /\ obituaries' = obituaries \cup (recipients \cap {running})
  /\ pc' = [c \in Calls |-> IF pc[c] \in {"sent", "served"} THEN "returned" ELSE pc[c]]
  /\ won' = [c \in Calls |-> won[c] /\ pc[c] \notin {"sent", "served"}]
  /\ UNCHANGED <<born, samgr, proxy, recipients, stale, app, kind, via>>

\* It registers with the manager as it starts.
ServiceStarts ==
  /\ running = 0
  /\ running' = born + 1 /\ born' = born + 1 /\ samgr' = born + 1
  /\ UNCHANGED <<binder, app, kind, pc, via, won>>

SamgrNotices ==
  /\ samgr # running /\ samgr # 0
  /\ samgr' = 0
  /\ UNCHANGED <<running, born, binder, app, kind, pc, via, won>>

Mut_InformWhenBack == listening /\ samgr # 0

\* The app is told of a restart whether or not there is a proxy again.
Informs == listening

OnRemoteSaDied(i) ==
  /\ i \in obituaries
  /\ obituaries' = obituaries \ {i}
  /\ GetScreenLockManagerProxy
  /\ events' = IF Informs THEN events + 1 ELSE events
  /\ UNCHANGED <<service, listening, registered, believes, kind, pc, via, won>>

\* OnCallBack of the app's listener, a task of the JS thread.
ServiceRestart ==
  /\ events > 0 /\ ~JsBusy
  /\ events' = events - 1
  /\ believes' = FALSE
  /\ UNCHANGED <<service, binder, listening, registered, kind, pc, via, won>>

ClientNext ==
  \/ \E c \in Calls : Begin(c) \/ GetProxy(c) \/ Withhold(c) \/ StoreListener(c) \/ Transact(c)
                      \/ (\E accepts \in BOOLEAN : Handle(c, accepts)) \/ Reply(c) \/ Finish(c)
  \/ ServiceDies \/ ServiceStarts \/ SamgrNotices
  \/ \E i \in obituaries : OnRemoteSaDied(i)
  \/ ServiceRestart

ClientSpec == ClientInit /\ [][ClientNext]_clientVars

-----------------------------------------------------------------------------

(* The proxy the library keeps refers to the service that runs, or its death *)
(* is about to be told, or it was dead already when it was fetched: then      *)
(* AddDeathRecipient failed, and nothing will replace it.                   *)
ProxyAttended == proxy # 0 => proxy = running \/ proxy \in obituaries \/ proxy \in stale

(* An app that was told it is registered, but whose registration died with    *)
(* the service, is going to be told so.                                      *)
AppInformed == believes => registered = running \/ registered \in obituaries \/ events > 0

-----------------------------------------------------------------------------
(* The inductive strengthening.                                            *)

\* Incarnations are known once they were born.
Known ==
  /\ running \in {0, born} /\ born >= 1 /\ (running = 0 => born <= MaxDeaths)
  /\ samgr <= born /\ proxy <= born /\ registered <= born
  /\ \A c \in Calls : via[c] <= born

\* A proxy to the running incarnation comes with a death recipient.
Watched ==
  /\ proxy # 0 /\ proxy = running => running \in recipients
  /\ registered # 0 /\ registered = running => running \in recipients
  /\ \A c \in Calls : via[c] # 0 /\ via[c] = running => running \in recipients

\* What a call has when it got to a place.
Underway ==
  \A c \in Calls :
    /\ pc[c] \in {"fetched", "stored"} => via[c] # 0
    /\ pc[c] \in {"sent", "served"} => via[c] # 0 /\ via[c] = running
    /\ kind[c] = "register" /\ pc[c] \in {"stored", "sent", "served"} => listening
    /\ won[c] => pc[c] \in {"served", "returned", "done"}

\* AppInformed, also of a registration that is not yet reported.
Informed ==
  /\ registered # 0 => listening
  /\ believes => registered # 0
  /\ \A c \in Calls : kind[c] = "register" /\ won[c] /\ pc[c] \in {"served", "returned"} =>
       registered # 0 /\ (registered = running \/ registered \in obituaries \/ events > 0)

ClientInv == ClientTypeOK /\ Known /\ Watched /\ Underway /\ Informed /\ ProxyAttended /\ AppInformed

=============================================================================
