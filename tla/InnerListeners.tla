--------------------------- MODULE InnerListeners ---------------------------
(***************************************************************************)
(* The listeners of strong-authentication and device-lock changes: the     *)
(* wrapper map of the client library in each process, the registrations of *)
(* InnerListenerManager in the service, and the death recipients between   *)
(* them.                                                                   *)
(*                                                                         *)
(* A registration call creates a new InnerListenerWrapper; the wrapper is  *)
(* the remote object the service sees.  ListenerWrapperMapMutex is held    *)
(* across the call, so a process has one call under way.  The service      *)
(* handles a call under its recursive mutex_, in one step.                 *)
(*                                                                         *)
(* External: binder, which loses the calls of a service that dies and      *)
(* posts an obituary for each death recipient of a process that dies.      *)
(***************************************************************************)
EXTENDS Integers, FiniteSets

CONSTANTS
  Procs,         \* client processes
  Listeners,     \* InnerListener objects
  Owner,         \* listener -> its process
  TypeOf,        \* listener -> ListenType
  UserOf,        \* listener -> its user, USER_ALL or USER_CURRENT
  CallingUser,   \* process -> the user it runs for
  MaxWrappers,   \* bound: registration calls of one listener
  MaxDeaths,     \* bound: deaths of client processes
  MaxRestarts    \* bound: crashes of the service

USER_ALL == -1
USER_CURRENT == -2
ListenTypes == {"STRONG_AUTH", "DEVICE_LOCK"}

ASSUME ListenersAssumption ==
  /\ Owner \in [Listeners -> Procs] /\ TypeOf \in [Listeners -> ListenTypes]
  /\ UserOf \in [Listeners -> Nat \cup {USER_ALL, USER_CURRENT}]
  /\ CallingUser \in [Procs -> Nat]
ASSUME ListenerBounds == MaxWrappers \in Nat /\ MaxDeaths \in Nat /\ MaxRestarts \in Nat

VARIABLES
  InnerListenerWrapperMap,  \* client: listener -> its wrapper, for those it has
  call,                     \* client: the call each process has under way
  made,                     \* client: wrappers made for each listener so far
  gone,                     \* wrappers whose process died
  deathRecipientMap,        \* service: wrapper -> type of its first registration
  innerListenMap,           \* service: the registrations
  obituaries,               \* binder: death notices not yet handled
  unsure,                   \* history: listeners one of whose calls was lost
  deaths, restarts

clientVars  == <<InnerListenerWrapperMap, call, made, gone, unsure, deaths>>
serviceVars == <<deathRecipientMap, innerListenMap, obituaries, restarts>>
listenerVars == <<clientVars, serviceVars>>

Wrappers == Listeners \X (1..MaxWrappers)
NoCall == [op |-> "none"]
Calls == {NoCall} \cup [op : {"register", "unregister"}, wrapper : Wrappers]
Registrations == [type : ListenTypes, user : Nat \cup {USER_ALL}, wrapper : Wrappers]
NoType == "none"

Partial(S, T) == UNION {[D -> T] : D \in SUBSET S}

\* Types, and that a call under way is about a wrapper of its own process.
ListenersTypeOK ==
  /\ InnerListenerWrapperMap \in Partial(Listeners, Wrappers)
  /\ call \in [Procs -> Calls]
  /\ \A p \in Procs : call[p] # NoCall => Owner[call[p].wrapper[1]] = p
  /\ made \in [Listeners -> 0..MaxWrappers] /\ gone \in SUBSET Wrappers
  /\ deathRecipientMap \in Partial(Wrappers, ListenTypes)
  /\ innerListenMap \in SUBSET Registrations
  /\ obituaries \in Partial(Wrappers, ListenTypes \cup {NoType})
  /\ unsure \in SUBSET Listeners /\ deaths \in Nat /\ restarts \in Nat

NoFunction == [x \in {} |-> x]

ListenersInit ==
  /\ InnerListenerWrapperMap = NoFunction
  /\ call = [p \in Procs |-> NoCall]
  /\ made = [l \in Listeners |-> 0]
  /\ gone = {} /\ unsure = {}
  /\ deathRecipientMap = NoFunction /\ innerListenMap = {} /\ obituaries = NoFunction
  /\ deaths = 0 /\ restarts = 0

-----------------------------------------------------------------------------
(* Client library.                                                         *)

With(f, k, v) == [x \in DOMAIN f \cup {k} |-> IF x = k THEN v ELSE f[x]]
Without(f, S) == [x \in DOMAIN f \ S |-> f[x]]

\* RegisterListenerInner: the wrapper enters the map before the call, and
\* stays there whatever the call returns.
RegisterListenerInner(l) ==
  LET w == <<l, made[l] + 1>> IN
  /\ call[Owner[l]] = NoCall
  /\ l \notin DOMAIN InnerListenerWrapperMap /\ made[l] < MaxWrappers
  /\ made' = [made EXCEPT ![l] = @ + 1]
  /\ InnerListenerWrapperMap' = With(InnerListenerWrapperMap, l, w)
  /\ call' = [call EXCEPT ![Owner[l]] = [op |-> "register", wrapper |-> w]]
  /\ UNCHANGED <<gone, unsure, deaths, serviceVars>>

UnRegisterListenerInner(l) ==
  /\ call[Owner[l]] = NoCall
  /\ l \in DOMAIN InnerListenerWrapperMap
  /\ call' = [call EXCEPT ![Owner[l]] =
       [op |-> "unregister", wrapper |-> InnerListenerWrapperMap[l]]]
  /\ UNCHANGED <<InnerListenerWrapperMap, made, gone, unsure, deaths, serviceVars>>

\* The call returns: UnRegisterListenerInner drops the wrapper, also when the
\* service was not reached.
Return(p) ==
  LET l == call[p].wrapper[1] IN
  /\ call' = [call EXCEPT ![p] = NoCall]
  /\ InnerListenerWrapperMap' =
       IF call[p].op = "unregister" THEN Without(InnerListenerWrapperMap, {l})
       ELSE InnerListenerWrapperMap
  /\ UNCHANGED <<made, gone>>

\* The request does not get through, or is refused.
CallFails(p) ==
  /\ call[p] # NoCall
  /\ Return(p)
  /\ unsure' = unsure \cup {call[p].wrapper[1]}
  /\ UNCHANGED <<deaths, serviceVars>>

-----------------------------------------------------------------------------
(* Service.                                                                *)

Mut_KeepSpecial(w) == UserOf[w[1]]

ResolvedUser(w) ==
  IF UserOf[w[1]] = USER_CURRENT THEN CallingUser[Owner[w[1]]] ELSE UserOf[w[1]]

\* The registration a wrapper stands for.
RegistrationOf(w) == [type |-> TypeOf[w[1]], user |-> ResolvedUser(w), wrapper |-> w]

Mut_RecipientPerType(w) == ~\E x \in innerListenMap : x.type = TypeOf[w[1]]

\* AddDeathRecipient attaches one recipient to a wrapper; it fails for the
\* wrapper of a dead process.
NeedsRecipient(w) == w \notin DOMAIN deathRecipientMap

RegisterInnerListener(p) ==
  LET w == call[p].wrapper IN
  /\ call[p] # NoCall /\ call[p].op = "register"
  /\ innerListenMap' = innerListenMap \cup {RegistrationOf(w)}
  /\ deathRecipientMap' = IF NeedsRecipient(w) THEN With(deathRecipientMap, w, TypeOf[w[1]])
                          ELSE deathRecipientMap
  /\ Return(p)
  /\ UNCHANGED <<obituaries, restarts, unsure, deaths>>

\* RemoveInnerListener: only the first user of the type that has it.
Mut_RemoveOtherType(type, w) == {x \in innerListenMap : x.wrapper = w /\ x.type # type}

Removed(type, w) ==
  LET mine == {x \in innerListenMap : x.wrapper = w /\ x.type = type} IN
  {x \in mine : \A y \in mine : x.user <= y.user}

UnRegister(type, w) ==
  /\ innerListenMap' = innerListenMap \ Removed(type, w)
  /\ deathRecipientMap' = Without(deathRecipientMap, {w})

UnRegisterInnerListener(p) ==
  LET w == call[p].wrapper IN
  /\ call[p] # NoCall /\ call[p].op = "unregister"
  /\ UnRegister(TypeOf[w[1]], w)
  /\ Return(p)
  /\ UNCHANGED <<obituaries, restarts, unsure, deaths>>

\* InnerListenerDeathRecipient::OnRemoteDied: the map is copied in one
\* section, and the wrapper unregistered in another.
OnRemoteDied(w) ==
  /\ w \in DOMAIN obituaries /\ obituaries[w] = NoType
  /\ obituaries' = IF w \in DOMAIN deathRecipientMap
                   THEN [obituaries EXCEPT ![w] = deathRecipientMap[w]]
                   ELSE Without(obituaries, {w})
  /\ UNCHANGED <<clientVars, deathRecipientMap, innerListenMap, restarts>>

UnRegisterDead(w) ==
  /\ w \in DOMAIN obituaries /\ obituaries[w] # NoType
  /\ UnRegister(obituaries[w], w)
  /\ obituaries' = Without(obituaries, {w})
  /\ UNCHANGED <<clientVars, restarts>>

\* OnStateChanged: the wrappers told of a change of a user.
Audience(type, user) ==
  {x.wrapper : x \in {y \in innerListenMap : y.type = type /\ y.user \in {user, USER_ALL}}}

-----------------------------------------------------------------------------
(* Failures.                                                               *)

Mine(p) == {l \in Listeners : Owner[l] = p}
WrappersOf(p) == {w \in Wrappers : Owner[w[1]] = p}

\* A process dies and starts again.  A request it had sent is of no effect: a
\* death recipient cannot be added to the dead wrapper.
ProcessDies(p) ==
  /\ deaths < MaxDeaths /\ deaths' = deaths + 1
  /\ gone' = gone \cup {w \in WrappersOf(p) : w[2] <= made[w[1]]}
  /\ obituaries' = [w \in DOMAIN obituaries \cup (WrappersOf(p) \cap DOMAIN deathRecipientMap) |->
                      IF w \in DOMAIN obituaries THEN obituaries[w] ELSE NoType]
  /\ InnerListenerWrapperMap' = Without(InnerListenerWrapperMap, Mine(p))
  /\ call' = [call EXCEPT ![p] = NoCall]
  /\ unsure' = unsure \ Mine(p)
  /\ UNCHANGED <<made, deathRecipientMap, innerListenMap, restarts>>

Leaving == {l \in Listeners : \E p \in Procs :
              call[p] # NoCall /\ call[p].op = "unregister" /\ call[p].wrapper[1] = l}

\* The service dies and starts again with empty maps.  The calls under way
\* fail; OnRemoteSaDied only renews the proxy.
ServiceRestarts ==
  /\ restarts < MaxRestarts /\ restarts' = restarts + 1
  /\ deathRecipientMap' = NoFunction /\ innerListenMap' = {} /\ obituaries' = NoFunction
  /\ call' = [p \in Procs |-> NoCall]
  /\ InnerListenerWrapperMap' = Without(InnerListenerWrapperMap, Leaving)
  /\ unsure' = unsure \cup DOMAIN InnerListenerWrapperMap
  /\ UNCHANGED <<made, gone, deaths>>

ListenersNext ==
  \/ \E l \in Listeners : RegisterListenerInner(l) \/ UnRegisterListenerInner(l)
  \/ \E p \in Procs :
       CallFails(p) \/ RegisterInnerListener(p) \/ UnRegisterInnerListener(p) \/ ProcessDies(p)
  \/ \E w \in Wrappers : OnRemoteDied(w) \/ UnRegisterDead(w)
  \/ ServiceRestarts

ListenersSpec == ListenersInit /\ [][ListenersNext]_listenerVars

\* Binder delivers an obituary.
Obituary == \E w \in Wrappers : OnRemoteDied(w) \/ UnRegisterDead(w)

-----------------------------------------------------------------------------
(* Properties.                                                             *)

\* Every wrapper the service would notify has a death recipient: otherwise a
\* dead client stays registered.
Watched == \A x \in innerListenMap : x.wrapper \in DOMAIN deathRecipientMap

\* When no call is under way and none was lost, the library's map and the
\* service agree: a listener in the map is registered once, under its type and
\* user, and one that is not in the map is not told anything.
MapsAgree ==
  \A l \in Listeners :
    call[Owner[l]] = NoCall /\ l \notin unsure
      => {x \in innerListenMap : x.wrapper[1] = l /\ x.wrapper \notin gone} =
           IF l \in DOMAIN InnerListenerWrapperMap
           THEN {RegistrationOf(InnerListenerWrapperMap[l])}
           ELSE {}

\* A wrapper of a dead process is in the end no longer registered: again and
\* again, no dead wrapper is.
DeadForgotten == []<>(\A x \in innerListenMap : x.wrapper \notin gone)

-----------------------------------------------------------------------------
(* The inductive strengthening of Watched and MapsAgree.                    *)

\* One type and one user per wrapper, and death notices for dead ones only.
OnePerWrapper ==
  /\ \A x \in innerListenMap : x = RegistrationOf(x.wrapper)
  /\ \A w \in DOMAIN deathRecipientMap : deathRecipientMap[w] = TypeOf[w[1]]
  /\ \A w \in DOMAIN obituaries : w \in gone /\ obituaries[w] \in {NoType, TypeOf[w[1]]}

\* Dead, registered and watched wrappers are among those made; the library keeps the
\* last one made, which is alive, and calls are about it.
LastMade ==
  /\ \A w \in gone : w[2] <= made[w[1]]
  /\ \A x \in innerListenMap : x.wrapper[2] <= made[x.wrapper[1]]
  /\ \A w \in DOMAIN deathRecipientMap : w[2] <= made[w[1]]
  /\ \A l \in DOMAIN InnerListenerWrapperMap :
       /\ InnerListenerWrapperMap[l] = <<l, made[l]>>
       /\ InnerListenerWrapperMap[l] \notin gone
  /\ \A p \in Procs : call[p] # NoCall =>
       LET w == call[p].wrapper IN
       w[1] \in DOMAIN InnerListenerWrapperMap /\ InnerListenerWrapperMap[w[1]] = w

Registering(l) ==
  LET c == call[Owner[l]] IN c # NoCall /\ c.op = "register" /\ c.wrapper[1] = l

\* MapsAgree, also while a call is under way.
AgreeAlways ==
  \A l \in Listeners \ unsure : \A w \in Wrappers \ gone :
    w[1] = l =>
      (RegistrationOf(w) \in innerListenMap
         <=> l \in DOMAIN InnerListenerWrapperMap /\ w = InnerListenerWrapperMap[l] /\ ~Registering(l))

ListenersInv == ListenersTypeOK /\ OnePerWrapper /\ LastMade /\ Watched /\ AgreeAlways

=============================================================================
