------------------------ MODULE InnerListeners_proofs ------------------------
(***************************************************************************)
(* The library's map and the service's registrations agree, for any        *)
(* processes, listeners and bounds.                                        *)
(*                                                                         *)
(* The inductive invariant is ListenersInv.  Its centre is AgreeAlways,    *)
(* which extends MapsAgree to the moments in which a call is under way;    *)
(* OnePerWrapper makes the removal of only the first user's registration,  *)
(* and of the only death recipient, complete; LastMade keeps the wrappers  *)
(* of a listener apart.                                                    *)
(***************************************************************************)
EXTENDS InnerListeners, TLAPS

-----------------------------------------------------------------------------
(* Partial functions and wrappers.                                         *)

\* With and Without of a map of the client library or the service.
LEMMA WithFacts ==
  ASSUME NEW S, NEW T, NEW f \in Partial(S, T), NEW k \in S, NEW v \in T
  PROVE  With(f, k, v) \in Partial(S, T)
<1>1. PICK D \in SUBSET S : f \in [D -> T]
  BY DEF Partial
<1>2. DOMAIN f = D
  BY <1>1
<1>3. With(f, k, v) \in [D \cup {k} -> T]
  BY <1>1, <1>2 DEF With
<1>4. D \cup {k} \in SUBSET S
  OBVIOUS
<1>5. With(f, k, v) \in Partial(S, T)
  BY <1>3, <1>4 DEF Partial
<1> QED
  BY <1>1, <1>2, <1>5 DEF With

\* The same of Without.
LEMMA WithoutFacts ==
  ASSUME NEW S, NEW T, NEW f \in Partial(S, T), NEW R
  PROVE  /\ Without(f, R) \in Partial(S, T)
         /\ DOMAIN Without(f, R) = DOMAIN f \ R
<1>1. PICK D \in SUBSET S : f \in [D -> T]
  BY DEF Partial
<1>2. DOMAIN f = D
  BY <1>1
<1>3. Without(f, R) \in [D \ R -> T]
  BY <1>1, <1>2 DEF Without
<1>4. D \ R \in SUBSET S
  OBVIOUS
<1>5. Without(f, R) \in Partial(S, T)
  BY <1>3, <1>4 DEF Partial
<1> QED
  BY <1>2, <1>5 DEF Without

\* The domain and the values of a partial function.
LEMMA PartialFacts ==
  ASSUME NEW S, NEW T, NEW f \in Partial(S, T)
  PROVE  DOMAIN f \subseteq S /\ \A x \in DOMAIN f : f[x] \in T
BY DEF Partial

\* The empty map.
LEMMA NoFunctionFacts ==
  ASSUME NEW S, NEW T
  PROVE  NoFunction \in Partial(S, T) /\ DOMAIN NoFunction = {}
<1>1. NoFunction \in [{} -> T] /\ {} \in SUBSET S
  BY DEF NoFunction
<1> QED
  BY <1>1 DEF Partial, NoFunction

\* The parts of a wrapper.
LEMMA WrapperFacts ==
  ASSUME NEW w \in Wrappers
  PROVE  /\ w[1] \in Listeners /\ w[2] \in 1..MaxWrappers /\ w[2] \in Nat
         /\ w = <<w[1], w[2]>>
         /\ Owner[w[1]] \in Procs
BY ListenersAssumption, ListenerBounds DEF Wrappers

\* A registration made by RegisterInnerListener is well-formed and tells its
\* wrapper.
LEMMA RegistrationFacts ==
  ASSUME NEW w \in Wrappers
  PROVE  /\ RegistrationOf(w) \in Registrations
         /\ RegistrationOf(w).wrapper = w
         /\ RegistrationOf(w).type = TypeOf[w[1]]
         /\ RegistrationOf(w).user = ResolvedUser(w)
         /\ ResolvedUser(w) \in Int
<1>1. w[1] \in Listeners /\ Owner[w[1]] \in Procs
  BY WrapperFacts
<1>2. ResolvedUser(w) \in Nat \cup {USER_ALL}
  BY <1>1, ListenersAssumption DEF ResolvedUser
<1>3. TypeOf[w[1]] \in ListenTypes
  BY <1>1, ListenersAssumption
<1>4. ResolvedUser(w) \in Int
  BY <1>2 DEF USER_ALL
<1> QED
  BY <1>2, <1>3, <1>4 DEF RegistrationOf, Registrations

\* UnRegister removes every registration of the wrapper, though
\* RemoveInnerListener stops at the first user that has it.
LEMMA RemovedAll ==
  ASSUME NEW w \in Wrappers, OnePerWrapper, ListenersTypeOK
  PROVE  Removed(TypeOf[w[1]], w) = {x \in innerListenMap : x.wrapper = w}
<1>1. ASSUME NEW x \in innerListenMap, x.wrapper = w
      PROVE  x = RegistrationOf(w)
  BY <1>1 DEF OnePerWrapper
<1>2. ASSUME NEW x \in innerListenMap, x.wrapper = w
      PROVE  x.type = TypeOf[w[1]] /\ x.user = ResolvedUser(w)
  BY <1>1, <1>2, RegistrationFacts
<1>3. ResolvedUser(w) \in Int
  BY RegistrationFacts
<1> DEFINE mine == {x \in innerListenMap : x.wrapper = w /\ x.type = TypeOf[w[1]]}
<1>4. mine = {x \in innerListenMap : x.wrapper = w}
  BY <1>2
<1>5. \A x, y \in mine : x.user <= y.user
  BY <1>2, <1>3
<1>6. Removed(TypeOf[w[1]], w) = {x \in mine : \A y \in mine : x.user <= y.user}
  BY DEF Removed
<1> QED
  BY <1>4, <1>5, <1>6

\* What UnRegister leaves of the service's maps.
LEMMA UnRegisterFacts ==
  ASSUME NEW w \in Wrappers, ListenersInv, UnRegister(TypeOf[w[1]], w)
  PROVE  /\ innerListenMap' = {x \in innerListenMap : x.wrapper # w}
         /\ deathRecipientMap' \in Partial(Wrappers, ListenTypes)
         /\ DOMAIN deathRecipientMap' = DOMAIN deathRecipientMap \ {w}
         /\ \A x \in DOMAIN deathRecipientMap' : deathRecipientMap'[x] = deathRecipientMap[x]
<1>1. innerListenMap' = innerListenMap \ {x \in innerListenMap : x.wrapper = w}
  BY RemovedAll DEF UnRegister, ListenersInv
<1>2. deathRecipientMap \in Partial(Wrappers, ListenTypes)
  BY DEF ListenersInv, ListenersTypeOK
<1>3. deathRecipientMap' = Without(deathRecipientMap, {w})
  BY DEF UnRegister
<1>4. /\ Without(deathRecipientMap, {w}) \in Partial(Wrappers, ListenTypes)
      /\ DOMAIN Without(deathRecipientMap, {w}) = DOMAIN deathRecipientMap \ {w}
  BY <1>2, WithoutFacts
<1>5. \A x \in DOMAIN deathRecipientMap \ {w} :
        Without(deathRecipientMap, {w})[x] = deathRecipientMap[x]
  BY DEF Without
<1> QED
  BY <1>1, <1>3, <1>4, <1>5

\* A call is about a wrapper of the caller.
LEMMA CallFacts ==
  ASSUME ListenersInv, NEW p \in Procs, call[p] # NoCall
  PROVE  /\ call[p] \in [op : {"register", "unregister"}, wrapper : Wrappers]
         /\ call[p].wrapper \in Wrappers
         /\ Owner[call[p].wrapper[1]] = p
         /\ call[p].wrapper[1] \in DOMAIN InnerListenerWrapperMap
         /\ InnerListenerWrapperMap[call[p].wrapper[1]] = call[p].wrapper
         /\ call[p].wrapper \notin gone
BY DEF ListenersInv, ListenersTypeOK, LastMade, Calls

\* The library's map after a call returned.
LEMMA ReturnFacts ==
  ASSUME ListenersInv, NEW p \in Procs, call[p] # NoCall, Return(p)
  PROVE  /\ call' \in [Procs -> Calls] /\ call'[p] = NoCall
         /\ \A q \in Procs : q # p => call'[q] = call[q]
         /\ InnerListenerWrapperMap' \in Partial(Listeners, Wrappers)
         /\ DOMAIN InnerListenerWrapperMap' =
              IF call[p].op = "unregister" THEN DOMAIN InnerListenerWrapperMap \ {call[p].wrapper[1]}
              ELSE DOMAIN InnerListenerWrapperMap
         /\ \A l \in DOMAIN InnerListenerWrapperMap' :
              InnerListenerWrapperMap'[l] = InnerListenerWrapperMap[l]
         /\ made' = made /\ gone' = gone
<1>1. /\ call \in [Procs -> Calls]
      /\ InnerListenerWrapperMap \in Partial(Listeners, Wrappers)
  BY DEF ListenersInv, ListenersTypeOK
<1>2. call' = [call EXCEPT ![p] = NoCall] /\ made' = made /\ gone' = gone
  BY DEF Return
<1>3. call' \in [Procs -> Calls] /\ call'[p] = NoCall /\ \A q \in Procs : q # p => call'[q] = call[q]
  BY <1>1, <1>2 DEF Calls
<1>4. CASE call[p].op = "unregister"
  <2>1. InnerListenerWrapperMap' = Without(InnerListenerWrapperMap, {call[p].wrapper[1]})
    BY <1>4 DEF Return
  <2>2. LET f == Without(InnerListenerWrapperMap, {call[p].wrapper[1]}) IN
        /\ f \in Partial(Listeners, Wrappers)
        /\ DOMAIN f = DOMAIN InnerListenerWrapperMap \ {call[p].wrapper[1]}
    BY <1>1, WithoutFacts
  <2>3. LET f == Without(InnerListenerWrapperMap, {call[p].wrapper[1]}) IN
        \A x \in DOMAIN InnerListenerWrapperMap \ {call[p].wrapper[1]} :
          f[x] = InnerListenerWrapperMap[x]
    BY DEF Without
  <2> QED
    BY <1>2, <1>3, <1>4, <2>1, <2>2, <2>3
<1>5. CASE call[p].op # "unregister"
  <2>1. InnerListenerWrapperMap' = InnerListenerWrapperMap
    BY <1>5 DEF Return
  <2> QED
    BY <1>1, <1>2, <1>3, <1>5, <2>1
<1> QED
  BY <1>4, <1>5

\* Return keeps the map entries of other listeners.
LEMMA ReturnOther ==
  ASSUME ListenersInv, NEW p \in Procs, call[p] # NoCall, Return(p), NEW x, x # call[p].wrapper[1]
  PROVE  /\ x \in DOMAIN InnerListenerWrapperMap' <=> x \in DOMAIN InnerListenerWrapperMap
         /\ x \in DOMAIN InnerListenerWrapperMap' => InnerListenerWrapperMap'[x] = InnerListenerWrapperMap[x]
<1>1. DOMAIN InnerListenerWrapperMap' =
        IF call[p].op = "unregister" THEN DOMAIN InnerListenerWrapperMap \ {call[p].wrapper[1]}
        ELSE DOMAIN InnerListenerWrapperMap
  BY ReturnFacts
<1>2. \A l \in DOMAIN InnerListenerWrapperMap' : InnerListenerWrapperMap'[l] = InnerListenerWrapperMap[l]
  BY ReturnFacts
<1> QED
  BY <1>1, <1>2

\* The wrapper in the map of another listener is not the one of the call, and
\* the calls of other processes stay about wrappers in the map.
LEMMA OtherCalls ==
  ASSUME ListenersInv, NEW p \in Procs, call[p] # NoCall, Return(p)
  PROVE  \A q \in Procs : call'[q] # NoCall =>
           /\ call'[q] = call[q] /\ q # p
           /\ call[q].wrapper[1] \in DOMAIN InnerListenerWrapperMap'
           /\ InnerListenerWrapperMap'[call[q].wrapper[1]] = call[q].wrapper
<1> SUFFICES ASSUME NEW q \in Procs, call'[q] # NoCall
             PROVE  /\ call'[q] = call[q] /\ q # p
                    /\ call[q].wrapper[1] \in DOMAIN InnerListenerWrapperMap'
                    /\ InnerListenerWrapperMap'[call[q].wrapper[1]] = call[q].wrapper
  OBVIOUS
<1>1. q # p /\ call'[q] = call[q]
  BY ReturnFacts
<1>2. /\ Owner[call[q].wrapper[1]] = q /\ call[q].wrapper[1] \in DOMAIN InnerListenerWrapperMap
      /\ InnerListenerWrapperMap[call[q].wrapper[1]] = call[q].wrapper
      /\ Owner[call[p].wrapper[1]] = p
  BY <1>1, CallFacts
<1>3. call[q].wrapper[1] # call[p].wrapper[1]
  BY <1>1, <1>2
<1> QED
  BY <1>1, <1>2, <1>3, ReturnFacts

-----------------------------------------------------------------------------
(* Each action keeps the inductive invariant.                               *)

LEMMA InitInv == ListenersInit => ListenersInv
<1> SUFFICES ASSUME ListenersInit PROVE ListenersInv
  OBVIOUS
<1>1. DOMAIN NoFunction = {} /\ \A S, T : NoFunction \in Partial(S, T)
  BY NoFunctionFacts
<1>2. ListenersTypeOK
  BY <1>1, ListenerBounds DEF ListenersInit, ListenersTypeOK, Calls
<1>3. OnePerWrapper /\ LastMade /\ Watched
  BY <1>1 DEF ListenersInit, OnePerWrapper, LastMade, Watched
<1>4. AgreeAlways
  BY <1>1 DEF ListenersInit, AgreeAlways
<1> QED
  BY <1>2, <1>3, <1>4 DEF ListenersInv

LEMMA RegisterListenerInnerInv ==
  ASSUME ListenersInv, NEW l \in Listeners, RegisterListenerInner(l)
  PROVE  ListenersInv'
<1> DEFINE w == <<l, made[l] + 1>>
           c == [op |-> "register", wrapper |-> w]
<1>0. /\ ListenersTypeOK /\ OnePerWrapper /\ LastMade /\ Watched /\ AgreeAlways
  BY DEF ListenersInv
<1>1. /\ call[Owner[l]] = NoCall /\ l \notin DOMAIN InnerListenerWrapperMap /\ made[l] < MaxWrappers
      /\ made' = [made EXCEPT ![l] = @ + 1]
      /\ InnerListenerWrapperMap' = With(InnerListenerWrapperMap, l, w)
      /\ call' = [call EXCEPT ![Owner[l]] = c]
      /\ gone' = gone /\ unsure' = unsure /\ deaths' = deaths
      /\ deathRecipientMap' = deathRecipientMap /\ innerListenMap' = innerListenMap
      /\ obituaries' = obituaries /\ restarts' = restarts
  BY DEF RegisterListenerInner, serviceVars
<1>2. /\ Owner[l] \in Procs /\ made \in [Listeners -> 0..MaxWrappers]
      /\ call \in [Procs -> Calls]
      /\ InnerListenerWrapperMap \in Partial(Listeners, Wrappers)
  BY <1>0, ListenersAssumption DEF ListenersTypeOK
<1>3. w \in Wrappers /\ w[1] = l /\ w[2] = made[l] + 1
  BY <1>1, <1>2, ListenerBounds DEF Wrappers
<1>4. /\ InnerListenerWrapperMap' \in Partial(Listeners, Wrappers)
      /\ DOMAIN InnerListenerWrapperMap' = DOMAIN InnerListenerWrapperMap \cup {l}
      /\ InnerListenerWrapperMap'[l] = w
      /\ \A x \in DOMAIN InnerListenerWrapperMap : InnerListenerWrapperMap'[x] = InnerListenerWrapperMap[x]
  <2>0. InnerListenerWrapperMap \in Partial(Listeners, Wrappers) /\ w \in Wrappers
    BY <1>2, <1>3
  <2> HIDE DEF w
  <2>1. With(InnerListenerWrapperMap, l, w) \in Partial(Listeners, Wrappers)
    BY <2>0, WithFacts
  <2>2. LET f == With(InnerListenerWrapperMap, l, w) IN
        /\ DOMAIN f = DOMAIN InnerListenerWrapperMap \cup {l}
        /\ f[l] = w
        /\ \A x \in DOMAIN InnerListenerWrapperMap : x # l => f[x] = InnerListenerWrapperMap[x]
    BY DEF With
  <2> QED
    BY <1>1, <2>1, <2>2
<1>5. c \in Calls /\ c # NoCall /\ c.op = "register" /\ c.wrapper = w
  BY <1>3 DEF Calls, NoCall
<1>6. /\ call' \in [Procs -> Calls] /\ call'[Owner[l]] = c
      /\ \A q \in Procs : q # Owner[l] => call'[q] = call[q]
  BY <1>1, <1>2, <1>5
<1>7. /\ made' \in [Listeners -> 0..MaxWrappers]
      /\ made'[l] = made[l] + 1 /\ made[l] \in Nat
      /\ \A x \in Listeners : x # l => made'[x] = made[x]
  BY <1>1, <1>2, ListenerBounds
<1>8. w \notin gone
  BY <1>0, <1>2, <1>3 DEF LastMade
<1>9. RegistrationOf(w) \notin innerListenMap
  BY <1>0, <1>2, <1>3, RegistrationFacts DEF LastMade
<1>10. ListenersTypeOK'
  <2>1. \A p \in Procs : call'[p] # NoCall => Owner[call'[p].wrapper[1]] = p
    BY <1>0, <1>3, <1>5, <1>6 DEF ListenersTypeOK
  <2> QED
    BY <1>0, <1>1, <1>4, <1>6, <1>7, <2>1 DEF ListenersTypeOK
<1>11. OnePerWrapper' /\ Watched'
  BY <1>0, <1>1 DEF OnePerWrapper, Watched, RegistrationOf, ResolvedUser
<1>12. LastMade'
  <2>1. \A x \in Wrappers : x[1] \in Listeners /\ x[2] \in Nat /\ x = <<x[1], x[2]>>
    BY WrapperFacts
  <2>2. \A x \in Listeners : made[x] <= made'[x]
    BY <1>2, <1>7
  <2>3. \A x \in gone : x[2] <= made'[x[1]]
    BY <1>0, <1>2, <1>7, <2>1, <2>2 DEF LastMade, ListenersTypeOK
  <2>4. \A x \in innerListenMap : x.wrapper[2] <= made'[x.wrapper[1]]
    <3>1. \A x \in innerListenMap : x.wrapper \in Wrappers
      BY <1>0 DEF ListenersTypeOK, Registrations
    <3> QED
      BY <1>0, <1>2, <1>7, <2>1, <2>2, <3>1 DEF LastMade
  <2>7. \A x \in DOMAIN deathRecipientMap : x[2] <= made'[x[1]]
    <3>1. DOMAIN deathRecipientMap \subseteq Wrappers
      BY <1>0, PartialFacts DEF ListenersTypeOK
    <3> QED
      BY <1>0, <1>2, <1>7, <2>1, <2>2, <3>1 DEF LastMade
  <2>5. \A x \in DOMAIN InnerListenerWrapperMap' :
          InnerListenerWrapperMap'[x] = <<x, made'[x]>> /\ InnerListenerWrapperMap'[x] \notin gone
    <3>1. DOMAIN InnerListenerWrapperMap \subseteq Listeners
      BY <1>2, PartialFacts
    <3> QED
      BY <1>0, <1>1, <1>4, <1>7, <1>8, <3>1 DEF LastMade
  <2>6. \A p \in Procs : call'[p] # NoCall =>
          /\ call'[p].wrapper[1] \in DOMAIN InnerListenerWrapperMap'
          /\ InnerListenerWrapperMap'[call'[p].wrapper[1]] = call'[p].wrapper
    BY <1>0, <1>3, <1>4, <1>5, <1>6 DEF LastMade
  <2> QED
    BY <1>1, <2>3, <2>4, <2>5, <2>6, <2>7 DEF LastMade
<1>13. AgreeAlways'
  <2> SUFFICES ASSUME NEW x \in Listeners \ unsure, NEW v \in Wrappers \ gone, v[1] = x
               PROVE  RegistrationOf(v) \in innerListenMap
                        <=> x \in DOMAIN InnerListenerWrapperMap' /\ v = InnerListenerWrapperMap'[x]
                              /\ ~Registering(x)'
    BY <1>1 DEF AgreeAlways, RegistrationOf, ResolvedUser
  <2>1. CASE x = l
    <3>1. Registering(l)'
      BY <1>3, <1>5, <1>6 DEF Registering
    <3>2. RegistrationOf(v) \notin innerListenMap
      BY <1>0, <1>1, <2>1 DEF AgreeAlways
    <3> QED
      BY <2>1, <3>1, <3>2
  <2>2. CASE x # l
    <3>1. Registering(x)' <=> Registering(x)
      <4>1. CASE Owner[x] = Owner[l]
        BY <1>1, <1>3, <1>5, <1>6, <2>2, <4>1 DEF Registering
      <4>2. CASE Owner[x] # Owner[l]
        BY <1>2, ListenersAssumption, <1>6, <4>2 DEF Registering
      <4> QED
        BY <4>1, <4>2
    <3> QED
      BY <1>0, <1>4, <2>2, <3>1 DEF AgreeAlways
  <2> QED
    BY <2>1, <2>2
<1> QED
  BY <1>10, <1>11, <1>12, <1>13 DEF ListenersInv

LEMMA UnRegisterListenerInnerInv ==
  ASSUME ListenersInv, NEW l \in Listeners, UnRegisterListenerInner(l)
  PROVE  ListenersInv'
<1> DEFINE w == InnerListenerWrapperMap[l]
           c == [op |-> "unregister", wrapper |-> w]
<1>0. /\ ListenersTypeOK /\ OnePerWrapper /\ LastMade /\ Watched /\ AgreeAlways
  BY DEF ListenersInv
<1>1. /\ call[Owner[l]] = NoCall /\ l \in DOMAIN InnerListenerWrapperMap
      /\ call' = [call EXCEPT ![Owner[l]] = c]
      /\ UNCHANGED <<InnerListenerWrapperMap, made, gone, unsure, deaths,
                     deathRecipientMap, innerListenMap, obituaries, restarts>>
  BY DEF UnRegisterListenerInner, serviceVars
<1>2. Owner[l] \in Procs /\ call \in [Procs -> Calls]
  BY <1>0, ListenersAssumption DEF ListenersTypeOK
<1>3. w \in Wrappers /\ w[1] = l
  <2>1. w \in Wrappers
    BY <1>0, <1>1, PartialFacts DEF ListenersTypeOK
  <2> QED
    BY <1>0, <1>1, <2>1 DEF LastMade
<1>4. c \in Calls /\ c # NoCall /\ c.op = "unregister" /\ c.wrapper = w
  BY <1>3 DEF Calls, NoCall
<1>5. /\ call' \in [Procs -> Calls] /\ call'[Owner[l]] = c
      /\ \A q \in Procs : q # Owner[l] => call'[q] = call[q]
  BY <1>1, <1>2, <1>4
<1>6. ListenersTypeOK'
  BY <1>0, <1>1, <1>3, <1>4, <1>5 DEF ListenersTypeOK
<1>7. OnePerWrapper' /\ Watched'
  BY <1>0, <1>1 DEF OnePerWrapper, Watched, RegistrationOf, ResolvedUser
<1>8. LastMade'
  BY <1>0, <1>1, <1>3, <1>4, <1>5 DEF LastMade
<1>9. AgreeAlways'
  <2>1. \A x \in Listeners : Registering(x)' <=> Registering(x)
    BY <1>1, <1>4, <1>5, ListenersAssumption DEF Registering
  <2> QED
    BY <1>0, <1>1, <2>1 DEF AgreeAlways, RegistrationOf, ResolvedUser
<1> QED
  BY <1>6, <1>7, <1>8, <1>9 DEF ListenersInv

\* The return of a call is the end of a registration of its listener only.
LEMMA ReturnRegistering ==
  ASSUME ListenersInv, NEW p \in Procs, call[p] # NoCall, Return(p), NEW x \in Listeners
  PROVE  /\ x # call[p].wrapper[1] => (Registering(x)' <=> Registering(x))
         /\ x = call[p].wrapper[1] => ~Registering(x)'
         /\ x = call[p].wrapper[1] => (Registering(x) <=> call[p].op = "register")
<1>1. Owner[x] \in Procs /\ Owner[call[p].wrapper[1]] = p
  BY ListenersAssumption, CallFacts
<1>2. call'[p] = NoCall /\ \A q \in Procs : q # p => call'[q] = call[q]
  BY ReturnFacts
<1> QED
  BY <1>1, <1>2 DEF Registering

\* Return keeps LastMade when the service registers wrappers made.
LEMMA ReturnLastMade ==
  ASSUME ListenersInv, NEW p \in Procs, call[p] # NoCall, Return(p),
         \A x \in innerListenMap' : x.wrapper[2] <= made[x.wrapper[1]],
         \A w \in DOMAIN deathRecipientMap' : w[2] <= made[w[1]]
  PROVE  LastMade'
<1>1. made' = made /\ gone' = gone
  BY ReturnFacts
<1>2. \A w \in gone : w[2] <= made[w[1]]
  BY DEF ListenersInv, LastMade
<1>3. \A l \in DOMAIN InnerListenerWrapperMap' :
        /\ l \in DOMAIN InnerListenerWrapperMap
        /\ InnerListenerWrapperMap'[l] = InnerListenerWrapperMap[l]
  BY ReturnFacts
<1>4. \A l \in DOMAIN InnerListenerWrapperMap' :
        InnerListenerWrapperMap'[l] = <<l, made[l]>> /\ InnerListenerWrapperMap'[l] \notin gone
  BY <1>3 DEF ListenersInv, LastMade
<1>5. \A q \in Procs : call'[q] # NoCall =>
        /\ call'[q].wrapper[1] \in DOMAIN InnerListenerWrapperMap'
        /\ InnerListenerWrapperMap'[call'[q].wrapper[1]] = call'[q].wrapper
  BY OtherCalls
<1> QED
  BY <1>1, <1>2, <1>4, <1>5 DEF LastMade

\* Return keeps the types of the library's variables.
LEMMA ReturnTypes ==
  ASSUME ListenersInv, NEW p \in Procs, call[p] # NoCall, Return(p)
  PROVE  /\ InnerListenerWrapperMap' \in Partial(Listeners, Wrappers)
         /\ call' \in [Procs -> Calls]
         /\ \A q \in Procs : call'[q] # NoCall => Owner[call'[q].wrapper[1]] = q
         /\ made' \in [Listeners -> 0..MaxWrappers] /\ gone' \in SUBSET Wrappers
<1>1. \A q \in Procs : call'[q] # NoCall => Owner[call'[q].wrapper[1]] = q
  BY OtherCalls, CallFacts
<1> QED
  BY <1>1, ReturnFacts DEF ListenersInv, ListenersTypeOK

LEMMA CallFailsInv ==
  ASSUME ListenersInv, NEW p \in Procs, CallFails(p)
  PROVE  ListenersInv'
<1> DEFINE l == call[p].wrapper[1]
<1>0. /\ ListenersTypeOK /\ OnePerWrapper /\ LastMade /\ Watched /\ AgreeAlways
  BY DEF ListenersInv
<1>1. /\ call[p] # NoCall /\ Return(p) /\ unsure' = unsure \cup {l}
      /\ UNCHANGED <<deaths, deathRecipientMap, innerListenMap, obituaries, restarts>>
  BY DEF CallFails, serviceVars
<1>2. l \in Listeners /\ gone' = gone
  BY <1>1, CallFacts, WrapperFacts, ReturnFacts
<1>3. ListenersTypeOK'
  BY <1>0, <1>1, <1>2, ReturnTypes DEF ListenersTypeOK
<1>4. OnePerWrapper' /\ Watched'
  BY <1>0, <1>1, <1>2 DEF OnePerWrapper, Watched, RegistrationOf, ResolvedUser
<1>5. LastMade'
  BY <1>0, <1>1, ReturnLastMade DEF LastMade
<1>6. AgreeAlways'
  <2> SUFFICES ASSUME NEW x \in Listeners \ unsure, x # l, NEW v \in Wrappers \ gone, v[1] = x
               PROVE  RegistrationOf(v) \in innerListenMap
                        <=> x \in DOMAIN InnerListenerWrapperMap' /\ v = InnerListenerWrapperMap'[x]
                              /\ ~Registering(x)'
    BY <1>1, <1>2 DEF AgreeAlways, RegistrationOf, ResolvedUser
  <2>1. Registering(x)' <=> Registering(x)
    BY <1>1, ReturnRegistering
  <2>2. /\ x \in DOMAIN InnerListenerWrapperMap' <=> x \in DOMAIN InnerListenerWrapperMap
        /\ x \in DOMAIN InnerListenerWrapperMap' => InnerListenerWrapperMap'[x] = InnerListenerWrapperMap[x]
    BY <1>1, ReturnOther
  <2> QED
    BY <1>0, <2>1, <2>2 DEF AgreeAlways
<1> QED
  BY <1>3, <1>4, <1>5, <1>6 DEF ListenersInv

LEMMA RegisterInnerListenerInv ==
  ASSUME ListenersInv, NEW p \in Procs, RegisterInnerListener(p)
  PROVE  ListenersInv'
<1> DEFINE w == call[p].wrapper
           l == call[p].wrapper[1]
<1>0. /\ ListenersTypeOK /\ OnePerWrapper /\ LastMade /\ Watched /\ AgreeAlways
  BY DEF ListenersInv
<1>1. /\ call[p] # NoCall /\ call[p].op = "register" /\ Return(p)
      /\ innerListenMap' = innerListenMap \cup {RegistrationOf(w)}
      /\ deathRecipientMap' = IF NeedsRecipient(w) THEN With(deathRecipientMap, w, TypeOf[w[1]])
                              ELSE deathRecipientMap
      /\ UNCHANGED <<unsure, deaths, obituaries, restarts>>
  BY DEF RegisterInnerListener
<1>2. /\ w \in Wrappers /\ l \in Listeners /\ gone' = gone /\ made' = made
      /\ l \in DOMAIN InnerListenerWrapperMap /\ InnerListenerWrapperMap[l] = w
  BY <1>1, CallFacts, WrapperFacts, ReturnFacts
<1>3. /\ RegistrationOf(w) \in Registrations /\ RegistrationOf(w).wrapper = w
      /\ TypeOf[w[1]] \in ListenTypes
  BY <1>2, RegistrationFacts, ListenersAssumption
<1>4. w[2] <= made[w[1]]
  <2>1. w = <<l, made[l]>> /\ made[l] \in Nat
    BY <1>0, <1>2, ListenerBounds DEF LastMade, ListenersTypeOK
  <2> QED
    BY <2>1
<1> HIDE DEF w, l
<1>5. /\ deathRecipientMap' \in Partial(Wrappers, ListenTypes)
      /\ DOMAIN deathRecipientMap' = DOMAIN deathRecipientMap \cup {w}
      /\ \A v \in DOMAIN deathRecipientMap' :
           deathRecipientMap'[v] = IF v \in DOMAIN deathRecipientMap THEN deathRecipientMap[v]
                                   ELSE TypeOf[w[1]]
  <2>1. deathRecipientMap \in Partial(Wrappers, ListenTypes)
    BY <1>0 DEF ListenersTypeOK
  <2>2. CASE NeedsRecipient(w)
    <3>1. With(deathRecipientMap, w, TypeOf[w[1]]) \in Partial(Wrappers, ListenTypes)
      BY <1>2, <1>3, <2>1, WithFacts
    <3>2. deathRecipientMap' = With(deathRecipientMap, w, TypeOf[w[1]]) /\ w \notin DOMAIN deathRecipientMap
      BY <1>1, <2>2 DEF NeedsRecipient
    <3> QED
      BY <3>1, <3>2 DEF With
  <2>3. CASE ~NeedsRecipient(w)
    BY <1>1, <2>1, <2>3 DEF NeedsRecipient
  <2> QED
    BY <2>2, <2>3
<1>6. ListenersTypeOK'
  BY <1>0, <1>1, <1>3, <1>5, ReturnTypes DEF ListenersTypeOK
<1>7. OnePerWrapper'
  <2>1. \A x \in innerListenMap' : x = RegistrationOf(x.wrapper)
    BY <1>0, <1>1, <1>3 DEF OnePerWrapper
  <2> QED
    BY <1>0, <1>1, <1>2, <1>5, <2>1 DEF OnePerWrapper, RegistrationOf, ResolvedUser
<1>8. LastMade'
  <2>1. \A x \in innerListenMap' : x.wrapper[2] <= made[x.wrapper[1]]
    BY <1>0, <1>1, <1>3, <1>4 DEF LastMade
  <2>2. \A v \in DOMAIN deathRecipientMap' : v[2] <= made[v[1]]
    BY <1>0, <1>4, <1>5 DEF LastMade
  <2> QED
    BY <1>1, <2>1, <2>2, ReturnLastMade
<1>9. Watched'
  BY <1>0, <1>1, <1>3, <1>5 DEF Watched
<1>10. AgreeAlways'
  <2> SUFFICES ASSUME NEW x \in Listeners \ unsure, NEW v \in Wrappers \ gone, v[1] = x
               PROVE  RegistrationOf(v) \in innerListenMap'
                        <=> x \in DOMAIN InnerListenerWrapperMap' /\ v = InnerListenerWrapperMap'[x]
                              /\ ~Registering(x)'
    BY <1>1, <1>2 DEF AgreeAlways, RegistrationOf, ResolvedUser
  <2>1. RegistrationOf(v).wrapper = v
    BY RegistrationFacts
  <2>2. RegistrationOf(v) \in innerListenMap' <=> v = w \/ RegistrationOf(v) \in innerListenMap
    BY <1>1, <1>3, <2>1
  <2>3. RegistrationOf(v) \in innerListenMap
          <=> x \in DOMAIN InnerListenerWrapperMap /\ v = InnerListenerWrapperMap[x] /\ ~Registering(x)
    BY <1>0 DEF AgreeAlways
  <2>4. CASE x = l
    <3>1. ~Registering(x)' /\ Registering(x)
      BY <1>1, <2>4, ReturnRegistering DEF l
    <3>2. /\ DOMAIN InnerListenerWrapperMap' = DOMAIN InnerListenerWrapperMap
          /\ \A y \in DOMAIN InnerListenerWrapperMap' : InnerListenerWrapperMap'[y] = InnerListenerWrapperMap[y]
      BY <1>1, ReturnFacts
    <3> QED
      BY <1>2, <2>2, <2>3, <2>4, <3>1, <3>2
  <2>5. CASE x # l
    <3>1. v # w
      BY <2>5 DEF l, w
    <3>2. Registering(x)' <=> Registering(x)
      BY <1>1, <2>5, ReturnRegistering DEF l
    <3>3. /\ x \in DOMAIN InnerListenerWrapperMap' <=> x \in DOMAIN InnerListenerWrapperMap
          /\ x \in DOMAIN InnerListenerWrapperMap' => InnerListenerWrapperMap'[x] = InnerListenerWrapperMap[x]
      BY <1>1, <2>5, ReturnOther DEF l
    <3> QED
      BY <2>2, <2>3, <3>1, <3>2, <3>3
  <2> QED
    BY <2>4, <2>5
<1> QED
  BY <1>6, <1>7, <1>8, <1>9, <1>10 DEF ListenersInv

LEMMA UnRegisterInnerListenerInv ==
  ASSUME ListenersInv, NEW p \in Procs, UnRegisterInnerListener(p)
  PROVE  ListenersInv'
<1> DEFINE w == call[p].wrapper
           l == call[p].wrapper[1]
<1>0. /\ ListenersTypeOK /\ OnePerWrapper /\ LastMade /\ Watched /\ AgreeAlways
  BY DEF ListenersInv
<1>1. /\ call[p] # NoCall /\ call[p].op = "unregister" /\ Return(p)
      /\ UnRegister(TypeOf[w[1]], w)
      /\ UNCHANGED <<unsure, deaths, obituaries, restarts>>
  BY DEF UnRegisterInnerListener
<1>2. /\ w \in Wrappers /\ l \in Listeners /\ gone' = gone /\ made' = made
      /\ InnerListenerWrapperMap[l] = w
  BY <1>1, CallFacts, WrapperFacts, ReturnFacts
<1> HIDE DEF w, l
<1>3. /\ innerListenMap' = {x \in innerListenMap : x.wrapper # w}
      /\ deathRecipientMap' \in Partial(Wrappers, ListenTypes)
      /\ DOMAIN deathRecipientMap' = DOMAIN deathRecipientMap \ {w}
      /\ \A x \in DOMAIN deathRecipientMap' : deathRecipientMap'[x] = deathRecipientMap[x]
  BY <1>1, <1>2, UnRegisterFacts
<1>4. ListenersTypeOK'
  BY <1>0, <1>1, <1>3, ReturnTypes DEF ListenersTypeOK
<1>5. OnePerWrapper' /\ Watched'
  BY <1>0, <1>1, <1>2, <1>3 DEF OnePerWrapper, Watched, RegistrationOf, ResolvedUser
<1>6. LastMade'
  BY <1>0, <1>1, <1>3, ReturnLastMade DEF LastMade
<1>7. AgreeAlways'
  <2> SUFFICES ASSUME NEW x \in Listeners \ unsure, NEW v \in Wrappers \ gone, v[1] = x
               PROVE  RegistrationOf(v) \in innerListenMap'
                        <=> x \in DOMAIN InnerListenerWrapperMap' /\ v = InnerListenerWrapperMap'[x]
                              /\ ~Registering(x)'
    BY <1>1, <1>2 DEF AgreeAlways, RegistrationOf, ResolvedUser
  <2>1. RegistrationOf(v).wrapper = v
    BY RegistrationFacts
  <2>2. RegistrationOf(v) \in innerListenMap' <=> v # w /\ RegistrationOf(v) \in innerListenMap
    BY <1>3, <2>1
  <2>3. RegistrationOf(v) \in innerListenMap
          <=> x \in DOMAIN InnerListenerWrapperMap /\ v = InnerListenerWrapperMap[x] /\ ~Registering(x)
    BY <1>0 DEF AgreeAlways
  <2>4. CASE x = l
    <3>1. DOMAIN InnerListenerWrapperMap' = DOMAIN InnerListenerWrapperMap \ {l}
      BY <1>1, ReturnFacts DEF l
    <3> QED
      BY <1>2, <2>2, <2>3, <2>4, <3>1
  <2>5. CASE x # l
    <3>1. v # w
      BY <2>5 DEF l, w
    <3>2. Registering(x)' <=> Registering(x)
      BY <1>1, <2>5, ReturnRegistering DEF l
    <3>3. /\ x \in DOMAIN InnerListenerWrapperMap' <=> x \in DOMAIN InnerListenerWrapperMap
          /\ x \in DOMAIN InnerListenerWrapperMap' => InnerListenerWrapperMap'[x] = InnerListenerWrapperMap[x]
      BY <1>1, <2>5, ReturnOther DEF l
    <3> QED
      BY <2>2, <2>3, <3>1, <3>2, <3>3
  <2> QED
    BY <2>4, <2>5
<1> QED
  BY <1>4, <1>5, <1>6, <1>7 DEF ListenersInv

LEMMA OnRemoteDiedInv ==
  ASSUME ListenersInv, NEW w \in Wrappers, OnRemoteDied(w)
  PROVE  ListenersInv'
<1>0. /\ ListenersTypeOK /\ OnePerWrapper /\ LastMade /\ Watched /\ AgreeAlways
  BY DEF ListenersInv
<1>1. /\ w \in DOMAIN obituaries
      /\ obituaries' = IF w \in DOMAIN deathRecipientMap
                       THEN [obituaries EXCEPT ![w] = deathRecipientMap[w]]
                       ELSE Without(obituaries, {w})
      /\ UNCHANGED <<InnerListenerWrapperMap, call, made, gone, unsure, deaths,
                     deathRecipientMap, innerListenMap, restarts>>
  BY DEF OnRemoteDied, clientVars
<1>2. /\ obituaries \in Partial(Wrappers, ListenTypes \cup {NoType})
      /\ deathRecipientMap \in Partial(Wrappers, ListenTypes)
  BY <1>0 DEF ListenersTypeOK
<1>3. /\ obituaries' \in Partial(Wrappers, ListenTypes \cup {NoType})
      /\ \A v \in DOMAIN obituaries' : v \in DOMAIN obituaries /\ obituaries'[v] \in {obituaries[v], TypeOf[v[1]]}
  <2>1. CASE w \in DOMAIN deathRecipientMap
    <3>1. deathRecipientMap[w] = TypeOf[w[1]] /\ deathRecipientMap[w] \in ListenTypes
      BY <1>0, <1>2, <2>1, PartialFacts DEF OnePerWrapper
    <3>2. obituaries' = [obituaries EXCEPT ![w] = deathRecipientMap[w]]
      BY <1>1, <2>1
    <3>3. PICK D \in SUBSET Wrappers : obituaries \in [D -> ListenTypes \cup {NoType}]
      BY <1>2 DEF Partial
    <3>4. obituaries' \in [D -> ListenTypes \cup {NoType}]
      BY <3>1, <3>2, <3>3
    <3>5. obituaries' \in Partial(Wrappers, ListenTypes \cup {NoType})
      BY <3>4 DEF Partial
    <3> QED
      BY <3>1, <3>2, <3>3, <3>5
  <2>2. CASE w \notin DOMAIN deathRecipientMap
    <3>1. obituaries' = Without(obituaries, {w})
      BY <1>1, <2>2
    <3>2. Without(obituaries, {w}) \in Partial(Wrappers, ListenTypes \cup {NoType})
      BY <1>2, WithoutFacts
    <3> QED
      BY <3>1, <3>2 DEF Without
  <2> QED
    BY <2>1, <2>2
<1>4. ListenersTypeOK'
  BY <1>0, <1>1, <1>3 DEF ListenersTypeOK
<1>5. OnePerWrapper'
  BY <1>0, <1>1, <1>3 DEF OnePerWrapper, RegistrationOf, ResolvedUser
<1>6. LastMade' /\ Watched' /\ AgreeAlways'
  BY <1>0, <1>1 DEF LastMade, Watched, AgreeAlways, RegistrationOf, ResolvedUser, Registering
<1> QED
  BY <1>4, <1>5, <1>6 DEF ListenersInv

LEMMA UnRegisterDeadInv ==
  ASSUME ListenersInv, NEW w \in Wrappers, UnRegisterDead(w)
  PROVE  ListenersInv'
<1>0. /\ ListenersTypeOK /\ OnePerWrapper /\ LastMade /\ Watched /\ AgreeAlways
  BY DEF ListenersInv
<1>1. /\ w \in DOMAIN obituaries /\ obituaries[w] # NoType
      /\ UnRegister(obituaries[w], w)
      /\ obituaries' = Without(obituaries, {w})
      /\ UNCHANGED <<InnerListenerWrapperMap, call, made, gone, unsure, deaths, restarts>>
  BY DEF UnRegisterDead, clientVars
<1>2. obituaries[w] = TypeOf[w[1]] /\ w \in gone
  BY <1>0, <1>1 DEF OnePerWrapper
<1>3. /\ innerListenMap' = {x \in innerListenMap : x.wrapper # w}
      /\ deathRecipientMap' \in Partial(Wrappers, ListenTypes)
      /\ DOMAIN deathRecipientMap' = DOMAIN deathRecipientMap \ {w}
      /\ \A x \in DOMAIN deathRecipientMap' : deathRecipientMap'[x] = deathRecipientMap[x]
  BY <1>1, <1>2, UnRegisterFacts
<1>4. /\ obituaries' \in Partial(Wrappers, ListenTypes \cup {NoType})
      /\ \A v \in DOMAIN obituaries' : v \in DOMAIN obituaries /\ obituaries'[v] = obituaries[v]
  <2>1. obituaries \in Partial(Wrappers, ListenTypes \cup {NoType})
    BY <1>0 DEF ListenersTypeOK
  <2>2. Without(obituaries, {w}) \in Partial(Wrappers, ListenTypes \cup {NoType})
    BY <2>1, WithoutFacts
  <2> QED
    BY <1>1, <2>2 DEF Without
<1>5. ListenersTypeOK'
  BY <1>0, <1>1, <1>3, <1>4 DEF ListenersTypeOK
<1>6. OnePerWrapper' /\ Watched'
  BY <1>0, <1>1, <1>3, <1>4 DEF OnePerWrapper, Watched, RegistrationOf, ResolvedUser
<1>7. LastMade'
  BY <1>0, <1>1, <1>3 DEF LastMade
<1>8. AgreeAlways'
  <2>1. \A v \in Wrappers \ gone : RegistrationOf(v) \in innerListenMap' <=> RegistrationOf(v) \in innerListenMap
    BY <1>2, <1>3, RegistrationFacts
  <2> QED
    BY <1>0, <1>1, <2>1 DEF AgreeAlways, RegistrationOf, ResolvedUser, Registering
<1> QED
  BY <1>5, <1>6, <1>7, <1>8 DEF ListenersInv

LEMMA ServiceRestartsInv == ListenersInv /\ ServiceRestarts => ListenersInv'
<1> SUFFICES ASSUME ListenersInv, ServiceRestarts PROVE ListenersInv'
  OBVIOUS
<1>0. /\ ListenersTypeOK /\ OnePerWrapper /\ LastMade /\ Watched /\ AgreeAlways
  BY DEF ListenersInv
<1>1. /\ deathRecipientMap' = NoFunction /\ innerListenMap' = {} /\ obituaries' = NoFunction
      /\ call' = [p \in Procs |-> NoCall]
      /\ InnerListenerWrapperMap' = Without(InnerListenerWrapperMap, Leaving)
      /\ unsure' = unsure \cup DOMAIN InnerListenerWrapperMap
      /\ restarts' = restarts + 1 /\ UNCHANGED <<made, gone, deaths>>
  BY DEF ServiceRestarts
<1>2. /\ DOMAIN NoFunction = {} /\ NoFunction \in Partial(Wrappers, ListenTypes)
      /\ NoFunction \in Partial(Wrappers, ListenTypes \cup {NoType})
  BY NoFunctionFacts
<1>3. /\ InnerListenerWrapperMap' \in Partial(Listeners, Wrappers)
      /\ DOMAIN InnerListenerWrapperMap' \subseteq DOMAIN InnerListenerWrapperMap
      /\ \A l \in DOMAIN InnerListenerWrapperMap' : InnerListenerWrapperMap'[l] = InnerListenerWrapperMap[l]
  <2>1. InnerListenerWrapperMap \in Partial(Listeners, Wrappers)
    BY <1>0 DEF ListenersTypeOK
  <2>2. Without(InnerListenerWrapperMap, Leaving) \in Partial(Listeners, Wrappers)
    BY <2>1, WithoutFacts
  <2> QED
    BY <1>1, <2>2 DEF Without
<1>4. DOMAIN InnerListenerWrapperMap \subseteq Listeners
  BY <1>0, PartialFacts DEF ListenersTypeOK
<1>5. call' \in [Procs -> Calls] /\ \A p \in Procs : call'[p] = NoCall
  BY <1>1 DEF Calls
<1>6. ListenersTypeOK'
  BY <1>0, <1>1, <1>2, <1>3, <1>4, <1>5 DEF ListenersTypeOK
<1>7. OnePerWrapper' /\ Watched'
  BY <1>1, <1>2 DEF OnePerWrapper, Watched
<1>8. LastMade'
  BY <1>0, <1>1, <1>2, <1>3, <1>5 DEF LastMade
<1>9. AgreeAlways'
  BY <1>1, <1>3 DEF AgreeAlways
<1> QED
  BY <1>6, <1>7, <1>8, <1>9 DEF ListenersInv

LEMMA ProcessDiesInv ==
  ASSUME ListenersInv, NEW p \in Procs, ProcessDies(p)
  PROVE  ListenersInv'
<1> DEFINE dying == {w \in WrappersOf(p) : w[2] <= made[w[1]]}
<1>0. /\ ListenersTypeOK /\ OnePerWrapper /\ LastMade /\ Watched /\ AgreeAlways
  BY DEF ListenersInv
<1>1. /\ gone' = gone \cup dying
      /\ obituaries' = [w \in DOMAIN obituaries \cup (WrappersOf(p) \cap DOMAIN deathRecipientMap) |->
                           IF w \in DOMAIN obituaries THEN obituaries[w] ELSE NoType]
      /\ InnerListenerWrapperMap' = Without(InnerListenerWrapperMap, Mine(p))
      /\ call' = [call EXCEPT ![p] = NoCall]
      /\ unsure' = unsure \ Mine(p) /\ deaths' = deaths + 1
      /\ UNCHANGED <<made, deathRecipientMap, innerListenMap, restarts>>
  BY DEF ProcessDies
<1>2. /\ InnerListenerWrapperMap \in Partial(Listeners, Wrappers)
      /\ DOMAIN InnerListenerWrapperMap \subseteq Listeners
      /\ call \in [Procs -> Calls]
      /\ DOMAIN obituaries \subseteq Wrappers
      /\ \A w \in DOMAIN obituaries : obituaries[w] \in ListenTypes \cup {NoType}
      /\ DOMAIN deathRecipientMap \subseteq Wrappers
  BY <1>0, PartialFacts DEF ListenersTypeOK
<1>3. WrappersOf(p) \subseteq Wrappers /\ \A w \in WrappersOf(p) : Owner[w[1]] = p
  BY DEF WrappersOf
<1>4. /\ InnerListenerWrapperMap' \in Partial(Listeners, Wrappers)
      /\ \A l : l \in DOMAIN InnerListenerWrapperMap' <=>
               l \in DOMAIN InnerListenerWrapperMap /\ Owner[l] # p
      /\ \A l \in DOMAIN InnerListenerWrapperMap' : InnerListenerWrapperMap'[l] = InnerListenerWrapperMap[l]
  <2>1. Without(InnerListenerWrapperMap, Mine(p)) \in Partial(Listeners, Wrappers)
    BY <1>2, WithoutFacts
  <2>2. DOMAIN InnerListenerWrapperMap' = DOMAIN InnerListenerWrapperMap \ Mine(p)
    BY <1>1 DEF Without
  <2>3. \A l \in DOMAIN InnerListenerWrapperMap' : InnerListenerWrapperMap'[l] = InnerListenerWrapperMap[l]
    BY <1>1 DEF Without
  <2> QED
    BY <1>1, <1>2, <2>1, <2>2, <2>3 DEF Mine
<1>5. /\ call' \in [Procs -> Calls] /\ call'[p] = NoCall
      /\ \A q \in Procs : q # p => call'[q] = call[q]
  BY <1>1, <1>2 DEF Calls
<1>6. /\ obituaries' \in Partial(Wrappers, ListenTypes \cup {NoType})
      /\ \A w \in DOMAIN obituaries' :
           /\ w \in DOMAIN obituaries \/ (w \in WrappersOf(p) /\ w \in DOMAIN deathRecipientMap)
           /\ obituaries'[w] = IF w \in DOMAIN obituaries THEN obituaries[w] ELSE NoType
  <2> DEFINE D == DOMAIN obituaries \cup (WrappersOf(p) \cap DOMAIN deathRecipientMap)
  <2>1. D \in SUBSET Wrappers
    BY <1>2, <1>3
  <2>2. obituaries' \in [D -> ListenTypes \cup {NoType}]
    BY <1>1, <1>2
  <2>3. obituaries' \in Partial(Wrappers, ListenTypes \cup {NoType})
    BY <2>1, <2>2 DEF Partial
  <2> QED
    BY <1>1, <2>3
<1>7. \A w \in DOMAIN obituaries' : w \in gone'
  BY <1>0, <1>1, <1>6 DEF LastMade, OnePerWrapper
<1>8. ListenersTypeOK'
  <2>1. \A q \in Procs : call'[q] # NoCall => Owner[call'[q].wrapper[1]] = q
    BY <1>0, <1>5 DEF ListenersTypeOK
  <2>2. gone' \in SUBSET Wrappers /\ unsure' \in SUBSET Listeners
    BY <1>0, <1>1, <1>3 DEF ListenersTypeOK
  <2>3. made' \in [Listeners -> 0..MaxWrappers] /\ deaths' \in Nat
    BY <1>0, <1>1 DEF ListenersTypeOK
  <2> QED
    BY <1>0, <1>1, <1>4, <1>5, <1>6, <2>1, <2>2, <2>3 DEF ListenersTypeOK
<1>9. OnePerWrapper'
  <2>1. \A w \in DOMAIN obituaries' : obituaries'[w] \in {NoType, TypeOf[w[1]]}
    BY <1>0, <1>6 DEF OnePerWrapper
  <2> QED
    BY <1>0, <1>1, <1>7, <2>1 DEF OnePerWrapper, RegistrationOf, ResolvedUser
<1>10. LastMade'
  <2>1. \A w \in gone' : w[2] <= made[w[1]]
    BY <1>0, <1>1 DEF LastMade
  <2>2. \A l \in DOMAIN InnerListenerWrapperMap' :
          InnerListenerWrapperMap'[l] = <<l, made[l]>> /\ InnerListenerWrapperMap'[l] \notin gone'
    <3> SUFFICES ASSUME NEW l \in DOMAIN InnerListenerWrapperMap'
                 PROVE  InnerListenerWrapperMap'[l] = <<l, made[l]>> /\ InnerListenerWrapperMap'[l] \notin gone'
      OBVIOUS
    <3>1. /\ InnerListenerWrapperMap'[l] = <<l, made[l]>> /\ <<l, made[l]>> \notin gone
      BY <1>0, <1>4 DEF LastMade
    <3>2. Owner[l] # p
      BY <1>4
    <3>3. <<l, made[l]>> \notin dying
      BY <1>3, <3>2
    <3> QED
      BY <1>1, <3>1, <3>3
  <2>3. \A q \in Procs : call'[q] # NoCall =>
          /\ call'[q].wrapper[1] \in DOMAIN InnerListenerWrapperMap'
          /\ InnerListenerWrapperMap'[call'[q].wrapper[1]] = call'[q].wrapper
    <3> SUFFICES ASSUME NEW q \in Procs, call'[q] # NoCall
                 PROVE  /\ call'[q].wrapper[1] \in DOMAIN InnerListenerWrapperMap'
                        /\ InnerListenerWrapperMap'[call'[q].wrapper[1]] = call'[q].wrapper
      OBVIOUS
    <3>1. q # p /\ call'[q] = call[q]
      BY <1>5
    <3>2. /\ Owner[call[q].wrapper[1]] = q
          /\ call[q].wrapper[1] \in DOMAIN InnerListenerWrapperMap
          /\ InnerListenerWrapperMap[call[q].wrapper[1]] = call[q].wrapper
      BY <3>1, CallFacts
    <3> QED
      BY <1>4, <3>1, <3>2
  <2> QED
    BY <1>0, <1>1, <2>1, <2>2, <2>3 DEF LastMade
<1>11. Watched'
  BY <1>0, <1>1 DEF Watched
<1>12. AgreeAlways'
  <2> SUFFICES ASSUME NEW x \in Listeners \ unsure', NEW v \in Wrappers \ gone', v[1] = x
               PROVE  RegistrationOf(v) \in innerListenMap
                        <=> x \in DOMAIN InnerListenerWrapperMap' /\ v = InnerListenerWrapperMap'[x]
                              /\ ~Registering(x)'
    BY <1>1 DEF AgreeAlways, RegistrationOf, ResolvedUser
  <2>1. CASE Owner[x] = p
    <3>1. v \in WrappersOf(p)
      BY <2>1 DEF WrappersOf
    <3>2. ~(v[2] <= made[v[1]])
      BY <1>1, <3>1
    <3>3. RegistrationOf(v) \notin innerListenMap
      BY <1>0, <3>2, RegistrationFacts DEF LastMade
    <3> QED
      BY <1>4, <2>1, <3>3
  <2>2. CASE Owner[x] # p
    <3>1. x \notin unsure /\ v \notin gone
      BY <1>1, <2>2 DEF Mine
    <3>2. Registering(x)' <=> Registering(x)
      BY <1>5, <2>2, ListenersAssumption DEF Registering
    <3> QED
      BY <1>0, <1>4, <2>2, <3>1, <3>2 DEF AgreeAlways
  <2> QED
    BY <2>1, <2>2
<1> QED
  BY <1>8, <1>9, <1>10, <1>11, <1>12 DEF ListenersInv

-----------------------------------------------------------------------------
(* The theorems.                                                           *)

LEMMA NextInv == ListenersInv /\ [ListenersNext]_listenerVars => ListenersInv'
<1> SUFFICES ASSUME ListenersInv, [ListenersNext]_listenerVars PROVE ListenersInv'
  OBVIOUS
<1>1. ASSUME NEW l \in Listeners, RegisterListenerInner(l) PROVE ListenersInv'
  BY <1>1, RegisterListenerInnerInv
<1>2. ASSUME NEW l \in Listeners, UnRegisterListenerInner(l) PROVE ListenersInv'
  BY <1>2, UnRegisterListenerInnerInv
<1>3. ASSUME NEW p \in Procs, CallFails(p) PROVE ListenersInv'
  BY <1>3, CallFailsInv
<1>4. ASSUME NEW p \in Procs, RegisterInnerListener(p) PROVE ListenersInv'
  BY <1>4, RegisterInnerListenerInv
<1>5. ASSUME NEW p \in Procs, UnRegisterInnerListener(p) PROVE ListenersInv'
  BY <1>5, UnRegisterInnerListenerInv
<1>6. ASSUME NEW p \in Procs, ProcessDies(p) PROVE ListenersInv'
  BY <1>6, ProcessDiesInv
<1>7. ASSUME NEW w \in Wrappers, OnRemoteDied(w) PROVE ListenersInv'
  BY <1>7, OnRemoteDiedInv
<1>8. ASSUME NEW w \in Wrappers, UnRegisterDead(w) PROVE ListenersInv'
  BY <1>8, UnRegisterDeadInv
<1>9. CASE UNCHANGED listenerVars
  BY <1>9 DEF listenerVars, clientVars, serviceVars, ListenersInv, ListenersTypeOK, OnePerWrapper,
     LastMade, Watched, AgreeAlways, RegistrationOf, ResolvedUser, Registering
<1> QED
  BY <1>1, <1>2, <1>3, <1>4, <1>5, <1>6, <1>7, <1>8, <1>9, ServiceRestartsInv DEF ListenersNext

LEMMA Invariance == ListenersSpec => []ListenersInv
<1> QED
  BY InitInv, NextInv, PTL DEF ListenersSpec

\* The maps of the library and the service keep their types, and a call is
\* about a wrapper of its own process.
THEOREM ListenersTyped == ListenersSpec => []ListenersTypeOK
<1>1. ListenersInv => ListenersTypeOK
  BY DEF ListenersInv
<1> QED
  BY <1>1, Invariance, PTL

\* RemoveDeathRecipient never leaves a registration without a recipient.
THEOREM AlwaysWatched == ListenersSpec => []Watched
<1>1. ListenersInv => Watched
  BY DEF ListenersInv
<1> QED
  BY <1>1, Invariance, PTL

\* The library and the service agree about every listener whose calls all got
\* through.
THEOREM MapsInAgreement == ListenersSpec => []MapsAgree
<1>1. ListenersInv => MapsAgree
  <2> SUFFICES ASSUME ListenersInv, NEW l \in Listeners, call[Owner[l]] = NoCall, l \notin unsure
               PROVE  {x \in innerListenMap : x.wrapper[1] = l /\ x.wrapper \notin gone} =
                        IF l \in DOMAIN InnerListenerWrapperMap
                        THEN {RegistrationOf(InnerListenerWrapperMap[l])} ELSE {}
    BY DEF MapsAgree
  <2> DEFINE live == {x \in innerListenMap : x.wrapper[1] = l /\ x.wrapper \notin gone}
  <2>0. /\ ListenersTypeOK /\ OnePerWrapper /\ LastMade /\ AgreeAlways
    BY DEF ListenersInv
  <2>1. ~Registering(l)
    BY DEF Registering
  <2>2. \A x \in innerListenMap : x.wrapper \in Wrappers /\ x = RegistrationOf(x.wrapper)
    BY <2>0 DEF ListenersTypeOK, Registrations, OnePerWrapper
  <2>3. \A x \in live :
          l \in DOMAIN InnerListenerWrapperMap /\ x.wrapper = InnerListenerWrapperMap[l]
    BY <2>0, <2>1, <2>2 DEF AgreeAlways
  <2>4. CASE l \in DOMAIN InnerListenerWrapperMap
    <3> DEFINE w == InnerListenerWrapperMap[l]
    <3>1. w \in Wrappers
      BY <2>0, <2>4, PartialFacts DEF ListenersTypeOK
    <3>2. w[1] = l /\ w \notin gone
      BY <2>0, <2>4, <3>1 DEF LastMade
    <3>3. RegistrationOf(w) \in innerListenMap
      BY <2>0, <2>1, <2>4, <3>1, <3>2 DEF AgreeAlways
    <3>4. RegistrationOf(w) \in live
      BY <3>1, <3>2, <3>3, RegistrationFacts
    <3>5. \A x \in live : x = RegistrationOf(w)
      BY <2>2, <2>3
    <3> QED
      BY <2>4, <3>4, <3>5
  <2>5. CASE l \notin DOMAIN InnerListenerWrapperMap
    BY <2>3, <2>5
  <2> QED
    BY <2>4, <2>5
<1> QED
  BY <1>1, Invariance, PTL

=============================================================================
