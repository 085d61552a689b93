-------------------------- MODULE DeviceLock_proofs --------------------------
(***************************************************************************)
(* What the listeners of device-lock changes know of each user, for any    *)
(* users, threads, processes and listeners.                                *)
(*                                                                         *)
(* The inductive invariant is DeviceInv.  Its centre is Corrected: a wrong *)
(* state a client has, or is about to be told, is followed by the right    *)
(* one.  FreshUntold says that a wrapper starts with nothing, and that no  *)
(* wrapper is registered twice.                                            *)
(***************************************************************************)
EXTENDS DeviceLock, InnerListeners_proofs, SequenceTheorems

-----------------------------------------------------------------------------
(* Notifications.                                                          *)

Notes == Users \X LockStates

\* A state is locked or unlocked, and never unknown.
LEMMA LockedFacts == \A x : Locked(x) \in LockStates /\ Locked(x) # "unknown"
BY DEF Locked, LockStates

\* What Append and Tail do to a sequence of notifications.
LEMMA NoteFacts ==
  ASSUME NEW q \in Seq(Notes)
  PROVE  /\ Len(q) \in Nat
         /\ \A i \in 1..Len(q) : q[i] \in Notes /\ q[i] = <<q[i][1], q[i][2]>>
         /\ \A n \in Notes :
              /\ Append(q, n) \in Seq(Notes) /\ Len(Append(q, n)) = Len(q) + 1
              /\ \A i \in 1..Len(q) : Append(q, n)[i] = q[i]
              /\ Append(q, n)[Len(q) + 1] = n
         /\ q # <<>> =>
              /\ Tail(q) \in Seq(Notes) /\ Len(q) > 0 /\ Len(Tail(q)) = Len(q) - 1
              /\ \A i \in 1..Len(q) - 1 : Tail(q)[i] = q[i + 1]
              /\ Head(q) = q[1]
<1>1. \A i \in 1..Len(q) : q[i] \in Notes
  OBVIOUS
<1>2. \A n \in Notes : n = <<n[1], n[2]>>
  BY DEF Notes
<1>3. \A n \in Notes :
        /\ Append(q, n) \in Seq(Notes) /\ Len(Append(q, n)) = Len(q) + 1
        /\ \A i \in 1..Len(q) : Append(q, n)[i] = q[i]
        /\ Append(q, n)[Len(q) + 1] = n
  OBVIOUS
<1>4. ASSUME q # <<>>
      PROVE  /\ Tail(q) \in Seq(Notes) /\ Len(q) > 0 /\ Len(Tail(q)) = Len(q) - 1
             /\ \A i \in 1..Len(q) - 1 : Tail(q)[i] = q[i + 1]
             /\ Head(q) = q[1]
  BY <1>4
<1> QED
  BY <1>1, <1>2, <1>3, <1>4

\* A notification of u brings every client to the state it tells.
LEMMA AppendEnds ==
  ASSUME NEW q \in Seq(Notes), NEW u \in Users, NEW c \in LockStates, NEW v
  PROVE  EndsAt(Append(q, <<u, c>>), v, u, c)
<1>1. <<u, c>> \in Notes
  BY DEF Notes
<1> DEFINE r == Append(q, <<u, c>>)
<1>2. /\ Len(r) = Len(q) + 1 /\ r[Len(q) + 1] = <<u, c>> /\ Len(q) \in Nat
  BY <1>1, NoteFacts
<1> HIDE DEF r
<1>3. \A i \in 1..Len(q) : \E k \in i + 1..Len(r) : r[k] = <<u, c>>
  BY <1>2
<1>4. \A i \in 1..Len(r) : r[i][1] = u /\ r[i][2] # c => i \in 1..Len(q)
  BY <1>2
<1>5. EndsAt(r, v, u, c)
  BY <1>2, <1>3, <1>4 DEF EndsAt
<1> QED
  BY <1>5 DEF r

\* A notification of another user changes nothing for u.
LEMMA AppendOther ==
  ASSUME NEW q \in Seq(Notes), NEW u \in Users, NEW c, NEW v, NEW n \in Notes, n[1] # u
  PROVE  /\ EndsAt(q, v, u, c) => EndsAt(Append(q, n), v, u, c)
         /\ Silent(q, v, u) => Silent(Append(q, n), v, u)
<1> DEFINE r == Append(q, n)
<1>1. /\ Len(r) = Len(q) + 1 /\ r[Len(q) + 1] = n /\ Len(q) \in Nat
      /\ \A i \in 1..Len(q) : r[i] = q[i]
  BY NoteFacts
<1> HIDE DEF r
<1>2. ASSUME EndsAt(q, v, u, c) PROVE EndsAt(r, v, u, c)
  <2>1. ASSUME NEW i \in 1..Len(r), r[i][1] = u, r[i][2] # c
        PROVE  \E k \in i + 1..Len(r) : r[k] = <<u, c>>
    <3>1. i \in 1..Len(q) /\ r[i] = q[i]
      BY <1>1, <2>1
    <3>2. PICK k \in i + 1..Len(q) : q[k] = <<u, c>>
      BY <1>2, <2>1, <3>1 DEF EndsAt
    <3>3. k \in i + 1..Len(r) /\ r[k] = <<u, c>>
      BY <1>1, <3>1, <3>2
    <3> QED
      BY <3>3
  <2>2. ASSUME v \notin {"unknown", c} PROVE \E k \in 1..Len(r) : r[k] = <<u, c>>
    <3>1. PICK k \in 1..Len(q) : q[k] = <<u, c>>
      BY <1>2, <2>2 DEF EndsAt
    <3>2. k \in 1..Len(r) /\ r[k] = <<u, c>>
      BY <1>1, <3>1
    <3> QED
      BY <3>2
  <2> QED
    BY <2>1, <2>2 DEF EndsAt
<1>3. ASSUME Silent(q, v, u) PROVE Silent(r, v, u)
  BY <1>1, <1>3 DEF Silent
<1> QED
  BY <1>2, <1>3 DEF r

\* A client takes the first of its notifications.
LEMMA TakeFirst ==
  ASSUME NEW q \in Seq(Notes), q # <<>>, NEW u \in Users, NEW c, NEW v
  PROVE  LET x == IF Head(q)[1] = u THEN Head(q)[2] ELSE v IN
         /\ EndsAt(q, v, u, c) => EndsAt(Tail(q), x, u, c)
         /\ Silent(q, v, u) => Silent(Tail(q), x, u)
<1> DEFINE r == Tail(q)
           x == IF Head(q)[1] = u THEN Head(q)[2] ELSE v
<1>1. /\ Len(q) \in Nat /\ Len(q) > 0 /\ Len(r) = Len(q) - 1
      /\ \A i \in 1..Len(q) - 1 : r[i] = q[i + 1]
      /\ Head(q) = q[1]
  BY NoteFacts
<1>2. x = IF q[1][1] = u THEN q[1][2] ELSE v
  BY <1>1
<1> HIDE DEF r, x
<1>3. ASSUME NEW k \in 2..Len(q), q[k] = <<u, c>>
      PROVE  k - 1 \in 1..Len(r) /\ r[k - 1] = <<u, c>>
  BY <1>1, <1>3
<1>4. ASSUME EndsAt(q, v, u, c) PROVE EndsAt(r, x, u, c)
  <2>1. ASSUME NEW i \in 1..Len(r), r[i][1] = u, r[i][2] # c
        PROVE  \E k \in i + 1..Len(r) : r[k] = <<u, c>>
    <3>1. i + 1 \in 1..Len(q) /\ q[i + 1] = r[i]
      BY <1>1
    <3>2. PICK k \in (i + 1) + 1..Len(q) : q[k] = <<u, c>>
      BY <1>4, <2>1, <3>1 DEF EndsAt
    <3>3. k - 1 \in i + 1..Len(r) /\ r[k - 1] = <<u, c>>
      BY <1>1, <1>3, <3>2
    <3> QED
      BY <3>3
  <2>2. ASSUME x \notin {"unknown", c} PROVE \E k \in 1..Len(r) : r[k] = <<u, c>>
    <3>1. \E k \in 2..Len(q) : q[k] = <<u, c>>
      <4>1. CASE q[1][1] = u
        <5>1. 1 \in 1..Len(q) /\ q[1][2] # c
          BY <1>1, <1>2, <2>2, <4>1
        <5>2. \E k \in 1 + 1..Len(q) : q[k] = <<u, c>>
          BY <1>4, <4>1, <5>1 DEF EndsAt
        <5> QED
          BY <5>2
      <4>2. CASE q[1][1] # u
        <5>1. PICK k \in 1..Len(q) : q[k] = <<u, c>>
          BY <1>2, <1>4, <2>2, <4>2 DEF EndsAt
        <5>2. k # 1
          BY <4>2, <5>1
        <5> QED
          BY <1>1, <5>1, <5>2
      <4> QED
        BY <4>1, <4>2
    <3> QED
      BY <1>3, <3>1
  <2> QED
    BY <2>1, <2>2 DEF EndsAt
<1>5. ASSUME Silent(q, v, u) PROVE Silent(r, x, u)
  <2>1. x = "unknown"
    BY <1>1, <1>2, <1>5 DEF Silent
  <2> QED
    BY <1>1, <1>5, <2>1 DEF Silent
<1> QED
  BY <1>4, <1>5 DEF r, x

\* A user that appears finds clients that know nothing of it.
LEMMA SilentEnds ==
  ASSUME NEW q, NEW u, NEW c, NEW v, Silent(q, v, u)
  PROVE  EndsAt(q, v, u, c)
BY DEF Silent, EndsAt

\* A client that reads the current state has it.
LEMMA ReadEnds ==
  ASSUME NEW q, NEW u, NEW c, NEW v, EndsAt(q, v, u, c)
  PROVE  EndsAt(q, c, u, c)
BY DEF EndsAt

\* The alternation of the notifications in one queue.
Alternates(q, R) ==
  \A i, j \in 1..Len(q) :
    i < j /\ q[i] = q[j] /\ q[i][1] \notin R
      => \E k \in i + 1..j - 1 : q[k][1] = q[i][1] /\ q[k][2] # q[i][2]

\* Alternate, queue by queue.
LEMMA AlternateForm == Alternate <=> \A w \in Wrappers : Alternates(inbox[w], removed)
BY DEF Alternate, Alternates

\* A change after the right state leaves the queue alternating.
LEMMA AlternatesAppend ==
  ASSUME NEW q \in Seq(Notes), NEW R, NEW u \in Users, NEW c, NEW d \in LockStates, NEW v,
         c # d, Alternates(q, R), u \in R \/ EndsAt(q, v, u, c)
  PROVE  Alternates(Append(q, <<u, d>>), R)
<1>1. <<u, d>> \in Notes
  BY DEF Notes
<1> DEFINE r == Append(q, <<u, d>>)
<1>2. /\ Len(r) = Len(q) + 1 /\ r[Len(q) + 1] = <<u, d>> /\ Len(q) \in Nat
      /\ \A i \in 1..Len(q) : r[i] = q[i]
  BY <1>1, NoteFacts
<1> HIDE DEF r
<1>3. ASSUME NEW i \in 1..Len(r), NEW j \in 1..Len(r), i < j, r[i] = r[j], r[i][1] \notin R
      PROVE  \E k \in i + 1..j - 1 : r[k][1] = r[i][1] /\ r[k][2] # r[i][2]
  <2>1. i \in 1..Len(q) /\ r[i] = q[i] /\ i \in Int /\ j \in Int
    BY <1>2, <1>3
  <2>2. CASE j \in 1..Len(q)
    <3>1. PICK k \in i + 1..j - 1 : q[k][1] = q[i][1] /\ q[k][2] # q[i][2]
      BY <1>2, <1>3, <2>1, <2>2 DEF Alternates
    <3>2. r[k] = q[k]
      BY <1>2, <2>1, <2>2, <3>1
    <3> QED
      BY <2>1, <3>1, <3>2
  <2>3. CASE j = Len(q) + 1
    <3>1. q[i] = <<u, d>>
      BY <1>2, <1>3, <2>1, <2>3
    <3>4. q[i][1] = u /\ q[i][2] = d /\ q[i][1] \notin R
      BY <1>3, <2>1, <3>1
    <3>2. PICK k \in i + 1..Len(q) : q[k] = <<u, c>>
      BY <2>1, <3>4 DEF EndsAt
    <3>3. k \in i + 1..j - 1 /\ r[k] = q[k]
      BY <1>2, <2>1, <2>3, <3>2
    <3> QED
      BY <2>1, <3>2, <3>3, <3>4
  <2> QED
    BY <1>2, <2>2, <2>3
<1>4. Alternates(r, R)
  BY <1>3 DEF Alternates
<1> QED
  BY <1>4 DEF r

\* A queue that alternates does so without its first notification.
LEMMA AlternatesTail ==
  ASSUME NEW q \in Seq(Notes), q # <<>>, NEW R, Alternates(q, R)
  PROVE  Alternates(Tail(q), R)
<1> DEFINE r == Tail(q)
<1>1. /\ Len(q) \in Nat /\ Len(q) > 0 /\ Len(r) = Len(q) - 1
      /\ \A i \in 1..Len(q) - 1 : r[i] = q[i + 1]
  BY NoteFacts
<1> HIDE DEF r
<1>2. ASSUME NEW i \in 1..Len(r), NEW j \in 1..Len(r), i < j, r[i] = r[j], r[i][1] \notin R
      PROVE  \E k \in i + 1..j - 1 : r[k][1] = r[i][1] /\ r[k][2] # r[i][2]
  <2>1. /\ i + 1 \in 1..Len(q) /\ j + 1 \in 1..Len(q) /\ i + 1 < j + 1
        /\ q[i + 1] = r[i] /\ q[j + 1] = r[j]
    BY <1>1, <1>2
  <2>2. PICK k \in (i + 1) + 1..(j + 1) - 1 : q[k][1] = r[i][1] /\ q[k][2] # r[i][2]
    <3>1. q[i + 1] = q[j + 1] /\ q[i + 1][1] \notin R
      BY <1>2, <2>1
    <3>2. \E k \in (i + 1) + 1..(j + 1) - 1 : q[k][1] = q[i + 1][1] /\ q[k][2] # q[i + 1][2]
      BY <2>1, <3>1 DEF Alternates
    <3>3. q[i + 1] = r[i]
      BY <2>1
    <3> QED
      BY <3>2, <3>3
  <2>3. k - 1 \in i + 1..j - 1 /\ r[k - 1] = q[k]
    BY <1>1, <2>1, <2>2
  <2>4. r[k - 1][1] = r[i][1] /\ r[k - 1][2] # r[i][2]
    BY <2>2, <2>3, Zenon
  <2> QED
    BY <2>3, <2>4, Zenon
<1>3. Alternates(r, R)
  BY <1>2 DEF Alternates
<1> QED
  BY <1>3 DEF r

-----------------------------------------------------------------------------
(* The state.                                                              *)

\* What the proofs below need of the types.
LEMMA DeviceFacts ==
  ASSUME DeviceTypeOK
  PROVE  /\ ListenersTypeOK
         /\ authStateInfo \in Partial(Users, AuthStates) /\ DOMAIN authStateInfo \subseteq Users
         /\ \A t \in Setters : setter[t].on =>
              setter[t].user \in Users /\ setter[t].authState \in AuthStates /\ setter[t].on = TRUE
         /\ \A w \in Wrappers : inbox[w] \in Seq(Notes)
         /\ inbox \in [Wrappers -> Seq(Notes)]
         /\ view \in [Wrappers -> [Users -> {"unknown"} \cup LockStates]]
         /\ removed \subseteq Users /\ sets \in Nat
<1>1. DOMAIN authStateInfo \subseteq Users
  BY PartialFacts DEF DeviceTypeOK
<1>2. ASSUME NEW t \in Setters, setter[t].on
      PROVE  setter[t].user \in Users /\ setter[t].authState \in AuthStates /\ setter[t].on = TRUE
  <2>1. setter[t] \in Setting \cup {Idle}
    BY DEF DeviceTypeOK
  <2>2. Idle.on = FALSE
    BY DEF Idle
  <2>3. setter[t] \in Setting
    BY <1>2, <2>1, <2>2
  <2> QED
    BY <2>3 DEF Setting
<1>3. inbox \in [Wrappers -> Seq(Notes)]
  BY DEF DeviceTypeOK, Notes
<1> QED
  BY <1>1, <1>2, <1>3 DEF DeviceTypeOK

\* The current state of a user nobody is setting the state of is the one stored,
\* before a step and after it.
LEMMA CurrentStored ==
  ASSUME NEW u
  PROVE  /\ (\A t \in Setters : setter[t].on => setter[t].user # u)
              => Current(u) = Locked(authStateInfo[u])
         /\ (\A t \in Setters : setter'[t].on => setter'[t].user # u)
              => Current(u)' = Locked(authStateInfo'[u])
<1>1. ASSUME \A t \in Setters : setter[t].on => setter[t].user # u
      PROVE  Current(u) = Locked(authStateInfo[u])
  <2>1. {t \in Setters : setter[t].on /\ setter[t].user = u} = {}
    BY <1>1
  <2> QED
    BY <2>1 DEF Current
<1>2. ASSUME \A t \in Setters : setter'[t].on => setter'[t].user # u
      PROVE  Current(u)' = Locked(authStateInfo'[u])
  <2>1. {t \in Setters : setter'[t].on /\ setter'[t].user = u} = {}
    BY <1>2
  <2> QED
    BY <2>1 DEF Current, Locked
<1> QED
  BY <1>1, <1>2

\* While nobody holds the mutex, every current state is the one stored.
LEMMA CurrentFree ==
  /\ MutexFree => \A u : Current(u) = Locked(authStateInfo[u])
  /\ MutexFree' => \A u : Current(u)' = Locked(authStateInfo'[u])
BY CurrentStored DEF MutexFree

\* The choice from one.
LEMMA ChooseOne == \A t : (CHOOSE r \in {t} : TRUE) = t
OBVIOUS

\* While a thread sets a state, that is the current one.
LEMMA CurrentSet ==
  ASSUME NEW t \in Setters, NEW u
  PROVE  /\ setter[t].on /\ setter[t].user = u /\ (\A r \in Setters : setter[r].on => r = t)
              => Current(u) = Locked(setter[t].authState)
         /\ setter'[t].on /\ setter'[t].user = u /\ (\A r \in Setters : setter'[r].on => r = t)
              => Current(u)' = Locked(setter'[t].authState)
<1>1. ASSUME setter[t].on, setter[t].user = u, \A r \in Setters : setter[r].on => r = t
      PROVE  Current(u) = Locked(setter[t].authState)
  <2>1. {r \in Setters : setter[r].on /\ setter[r].user = u} = {t}
    BY <1>1
  <2> QED
    BY <2>1, ChooseOne DEF Current
<1>2. ASSUME setter'[t].on, setter'[t].user = u, \A r \in Setters : setter'[r].on => r = t
      PROVE  Current(u)' = Locked(setter'[t].authState)
  <2>1. {r \in Setters : setter'[r].on /\ setter'[r].user = u} = {t}
    BY <1>2
  <2> QED
    BY <2>1, ChooseOne DEF Current, Locked
<1> QED
  BY <1>1, <1>2

\* The audience of a change are the wrappers told of it.
LEMMA AudienceTold ==
  ASSUME OnePerWrapper, ListenersTypeOK, NEW w \in Wrappers, NEW u
  PROVE  w \in Audience("DEVICE_LOCK", u) <=> Told(w, u)
<1>1. /\ RegistrationOf(w).wrapper = w /\ RegistrationOf(w).type = TypeOf[w[1]]
      /\ RegistrationOf(w).user = ResolvedUser(w)
  BY RegistrationFacts
<1>2. \A x \in innerListenMap : x.wrapper = w => x = RegistrationOf(w)
  BY DEF OnePerWrapper
<1> QED
  BY <1>1, <1>2 DEF Audience, Told

\* A step that leaves the listeners alone.
LEMMA SameListeners ==
  ASSUME UNCHANGED listenerVars
  PROVE  /\ \A w : Fresh(w)' <=> Fresh(w)
         /\ \A w, u : Told(w, u)' <=> Told(w, u)
         /\ innerListenMap' = innerListenMap
BY DEF listenerVars, clientVars, serviceVars, Fresh, Told

\* A step that tells fresh wrappers nothing.
LEMMA FreshKept ==
  ASSUME UNCHANGED listenerVars, FreshUntold,
         \A w \in Wrappers : Fresh(w) => inbox'[w] = inbox[w] /\ view'[w] = view[w]
  PROVE  FreshUntold'
BY SameListeners DEF FreshUntold

\* A step that concerns neither a client nor the user.
LEMMA CorrectedKept ==
  ASSUME NEW w, NEW u, Corrected(w, u), inbox'[w] = inbox[w], view'[w][u] = view[w][u],
         u \in DOMAIN authStateInfo' <=> u \in DOMAIN authStateInfo,
         u \in DOMAIN authStateInfo => Current(u)' = Current(u)
  PROVE  Corrected(w, u)'
BY DEF Corrected

\* A fresh wrapper is not among those told, nor among those that follow.
LEMMA FreshApart ==
  ASSUME DeviceTypeOK, LastMade, FreshUntold, NEW w \in Wrappers, Fresh(w)
  PROVE  ~Follows(w) /\ \A u : ~Told(w, u)
<1>1. \A u : ~Told(w, u)
  BY RegistrationFacts DEF FreshUntold, Told
<1>2. ASSUME Follows(w) PROVE FALSE
  <2>1. w = <<w[1], made[w[1]]>> /\ call[Owner[w[1]]] = NoCall
    BY <1>2 DEF Follows, LastMade
  <2>2. made[w[1]] \in Nat
    BY ListenerBounds, WrapperFacts DEF DeviceTypeOK, ListenersTypeOK
  <2>3. w[2] = made[w[1]]
    BY <2>1
  <2> QED
    BY <2>1, <2>2, <2>3 DEF Fresh
<1> QED
  BY <1>1, <1>2

-----------------------------------------------------------------------------
(* The steps of the service and its clients.                               *)

StateInv == OneSetter /\ FreshUntold /\ AllCorrected /\ Alternate

\* AuthStateInit, and SetScreenLockAuthState of an absent user.
LEMMA Inserted ==
  ASSUME DeviceInv, NEW x \in Users, NEW a \in AuthStates,
         MutexFree, x \notin DOMAIN authStateInfo, sets' = sets + 1,
         authStateInfo' = With(authStateInfo, x, a),
         UNCHANGED <<setter, inbox, view, removed, listenerVars>>
  PROVE  DeviceTypeOK' /\ StateInv'
<1>1. DOMAIN authStateInfo' = DOMAIN authStateInfo \cup {x}
      /\ \A u \in DOMAIN authStateInfo : authStateInfo'[u] = authStateInfo[u]
  BY DEF With
<1>2. DeviceTypeOK'
  <2>1. authStateInfo' \in Partial(Users, AuthStates) /\ sets' \in Nat
    BY DeviceFacts, WithFacts DEF DeviceInv
  <2>2. ListenersTypeOK'
    BY DeviceFacts DEF DeviceInv, ListenersTypeOK, listenerVars, clientVars, serviceVars
  <2> QED
    BY <2>1, <2>2 DEF DeviceInv, DeviceTypeOK
<1>3. OneSetter'
  BY DEF OneSetter, MutexFree
<1>4. FreshUntold' /\ Alternate'
  BY FreshKept DEF DeviceInv, Alternate
<1>5. AllCorrected'
  <2> SUFFICES ASSUME NEW w \in Wrappers, NEW u \in Users \ removed, Told(w, u)
               PROVE  Corrected(w, u)'
    BY SameListeners DEF AllCorrected
  <2>1. Corrected(w, u)
    BY DEF DeviceInv, AllCorrected
  <2>2. Current(u) = Locked(authStateInfo[u]) /\ Current(u)' = Locked(authStateInfo'[u])
    <3>1. MutexFree'
      BY DEF MutexFree
    <3> QED
      BY <3>1, CurrentFree
  <2>3. CASE u = x
    BY <1>1, <2>1, <2>3, SilentEnds DEF Corrected
  <2>4. CASE u # x
    BY <1>1, <2>1, <2>2, <2>4, CorrectedKept
  <2> QED
    BY <2>3, <2>4
<1> QED
  BY <1>2, <1>3, <1>4, <1>5 DEF StateInv

\* A removed user is no longer followed.
LEMMA OnRemoveUserInv ==
  ASSUME DeviceInv, NEW x \in Users, OnRemoveUser(x)
  PROVE  DeviceTypeOK' /\ StateInv'
<1>0. /\ MutexFree /\ authStateInfo' = Without(authStateInfo, {x}) /\ removed' = removed \cup {x}
      /\ sets' = sets + 1
      /\ UNCHANGED <<setter, inbox, view, listenerVars>>
  BY DEF OnRemoveUser
<1>1. DOMAIN authStateInfo' = DOMAIN authStateInfo \ {x}
      /\ \A u \in DOMAIN authStateInfo' : authStateInfo'[u] = authStateInfo[u]
  BY <1>0 DEF Without
<1>2. DeviceTypeOK'
  <2>1. authStateInfo' \in Partial(Users, AuthStates) /\ sets' \in Nat
    <3>1. authStateInfo \in Partial(Users, AuthStates) /\ sets \in Nat
      BY DeviceFacts DEF DeviceInv
    <3>2. Without(authStateInfo, {x}) \in Partial(Users, AuthStates)
      BY <3>1, WithoutFacts
    <3> QED
      BY <1>0, <3>1, <3>2
  <2>2. ListenersTypeOK'
    BY <1>0, DeviceFacts DEF DeviceInv, ListenersTypeOK, listenerVars, clientVars, serviceVars
  <2> QED
    BY <1>0, <2>1, <2>2 DEF DeviceInv, DeviceTypeOK
<1>3. OneSetter'
  BY <1>0 DEF OneSetter, MutexFree
<1>4. FreshUntold'
  BY <1>0, FreshKept DEF DeviceInv
<1>5. Alternate'
  <2>1. \A w \in Wrappers : Alternates(inbox[w], removed)
    BY AlternateForm DEF DeviceInv
  <2>2. \A q : Alternates(q, removed) => Alternates(q, removed')
    BY <1>0 DEF Alternates
  <2>3. \A w \in Wrappers : Alternates(inbox'[w], removed')
    BY <1>0, <2>1, <2>2
  <2> QED
    BY <2>3 DEF Alternate, Alternates
<1>6. AllCorrected'
  <2> SUFFICES ASSUME NEW w \in Wrappers, NEW u \in Users \ removed', Told(w, u)
               PROVE  Corrected(w, u)'
    BY <1>0, SameListeners DEF AllCorrected
  <2>1. Corrected(w, u) /\ u # x
    BY <1>0 DEF DeviceInv, AllCorrected
  <2>2. Current(u) = Locked(authStateInfo[u]) /\ Current(u)' = Locked(authStateInfo'[u])
    <3>1. MutexFree'
      BY <1>0 DEF MutexFree
    <3> QED
      BY <1>0, <3>1, CurrentFree
  <2> QED
    BY <1>0, <1>1, <2>1, <2>2, CorrectedKept
<1> QED
  BY <1>2, <1>3, <1>4, <1>5, <1>6 DEF StateInv

\* The listeners are told of a change, and what they are told is current from then on.
LEMMA SetScreenLockAuthStateInv ==
  ASSUME DeviceInv, NEW t \in Setters, NEW x \in Users, NEW a \in AuthStates,
         SetScreenLockAuthState(t, x, a)
  PROVE  DeviceTypeOK' /\ StateInv'
<1> DEFINE n == <<x, Locked(a)>>
           told(w) == Changes(x, a) /\ Told(w, x)
<1>0. /\ MutexFree /\ x \in DOMAIN authStateInfo /\ sets' = sets + 1
      /\ setter' = [setter EXCEPT ![t] = [on |-> TRUE, user |-> x, authState |-> a]]
      /\ UNCHANGED <<authStateInfo, view, removed, listenerVars>>
  BY DEF SetScreenLockAuthState
<1>1. /\ inbox' \in [Wrappers -> Seq(Notes)] /\ n \in Notes
      /\ \A w \in Wrappers : inbox'[w] = IF told(w) THEN Append(inbox[w], n) ELSE inbox[w]
  <2>1. inbox' = [w \in Wrappers |-> IF told(w) THEN Append(inbox[w], n) ELSE inbox[w]]
    BY AudienceTold DEF SetScreenLockAuthState, DeviceInv, ListenersInv
  <2>2. n \in Notes
    BY LockedFacts DEF Notes
  <2>3. \A w \in Wrappers : inbox[w] \in Seq(Notes) /\ Append(inbox[w], n) \in Seq(Notes)
    BY <2>2, DeviceFacts DEF DeviceInv
  <2> HIDE DEF n, told
  <2> QED
    BY <2>1, <2>2, <2>3
<1> HIDE DEF told
<1>2. setter \in [Setters -> Setting \cup {Idle}]
  BY DEF DeviceInv, DeviceTypeOK
<1>3. /\ setter'[t].on /\ setter'[t].user = x /\ setter'[t].authState = a
      /\ \A r \in Setters : setter'[r].on => r = t
  BY <1>0, <1>2 DEF MutexFree
<1>4. DeviceTypeOK'
  <2>1. setter' \in [Setters -> Setting \cup {Idle}]
    BY <1>0, <1>2 DEF Setting
  <2>2. ListenersTypeOK' /\ sets' \in Nat
    BY <1>0, DeviceFacts DEF DeviceInv, ListenersTypeOK, listenerVars, clientVars, serviceVars
  <2> QED
    BY <1>0, <1>1, <2>1, <2>2 DEF DeviceInv, DeviceTypeOK, Notes
<1>5. OneSetter'
  BY <1>0, <1>3 DEF OneSetter
<1>6. FreshUntold'
  <2>1. \A w \in Wrappers : Fresh(w) => ~told(w)
    BY FreshApart DEF DeviceInv, ListenersInv, told
  <2> QED
    BY <1>0, <1>1, <2>1, FreshKept DEF DeviceInv
<1>7. /\ \A u : Current(u) = Locked(authStateInfo[u])
      /\ Current(x)' = Locked(a)
      /\ \A u : u # x => Current(u)' = Locked(authStateInfo'[u])
  <2>1. Current(x)' = Locked(a)
    BY <1>3, CurrentSet
  <2>2. \A u : u # x => \A r \in Setters : setter'[r].on => setter'[r].user # u
    BY <1>3
  <2>3. \A u : u # x => Current(u)' = Locked(authStateInfo'[u])
    BY <2>2, CurrentStored
  <2> QED
    BY <1>0, <2>1, <2>3, CurrentFree
<1>8. AllCorrected'
  <2> SUFFICES ASSUME NEW w \in Wrappers, NEW u \in Users \ removed, Told(w, u)
               PROVE  Corrected(w, u)'
    BY <1>0, SameListeners DEF AllCorrected
  <2>1. Corrected(w, u) /\ inbox[w] \in Seq(Notes)
    BY DeviceFacts DEF DeviceInv, AllCorrected
  <2>2. CASE u = x /\ Changes(x, a)
    <3>1. inbox'[w] = Append(inbox[w], n)
      BY <1>1, <2>2 DEF told
    <3>2. EndsAt(Append(inbox[w], n), view[w][u], u, Locked(a))
      BY <2>1, <2>2, AppendEnds, LockedFacts
    <3> QED
      BY <1>0, <1>7, <2>2, <3>1, <3>2 DEF Corrected
  <2>3. CASE u = x /\ ~Changes(x, a)
    <3>1. Locked(a) = Locked(authStateInfo[u]) /\ inbox'[w] = inbox[w]
      BY <1>1, <2>3 DEF Changes, told
    <3> QED
      BY <1>0, <1>7, <2>1, <2>3, <3>1, CorrectedKept
  <2>4. CASE u # x
    <3>1. CASE told(w)
      <4>1. inbox'[w] = Append(inbox[w], n) /\ n \in Notes /\ n[1] # u
        BY <1>1, <2>4, <3>1
      <4>2. Current(u)' = Current(u)
        BY <1>0, <1>7, <2>4
      <4> HIDE DEF n
      <4> QED
        BY <1>0, <2>1, <4>1, <4>2, AppendOther DEF Corrected
    <3>2. CASE ~told(w)
      BY <1>0, <1>1, <1>7, <2>1, <2>4, <3>2, CorrectedKept
    <3> QED
      BY <3>1, <3>2
  <2> QED
    BY <2>2, <2>3, <2>4
<1>9. Alternate'
  <2> SUFFICES ASSUME NEW w \in Wrappers PROVE Alternates(inbox'[w], removed)
    BY <1>0, AlternateForm DEF Alternate, Alternates
  <2>1. Alternates(inbox[w], removed) /\ inbox[w] \in Seq(Notes)
    BY AlternateForm, DeviceFacts DEF DeviceInv
  <2>2. CASE told(w)
    <3>1. Locked(authStateInfo[x]) # Locked(a) /\ Told(w, x)
      BY <2>2 DEF told, Changes
    <3>2. x \in removed \/ EndsAt(inbox[w], view[w][x], x, Locked(authStateInfo[x]))
      BY <1>0, <1>7, <3>1 DEF DeviceInv, AllCorrected, Corrected
    <3>3. Alternates(Append(inbox[w], n), removed)
      BY <2>1, <3>1, <3>2, AlternatesAppend, LockedFacts
    <3> QED
      BY <1>1, <2>2, <3>3
  <2>3. CASE ~told(w)
    BY <1>1, <2>1, <2>3
  <2> QED
    BY <2>2, <2>3
<1> QED
  BY <1>4, <1>5, <1>6, <1>8, <1>9 DEF StateInv

\* Storing the state that was told changes no current state.
LEMMA StoreInv ==
  ASSUME DeviceInv, NEW t \in Setters, Store(t)
  PROVE  DeviceTypeOK' /\ StateInv'
<1> DEFINE x == setter[t].user
           a == setter[t].authState
<1>0. /\ setter[t].on /\ authStateInfo' = With(authStateInfo, x, a)
      /\ setter' = [setter EXCEPT ![t] = Idle]
      /\ UNCHANGED <<inbox, view, removed, sets, listenerVars>>
  BY DEF Store
<1>1. x \in Users /\ a \in AuthStates /\ x \in DOMAIN authStateInfo
      /\ \A r \in Setters : setter[r].on => r = t
  BY <1>0, DeviceFacts DEF DeviceInv, OneSetter
<1>2. setter \in [Setters -> Setting \cup {Idle}]
  BY DEF DeviceInv, DeviceTypeOK
<1>3. /\ DOMAIN authStateInfo' = DOMAIN authStateInfo /\ authStateInfo'[x] = a
      /\ \A u \in DOMAIN authStateInfo : u # x => authStateInfo'[u] = authStateInfo[u]
  BY <1>0, <1>1 DEF With
<1>4. MutexFree'
  BY <1>0, <1>1, <1>2 DEF MutexFree, Idle
<1>5. DeviceTypeOK'
  <2>1. authStateInfo' \in Partial(Users, AuthStates)
    BY <1>0, <1>1, DeviceFacts, WithFacts DEF DeviceInv
  <2>2. setter' \in [Setters -> Setting \cup {Idle}]
    BY <1>0, <1>2
  <2>3. ListenersTypeOK'
    BY <1>0, DeviceFacts DEF DeviceInv, ListenersTypeOK, listenerVars, clientVars, serviceVars
  <2> QED
    BY <1>0, <2>1, <2>2, <2>3 DEF DeviceInv, DeviceTypeOK
<1>6. OneSetter'
  BY <1>4 DEF OneSetter, MutexFree
<1>7. FreshUntold' /\ Alternate'
  BY <1>0, FreshKept DEF DeviceInv, Alternate
<1>8. Current(x) = Locked(a)
  BY <1>0, <1>1, CurrentSet
<1> HIDE DEF x, a
<1>9. AllCorrected'
  <2> SUFFICES ASSUME NEW w \in Wrappers, NEW u \in Users \ removed, Told(w, u)
               PROVE  Corrected(w, u)'
    BY <1>0, SameListeners DEF AllCorrected
  <2>1. Corrected(w, u)
    BY DEF DeviceInv, AllCorrected
  <2>2. Current(u)' = Locked(authStateInfo'[u])
    BY <1>4, CurrentFree
  <2>3. u # x => Current(u) = Locked(authStateInfo[u])
    BY <1>1, CurrentStored DEF x
  <2>4. u \in DOMAIN authStateInfo => Current(u)' = Current(u)
    BY <1>3, <1>8, <2>2, <2>3
  <2> QED
    BY <1>0, <1>3, <2>1, <2>4, CorrectedKept
<1> QED
  BY <1>5, <1>6, <1>7, <1>9 DEF StateInv

\* A client reads the stored state, which is current while the mutex is free.
LEMMA IsDeviceLockedInv ==
  ASSUME DeviceInv, NEW y \in Wrappers, NEW x \in Users, IsDeviceLocked(y, x)
  PROVE  DeviceTypeOK' /\ StateInv'
<1>0. /\ MutexFree /\ Follows(y) /\ x \in DOMAIN authStateInfo
      /\ view' = [view EXCEPT ![y][x] = Locked(authStateInfo[x])]
      /\ UNCHANGED <<authStateInfo, setter, inbox, removed, sets, listenerVars>>
  BY DEF IsDeviceLocked
<1>1. view \in [Wrappers -> [Users -> {"unknown"} \cup LockStates]]
  BY DeviceFacts DEF DeviceInv
<1>2. /\ view' \in [Wrappers -> [Users -> {"unknown"} \cup LockStates]]
      /\ \A w \in Wrappers : w # y => view'[w] = view[w]
      /\ \A u \in Users : view'[y][u] = IF u = x THEN Locked(authStateInfo[x]) ELSE view[y][u]
  BY <1>0, <1>1, LockedFacts
<1>3. DeviceTypeOK'
  <2>1. ListenersTypeOK'
    BY <1>0, DeviceFacts DEF DeviceInv, ListenersTypeOK, listenerVars, clientVars, serviceVars
  <2> QED
    BY <1>0, <1>2, <2>1 DEF DeviceInv, DeviceTypeOK
<1>4. OneSetter' /\ Alternate'
  BY <1>0 DEF DeviceInv, OneSetter, Alternate
<1>5. FreshUntold'
  <2>1. ~Fresh(y)
    BY <1>0, FreshApart DEF DeviceInv, ListenersInv
  <2> QED
    BY <1>0, <1>2, <2>1, FreshKept DEF DeviceInv
<1>6. AllCorrected'
  <2> SUFFICES ASSUME NEW w \in Wrappers, NEW u \in Users \ removed, Told(w, u)
               PROVE  Corrected(w, u)'
    BY <1>0, SameListeners DEF AllCorrected
  <2>1. Corrected(w, u)
    BY DEF DeviceInv, AllCorrected
  <2>2. Current(u)' = Current(u)
    BY <1>0 DEF Current
  <2>3. CASE w = y /\ u = x
    <3>1. EndsAt(inbox[w], view[w][u], u, Current(u)) /\ Current(u) = Locked(authStateInfo[u])
      BY <1>0, <2>1, <2>3, CurrentFree DEF Corrected
    <3>2. EndsAt(inbox[w], Current(u), u, Current(u))
      BY <3>1, ReadEnds
    <3>3. view'[w][u] = Current(u)
      BY <1>2, <2>3, <3>1
    <3> QED
      BY <1>0, <2>2, <2>3, <3>2, <3>3 DEF Corrected
  <2>4. CASE ~(w = y /\ u = x)
    BY <1>0, <1>2, <2>1, <2>2, <2>4, CorrectedKept
  <2> QED
    BY <2>3, <2>4
<1> QED
  BY <1>3, <1>4, <1>5, <1>6 DEF StateInv

\* A client takes a notification.
LEMMA OnStateChangedInv ==
  ASSUME DeviceInv, NEW y \in Wrappers, OnStateChanged(y)
  PROVE  DeviceTypeOK' /\ StateInv'
<1> DEFINE q == inbox[y]
<1>0. /\ q # <<>> /\ inbox' = [inbox EXCEPT ![y] = Tail(q)]
      /\ view' = [view EXCEPT ![y][Head(q)[1]] = Head(q)[2]]
      /\ UNCHANGED <<authStateInfo, setter, removed, sets, listenerVars>>
  BY DEF OnStateChanged
<1>1. /\ view \in [Wrappers -> [Users -> {"unknown"} \cup LockStates]]
      /\ inbox \in [Wrappers -> Seq(Notes)] /\ q \in Seq(Notes)
  BY DeviceFacts DEF DeviceInv
<1>2. Tail(q) \in Seq(Notes) /\ Head(q)[1] \in Users /\ Head(q)[2] \in LockStates
  <2>1. Len(q) \in Nat /\ Len(q) > 0 /\ Head(q) = q[1] /\ Tail(q) \in Seq(Notes)
    BY <1>0, <1>1, NoteFacts
  <2>2. q[1] \in Notes
    BY <1>1, <2>1, NoteFacts
  <2> QED
    BY <2>1, <2>2 DEF Notes
<1>3. /\ inbox' \in [Wrappers -> Seq(Notes)] /\ inbox'[y] = Tail(q)
      /\ \A w \in Wrappers : w # y => inbox'[w] = inbox[w] /\ view'[w] = view[w]
      /\ view' \in [Wrappers -> [Users -> {"unknown"} \cup LockStates]]
      /\ \A u \in Users : view'[y][u] = IF Head(q)[1] = u THEN Head(q)[2] ELSE view[y][u]
  BY <1>0, <1>1, <1>2
<1>4. DeviceTypeOK'
  <2>1. ListenersTypeOK'
    BY <1>0, DeviceFacts DEF DeviceInv, ListenersTypeOK, listenerVars, clientVars, serviceVars
  <2> QED
    BY <1>0, <1>3, <2>1 DEF DeviceInv, DeviceTypeOK, Notes
<1>5. OneSetter'
  BY <1>0 DEF DeviceInv, OneSetter
<1>6. FreshUntold'
  <2>1. ~Fresh(y)
    BY <1>0 DEF DeviceInv, FreshUntold
  <2> QED
    BY <1>0, <1>3, <2>1, FreshKept DEF DeviceInv
<1>7. Alternate'
  <2>1. \A w \in Wrappers : Alternates(inbox[w], removed)
    BY AlternateForm DEF DeviceInv
  <2>2. Alternates(Tail(q), removed)
    BY <1>0, <1>1, <2>1, AlternatesTail
  <2>3. \A w \in Wrappers : Alternates(inbox'[w], removed')
    BY <1>0, <1>3, <2>1, <2>2
  <2> QED
    BY <2>3 DEF Alternate, Alternates
<1>8. AllCorrected'
  <2> SUFFICES ASSUME NEW w \in Wrappers, NEW u \in Users \ removed, Told(w, u)
               PROVE  Corrected(w, u)'
    BY <1>0, SameListeners DEF AllCorrected
  <2>1. Corrected(w, u)
    BY DEF DeviceInv, AllCorrected
  <2>2. Current(u)' = Current(u)
    BY <1>0 DEF Current
  <2>3. CASE w = y
    <3> DEFINE v == IF Head(q)[1] = u THEN Head(q)[2] ELSE view[y][u]
    <3>1. /\ EndsAt(q, view[y][u], u, Current(u)) => EndsAt(Tail(q), v, u, Current(u))
          /\ Silent(q, view[y][u], u) => Silent(Tail(q), v, u)
      BY <1>0, <1>1, TakeFirst
    <3>2. view'[w][u] = v /\ inbox'[w] = Tail(q)
      BY <1>3, <2>3
    <3> HIDE DEF v
    <3> QED
      BY <1>0, <2>1, <2>2, <2>3, <3>1, <3>2 DEF Corrected
  <2>4. CASE w # y
    BY <1>0, <1>3, <2>1, <2>2, <2>4, CorrectedKept
  <2> QED
    BY <2>3, <2>4
<1> QED
  BY <1>4, <1>5, <1>6, <1>7, <1>8 DEF StateInv

-----------------------------------------------------------------------------
(* Registration, deaths and restarts.                                      *)

\* A wrapper is registered once, and then no longer fresh.
LEMMA RegistrationFresh ==
  ASSUME DeviceInv, ListenersNext
  PROVE  /\ \A w \in Wrappers : Fresh(w)' => Fresh(w)
         /\ \A w \in Wrappers : RegistrationOf(w) \in innerListenMap' =>
              RegistrationOf(w) \in innerListenMap \/ Fresh(w)
         /\ \A w \in Wrappers : Fresh(w)' => \A x \in innerListenMap' : x.wrapper # w
<1> DEFINE Goal ==
      /\ \A w \in Wrappers : Fresh(w)' => Fresh(w)
      /\ \A w \in Wrappers : RegistrationOf(w) \in innerListenMap' =>
           RegistrationOf(w) \in innerListenMap \/ Fresh(w)
      /\ \A w \in Wrappers : Fresh(w)' => \A x \in innerListenMap' : x.wrapper # w
<1>1. ASSUME \A w \in Wrappers : Fresh(w)' => Fresh(w), innerListenMap' \subseteq innerListenMap
      PROVE  Goal
  BY <1>1 DEF DeviceInv, FreshUntold
<1> HIDE DEF Goal
<1>2. ListenersInv /\ ListenersTypeOK /\ LastMade
  BY DEF DeviceInv, ListenersInv
<1>3. call \in [Procs -> Calls] /\ made \in [Listeners -> 0..MaxWrappers]
  BY <1>2 DEF ListenersTypeOK
<1>4. \A w \in Wrappers : w[1] \in Listeners /\ Owner[w[1]] \in Procs /\ w[2] \in Nat /\ made[w[1]] \in Nat
  BY <1>3, WrapperFacts, ListenerBounds
<1>5. ASSUME NEW l \in Listeners, RegisterListenerInner(l) PROVE Goal
  <2> DEFINE n == <<l, made[l] + 1>>
             c == [op |-> "register", wrapper |-> n]
  <2>1. /\ made' = [made EXCEPT ![l] = made[l] + 1] /\ call' = [call EXCEPT ![Owner[l]] = c]
        /\ innerListenMap' = innerListenMap
    BY <1>5 DEF RegisterListenerInner, serviceVars
  <2>2. ASSUME NEW w \in Wrappers, Fresh(w)' PROVE Fresh(w)
    <3>1. CASE w[2] > made'[w[1]]
      BY <1>3, <1>4, <2>1, <3>1 DEF Fresh
    <3>2. CASE ~(w[2] > made'[w[1]])
      <4>1. LET d == call'[Owner[w[1]]] IN d # NoCall /\ d.op = "register" /\ d.wrapper = w
        BY <2>2, <3>2 DEF Fresh
      <4>2. CASE Owner[w[1]] = Owner[l]
        <5>1. w = n
          BY <1>3, <1>4, <2>1, <4>1, <4>2
        <5>2. made[l] \in Nat
          BY <1>3, ListenerBounds
        <5> QED
          BY <5>1, <5>2 DEF Fresh
      <4>3. CASE Owner[w[1]] # Owner[l]
        <5>1. call'[Owner[w[1]]] = call[Owner[w[1]]]
          BY <1>3, <1>4, <2>1, <4>3
        <5> QED
          BY <4>1, <5>1 DEF Fresh
      <4> QED
        BY <4>2, <4>3
    <3> QED
      BY <3>1, <3>2
  <2> QED
    BY <1>1, <2>1, <2>2
<1>6. ASSUME made' = made, innerListenMap' \subseteq innerListenMap,
             \A p \in Procs : call'[p] \in {call[p], NoCall} \/ call'[p].op = "unregister"
      PROVE  Goal
  <2>1. \A w \in Wrappers : Fresh(w)' => Fresh(w)
    BY <1>4, <1>6 DEF Fresh
  <2> QED
    BY <1>1, <1>6, <2>1
<1>7. ASSUME NEW l \in Listeners, UnRegisterListenerInner(l) PROVE Goal
  <2>1. /\ made' = made /\ innerListenMap' = innerListenMap
        /\ call' = [call EXCEPT ![Owner[l]] = [op |-> "unregister", wrapper |-> InnerListenerWrapperMap[l]]]
    BY <1>7 DEF UnRegisterListenerInner, serviceVars
  <2> QED
    BY <1>3, <1>6, <2>1
<1>8. ASSUME NEW p \in Procs, Return(p)
      PROVE  made' = made /\ \A q \in Procs : call'[q] = IF q = p THEN NoCall ELSE call[q]
  BY <1>3, <1>8 DEF Return
<1>9. ASSUME NEW p \in Procs, CallFails(p) PROVE Goal
  BY <1>6, <1>8, <1>9 DEF CallFails, serviceVars
<1>10. ASSUME NEW p \in Procs, UnRegisterInnerListener(p) PROVE Goal
  BY <1>6, <1>8, <1>10 DEF UnRegisterInnerListener, UnRegister
<1>11. ASSUME NEW p \in Procs, RegisterInnerListener(p) PROVE Goal
  <2> DEFINE n == call[p].wrapper
  <2>1. /\ call[p] # NoCall /\ call[p].op = "register" /\ Return(p)
        /\ innerListenMap' = innerListenMap \cup {RegistrationOf(n)}
    BY <1>11 DEF RegisterInnerListener
  <2>2. n \in Wrappers /\ Owner[n[1]] = p /\ Fresh(n) /\ n[2] = made[n[1]]
    <3>1. n \in Wrappers /\ Owner[n[1]] = p
      BY <1>2, <2>1, CallFacts
    <3>2. n = <<n[1], made[n[1]]>>
      BY <1>2, <2>1 DEF LastMade
    <3>3. n[2] = made[n[1]]
      BY <3>2
    <3> QED
      BY <2>1, <3>1, <3>3 DEF Fresh
  <2> HIDE DEF n
  <2>3. \A w \in Wrappers : Fresh(w)' => Fresh(w) /\ w # n
    <3>1. made' = made /\ \A q \in Procs : call'[q] = IF q = p THEN NoCall ELSE call[q]
      BY <1>8, <2>1
    <3> QED
      BY <1>4, <2>2, <3>1 DEF Fresh
  <2>4. RegistrationOf(n).wrapper = n
    BY <2>2, RegistrationFacts
  <2>5. \A w \in Wrappers : RegistrationOf(w).wrapper = w
    BY RegistrationFacts
  <2> QED
    BY <2>1, <2>2, <2>3, <2>4, <2>5 DEF DeviceInv, FreshUntold, Goal
<1>12. ASSUME NEW p \in Procs, ProcessDies(p) PROVE Goal
  <2>1. made' = made /\ innerListenMap' = innerListenMap /\ call' = [call EXCEPT ![p] = NoCall]
    BY <1>12 DEF ProcessDies
  <2> QED
    BY <1>3, <1>6, <2>1
<1>13. ASSUME NEW w \in Wrappers, OnRemoteDied(w) \/ UnRegisterDead(w) PROVE Goal
  <2>1. made' = made /\ call' = call /\ innerListenMap' \subseteq innerListenMap
    BY <1>13 DEF OnRemoteDied, UnRegisterDead, UnRegister, clientVars
  <2> QED
    BY <1>6, <2>1
<1>14. ASSUME ServiceRestarts PROVE Goal
  <2>1. made' = made /\ innerListenMap' = {} /\ call' = [p \in Procs |-> NoCall]
    BY <1>14 DEF ServiceRestarts
  <2>2. \A p \in Procs : call'[p] = NoCall
    BY <2>1
  <2>3. innerListenMap' \subseteq innerListenMap
    BY <2>1
  <2> QED
    BY <1>6, <2>1, <2>2, <2>3
<1>15. Goal
  <2>1. CASE \E l \in Listeners : RegisterListenerInner(l) \/ UnRegisterListenerInner(l)
    BY <1>5, <1>7, <2>1
  <2>2. CASE \E p \in Procs : CallFails(p) \/ RegisterInnerListener(p)
                            \/ UnRegisterInnerListener(p) \/ ProcessDies(p)
    BY <1>9, <1>10, <1>11, <1>12, <2>2
  <2>3. CASE \E w \in Wrappers : OnRemoteDied(w) \/ UnRegisterDead(w)
    BY <1>13, <2>3
  <2> QED
    BY <1>14, <2>1, <2>2, <2>3 DEF ListenersNext
<1> QED
  BY <1>15 DEF Goal

\* Registrations, removals and deaths of clients, which change no state of a user.
LEMMA RegistrationInv ==
  ASSUME DeviceInv, Registration
  PROVE  DeviceTypeOK' /\ StateInv'
<1>0. ListenersNext /\ UNCHANGED <<authStateInfo, setter, inbox, view, removed, sets>>
  BY DEF Registration, deviceVars
<1>1. DeviceTypeOK'
  <2>1. ListenersTypeOK'
    BY <1>0, NextInv DEF DeviceInv, ListenersInv
  <2> QED
    BY <1>0, <2>1 DEF DeviceInv, DeviceTypeOK
<1>2. OneSetter' /\ Alternate'
  BY <1>0 DEF DeviceInv, OneSetter, Alternate
<1>3. FreshUntold'
  BY <1>0, RegistrationFresh DEF DeviceInv, FreshUntold
<1>4. AllCorrected'
  <2> SUFFICES ASSUME NEW w \in Wrappers, NEW u \in Users \ removed, Told(w, u)'
               PROVE  Corrected(w, u)'
    BY <1>0 DEF AllCorrected
  <2>1. Corrected(w, u)
    <3>1. CASE Fresh(w)
      <4>1. inbox[w] = <<>> /\ view[w][u] = "unknown"
        BY <3>1 DEF DeviceInv, FreshUntold
      <4> QED
        BY <4>1 DEF Corrected, EndsAt, Silent
    <3>2. CASE ~Fresh(w)
      BY <1>0, <3>2, RegistrationFresh DEF DeviceInv, AllCorrected, Told
    <3> QED
      BY <3>1, <3>2
  <2>2. Current(u)' = Current(u)
    BY <1>0 DEF Current
  <2> QED
    BY <1>0, <2>1, <2>2, CorrectedKept
<1> QED
  BY <1>1, <1>2, <1>3, <1>4 DEF StateInv

\* A restarted service has no registrations and no states.
LEMMA ServiceDiesInv ==
  ASSUME DeviceInv, ServiceDies
  PROVE  DeviceTypeOK' /\ StateInv'
<1>0. /\ ServiceRestarts /\ authStateInfo' = NoFunction /\ setter' = [t \in Setters |-> Idle]
      /\ UNCHANGED <<inbox, view, removed, sets>>
  BY DEF ServiceDies
<1>1. ListenersNext /\ innerListenMap' = {}
  BY <1>0 DEF ListenersNext, ServiceRestarts
<1>2. DeviceTypeOK'
  <2>1. ListenersTypeOK'
    BY <1>1, NextInv DEF DeviceInv, ListenersInv
  <2>2. authStateInfo' \in Partial(Users, AuthStates)
    BY <1>0, NoFunctionFacts
  <2>3. setter' \in [Setters -> Setting \cup {Idle}]
    BY <1>0
  <2> QED
    BY <1>0, <2>1, <2>2, <2>3 DEF DeviceInv, DeviceTypeOK
<1>3. OneSetter'
  BY <1>0 DEF OneSetter, Idle
<1>4. Alternate'
  BY <1>0 DEF DeviceInv, Alternate
<1>5. FreshUntold'
  BY <1>0, <1>1, RegistrationFresh DEF DeviceInv, FreshUntold
<1>6. AllCorrected'
  BY <1>1 DEF AllCorrected, Told
<1> QED
  BY <1>2, <1>3, <1>4, <1>5, <1>6 DEF StateInv

-----------------------------------------------------------------------------
(* The theorems.                                                           *)

\* The initial states satisfy the invariant.
LEMMA DeviceInitHolds == DeviceInit => DeviceInv
<1> SUFFICES ASSUME DeviceInit PROVE DeviceInv
  OBVIOUS
<1>1. ListenersInv /\ ListenersTypeOK
  BY InitInv DEF DeviceInit, ListenersInv
<1>2. authStateInfo \in Partial(Users, AuthStates)
  BY NoFunctionFacts DEF DeviceInit
<1>3. inbox \in [Wrappers -> Seq(Users \X LockStates)]
  BY DEF DeviceInit
<1>4. DeviceTypeOK
  BY <1>1, <1>2, <1>3, UsersAssumption DEF DeviceInit, DeviceTypeOK
<1>5. innerListenMap = {}
  BY DEF DeviceInit, ListenersInit
<1>6. OneSetter /\ AllCorrected
  BY <1>5 DEF DeviceInit, OneSetter, AllCorrected, Told, Idle
<1>7. FreshUntold
  BY <1>5 DEF DeviceInit, FreshUntold
<1>8. Alternate
  BY DEF DeviceInit, Alternate
<1> QED
  BY <1>1, <1>4, <1>6, <1>7, <1>8 DEF DeviceInv

\* Every step preserves it.
LEMMA DeviceStepHolds == DeviceInv /\ [DeviceNext]_deviceAll => DeviceInv'
<1> SUFFICES ASSUME DeviceInv, [DeviceNext]_deviceAll PROVE DeviceInv'
  OBVIOUS
<1>1. ListenersInv'
  <2>1. [ListenersNext]_listenerVars
    <3>1. CASE UNCHANGED deviceAll
      BY <3>1 DEF deviceAll
    <3>2. CASE DeviceNext
      BY <3>2 DEF DeviceNext, AuthStateInit, OnRemoveUser, InsertAuthState, SetScreenLockAuthState,
        Store, OnStateChanged, IsDeviceLocked, ServiceDies, Registration, ListenersNext
    <3> QED
      BY <3>1, <3>2
  <2> QED
    BY <2>1, NextInv DEF DeviceInv
<1>2. DeviceTypeOK' /\ StateInv'
  <2>1. ASSUME NEW u \in Users, AuthStateInit(u) PROVE DeviceTypeOK' /\ StateInv'
    <3>1. "UNAUTH" \in AuthStates
      BY DEF AuthStates
    <3> QED
      BY <2>1, <3>1, Inserted DEF AuthStateInit
  <2>2. ASSUME NEW u \in Users, OnRemoveUser(u) PROVE DeviceTypeOK' /\ StateInv'
    BY <2>2, OnRemoveUserInv
  <2>3. ASSUME NEW u \in Users, NEW x \in AuthStates, InsertAuthState(u, x)
        PROVE  DeviceTypeOK' /\ StateInv'
    BY <2>3, Inserted DEF InsertAuthState
  <2>4. ASSUME NEW u \in Users, NEW x \in AuthStates, NEW t \in Setters, SetScreenLockAuthState(t, u, x)
        PROVE  DeviceTypeOK' /\ StateInv'
    BY <2>4, SetScreenLockAuthStateInv
  <2>5. ASSUME NEW t \in Setters, Store(t) PROVE DeviceTypeOK' /\ StateInv'
    BY <2>5, StoreInv
  <2>6. ASSUME NEW w \in Wrappers, OnStateChanged(w) PROVE DeviceTypeOK' /\ StateInv'
    BY <2>6, OnStateChangedInv
  <2>7. ASSUME NEW w \in Wrappers, NEW u \in Users, IsDeviceLocked(w, u)
        PROVE  DeviceTypeOK' /\ StateInv'
    BY <2>7, IsDeviceLockedInv
  <2>8. CASE UNCHANGED deviceAll
    <3>1. UNCHANGED <<authStateInfo, setter, inbox, view, removed, sets>> /\ UNCHANGED listenerVars
      BY <2>8 DEF deviceAll, deviceVars
    <3>2. DeviceTypeOK'
      BY <3>1, <1>1 DEF DeviceInv, DeviceTypeOK, ListenersInv
    <3>3. OneSetter' /\ Alternate' /\ FreshUntold'
      BY <3>1, FreshKept DEF DeviceInv, OneSetter, Alternate
    <3>4. AllCorrected'
      <4>1. \A u : Current(u)' = Current(u)
        BY <3>1 DEF Current
      <4> QED
        BY <3>1, <4>1, SameListeners, CorrectedKept DEF DeviceInv, AllCorrected
    <3> QED
      BY <3>2, <3>3, <3>4 DEF StateInv
  <2> QED
    BY <2>1, <2>2, <2>3, <2>4, <2>5, <2>6, <2>7, <2>8, ServiceDiesInv, RegistrationInv DEF DeviceNext
<1> QED
  BY <1>1, <1>2 DEF DeviceInv, StateInv

\* The inductive invariant of the authentication states and the listeners holds
\* for any users, threads, processes and listeners.
THEOREM DeviceInvariant == DeviceSpec => []DeviceInv
BY DeviceInitHolds, DeviceStepHolds, PTL DEF DeviceSpec

\* The states of the users, the notifications and what the clients know keep
\* their types.
THEOREM DeviceTypeCorrect == DeviceSpec => []DeviceTypeOK
<1>1. DeviceInv => DeviceTypeOK
  BY DEF DeviceInv
<1> QED
  BY <1>1, DeviceInvariant, PTL

\* SetScreenLockAuthState and IsDeviceLocked: a client that registers, reads and
\* follows the notifications has the state of the service when none is on its
\* way to it.
THEOREM ViewIsCurrent == DeviceSpec => []ViewCurrent
<1>1. DeviceInv => ViewCurrent
  <2> SUFFICES ASSUME DeviceInv, NEW w \in Wrappers, NEW u \in DOMAIN authStateInfo \ removed,
                      Follows(w), w[1] \notin unsure, ResolvedUser(w) \in {u, USER_ALL},
                      inbox[w] = <<>>, MutexFree, view[w][u] # "unknown"
               PROVE  view[w][u] = Locked(authStateInfo[u])
    BY DEF ViewCurrent
  <2>1. ~Registering(w[1]) /\ w \notin gone
    BY DEF Follows, Registering, DeviceInv, ListenersInv, LastMade
  <2>2. RegistrationOf(w) \in innerListenMap
    BY <2>1, WrapperFacts DEF Follows, DeviceInv, ListenersInv, AgreeAlways
  <2>3. Told(w, u) /\ u \in Users \ removed
    BY <2>2, DeviceFacts DEF Follows, Told, DeviceInv
  <2>4. EndsAt(<<>>, view[w][u], u, Current(u))
    BY <2>3 DEF DeviceInv, AllCorrected, Corrected
  <2>5. view[w][u] = Current(u)
    BY <2>4 DEF EndsAt
  <2> QED
    BY <2>5, CurrentFree
<1> QED
  BY <1>1, DeviceInvariant, PTL

\* SetScreenLockAuthState, whichever threads call it, never tells a listener the
\* same state of a user twice in a row.
THEOREM NotificationsAlternate == DeviceSpec => []Alternate
<1>1. DeviceInv => Alternate
  BY DEF DeviceInv
<1> QED
  BY <1>1, DeviceInvariant, PTL
=============================================================================
