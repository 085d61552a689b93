----------------------------- MODULE MCCallPath -----------------------------
EXTENDS CallPath

MCCalls == {1, 2}
Both == {"ACCESS_SCREEN_LOCK", "ACCESS_SCREEN_LOCK_INNER"}

Hap(system, focused, perms) ==
  [type |-> "hap", system |-> system, focused |-> focused, perms |-> perms, user |-> 100]
MCApp == Hap(TRUE, FALSE, Both)
Settings == Hap(TRUE, TRUE, {"ACCESS_SCREEN_LOCK"})
ThirdParty == Hap(FALSE, FALSE, {})
NativeService == [MCApp EXCEPT !.type = "native", !.system = FALSE, !.user = 0]
MCResults == {SCREEN.SUCC, SCREEN.FAIL, SCREEN.CANCEL, SCREEN.ALREADY_UNLOCKED}

\* A service that has run for a while, with an app or without.
Used(ready) ==
  [locked |-> (100 :> 0 @@ 101 :> 1), auth |-> (100 :> 8 @@ 101 :> 4),
   strong |-> (100 :> 0 @@ 101 :> 4), disabled |-> (101 :> 1), policy |-> (100 :> 2 @@ 101 :> 3),
   current |-> 100, listener |-> ready, unlocks |-> <<>>, locks |-> <<>>, tasks |-> <<>>,
   toApp |-> <<>>, appLocked |-> 1, widget |-> 0,
   active |-> 100, pins |-> {101}, verified |-> {100, 101}]

\* One that has just started.
Fresh == Service!Started(Used(FALSE))

Num(n) == [type |-> "number", value |-> n]
Bool(b) == [type |-> "boolean", value |-> b]
Str(s) == [type |-> "string", value |-> s]
Bytes == [type |-> "uint8array", value |-> ""]
Fun == [type |-> "function", value |-> ""]
A(name, args) == [name |-> name, args |-> args]

Questions == {"isScreenLockDisabled", "getScreenLockAuthState", "getStrongAuth", "isDeviceLocked",
              "getUnlockPolicy"}

Typed ==
  {A(name, args) : name \in {"isScreenLocked", "isSecureMode"}, args \in {<<>>, <<Fun>>}}
  \cup {A("isLocked", <<>>)}
  \cup {A(name, <<Num(u)>>) : name \in Questions, u \in {100, 101, 102}}
  \cup {A("sendScreenLockEvent", <<Str(e), Num(r)>>) :
          e \in {"unlockScreenResult", "lockScreenResult", "screenDrawDone", "other"},
          r \in {SCREEN.SUCC, SCREEN.CANCEL}}
  \cup {A("setScreenLockDisabled", <<Bool(b), Num(u)>>) : b \in 0..1, u \in {100, 101}}
  \cup {A("setScreenLockAuthState", <<Num(a), Num(u), Bytes>>) : a \in {0, 4}, u \in {100, 101}}
  \cup {A("requestStrongAuth", <<Num(r), Num(u)>>) : r \in {0, 4}, u \in {100, 101}}

Untyped ==
  {A("isScreenLocked", <<Num(1), Num(1)>>), A("getStrongAuth", <<>>), A("isDeviceLocked", <<Str("x")>>),
   A("setScreenLockDisabled", <<Num(1), Num(100)>>), A("setScreenLockAuthState", <<Num(7), Num(100)>>),
   A("sendScreenLockEvent", <<Str("other"), Fun>>), A("lock", <<Num(1)>>), A("unlockScreen", <<Num(1)>>),
   A("setScreenLockAuthState", <<Num(8), Num(100), Bytes>>)}

Native ==
  {A("lockUser", <<Num(100)>>), A("isLockedWatch", <<>>), A("unlockWatch", <<Num(1)>>),
   A("unlockWatch", <<Num(0)>>), A("setUnlockPolicy", <<Num(100), Num(1)>>),
   A("setUnlockPolicy", <<Num(102), Num(1)>>)}
  \cup {A("isLockedWithUserId", <<Num(u)>>) : u \in {101, 102}}

Requesting == {A("lock", <<>>), A("unlock", <<Fun>>), A("unlockScreen", <<>>)}
Report(event, answer) == A("sendScreenLockEvent", <<Str(event), Num(answer)>>)
Register == A("onSystemEvent", <<Fun>>)

With(binding, caller, state, ask1, ask2) ==
  [binding |-> binding, caller |-> caller, store |-> state, asks |-> <<ask1, ask2>>]
S(binding, caller, ready, ask1, ask2) == With(binding, caller, Used(ready), ask1, ask2)

MCScenarios ==
  {S("napi", caller, TRUE, ask, NoAsk) : caller \in {MCApp, Settings, ThirdParty}, ask \in Typed \cup Untyped}
  \cup {S("ani", caller, TRUE, ask, NoAsk) : caller \in {MCApp, Settings, ThirdParty}, ask \in Typed}
  \cup {With("napi", Settings, Fresh, ask, NoAsk) : ask \in Typed}
  \cup {S("ani", MCApp, TRUE, A("sendScreenLockEvent", <<Str(""), Num(0)>>), NoAsk)}
  \cup {S("native", caller, TRUE, ask, NoAsk) : caller \in {NativeService, ThirdParty}, ask \in Native}
  \cup {S(binding, caller, TRUE, ask, NoAsk) :
          binding \in {"napi", "ani"}, caller \in {MCApp, Settings, ThirdParty}, ask \in Requesting}
  \cup {S("napi", MCApp, FALSE, ask, Register) : ask \in Requesting}
  \cup {S("ani", MCApp, FALSE, A("unlock", <<Fun>>), Register),
        S("napi", Settings, FALSE, A("lock", <<>>), Register),
        S("napi", MCApp, TRUE, A("unlock", <<>>), A("unlockScreen", <<>>)),
        S("napi", MCApp, TRUE, A("unlock", <<>>), Report("unlockScreenResult", SCREEN.SUCC)),
        S("ani", MCApp, TRUE, A("lock", <<>>), Report("lockScreenResult", SCREEN.FAIL))}
=============================================================================
