--------------------------- MODULE RequestPromise ---------------------------
(***************************************************************************)
(* What the service promises to the callers of Unlock, UnlockScreen and    *)
(* Lock: a request waits, is answered once and for good, and an unlock     *)
(* request is answered SCREEN_SUCC only when the caller's own user was     *)
(* reported unlocked since the process started; a crash of the process     *)
(* loses the requests that wait.                                           *)
(***************************************************************************)
CONSTANTS Users, UnlockReqs, LockReqs, Owner

VARIABLES
  status,    \* of each request: new, waiting, lost, or its answer
  unlocked   \* the users reported unlocked since the process started

Reqs == UnlockReqs \cup LockReqs
Answers == {"SUCC", "FAIL", "CANCEL"}

Init ==
  /\ status = [r \in Reqs |-> "new"]
  /\ unlocked = {}

Ask(r) ==
  /\ status[r] = "new"
  /\ status' = [status EXCEPT ![r] = "waiting"]
  /\ UNCHANGED unlocked

Report(u) ==
  /\ unlocked' = unlocked \cup {u}
  /\ UNCHANGED status

AnswerUnlock(r, x) ==
  /\ status[r] = "waiting"
  /\ x = "SUCC" => Owner[r] \in unlocked
  /\ status' = [status EXCEPT ![r] = x]
  /\ UNCHANGED unlocked

\* The lock requests that wait are answered together.
AnswerLocks(S, x) ==
  /\ \A r \in S : status[r] = "waiting"
  /\ status' = [r \in Reqs |-> IF r \in S THEN x ELSE status[r]]
  /\ UNCHANGED unlocked

Crash ==
  /\ status' = [r \in Reqs |-> IF status[r] = "waiting" THEN "lost" ELSE status[r]]
  /\ unlocked' = {}

Next ==
  \/ \E r \in Reqs : Ask(r)
  \/ \E u \in Users : Report(u)
  \/ \E r \in UnlockReqs, x \in Answers : AnswerUnlock(r, x)
  \/ \E S \in SUBSET LockReqs, x \in Answers : AnswerLocks(S, x)
  \/ Crash

Spec == Init /\ [][Next]_<<status, unlocked>>
=============================================================================
