---------------------------- MODULE MCUnlockFlow ----------------------------
(* Instances of UnlockFlow for TLC: up to two accounts, two requests of    *)
(* each kind.                                                              *)
EXTENDS UnlockFlow, TLC

CONSTANTS a, b, r1, r2

MCOwner == (r1 :> a) @@ (r2 :> b)
MCOwnerSame == (r1 :> a) @@ (r2 :> a)
MCOwnerOne == r1 :> a
=============================================================================
