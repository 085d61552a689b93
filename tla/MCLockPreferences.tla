------------------------- MODULE MCLockPreferences --------------------------
(* TLC instances: two users and one policy beside the default.              *)
EXTENDS LockPreferences, TLC

CONSTANTS alice, bob

Symmetry == Permutations({alice, bob})
=============================================================================
