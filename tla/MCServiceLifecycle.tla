------------------------- MODULE MCServiceLifecycle -------------------------
(* TLC instance: the app registers twice, for two users.                    *)
EXTENDS ServiceLifecycle, TLC

CONSTANTS app1, app2

UserOf_ == app1 :> 100 @@ app2 :> 101
=============================================================================
