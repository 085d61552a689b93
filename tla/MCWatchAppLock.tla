--------------------------- MODULE MCWatchAppLock ---------------------------
(* TLC instance: two payment apps.                                          *)
EXTENDS WatchAppLock

CONSTANTS app1, app2
=============================================================================
