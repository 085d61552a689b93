---------------------------- MODULE MCStrongAuth ----------------------------
(* TLC instances of StrongAuth.                                             *)
EXTENDS StrongAuth

CONSTANT a

OneUser == {a}
TwoStages == <<1, 2>>
FourStages == <<1, 3, 8, 24>>   \* the periods of strongauthmanager.h, in hours
OneStage == <<1>>
Requests == {"NONE", "ACTIVE_REQUEST"}
ActiveRequest == {"ACTIVE_REQUEST"}
NoRequests == {}
=============================================================================
