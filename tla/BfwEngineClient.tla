---------------------------- MODULE BfwEngineClient ----------------------------
(***************************************************************************)
(* The client of an application: its sub-clients share the URL and the token *)
(* factory and nothing else, so an application that uses the notifications   *)
(* and one that makes requests are looked at separately.                     *)
(***************************************************************************)
EXTENDS NotificationClient, EngineRequests

VARIABLE use  \* what the application uses

vars == <<use, clientVars, requestVars>>

TypeOK == use \in {"notifications", "requests"} /\ ClientTypeOK /\ RequestTypeOK

Init == use \in {"notifications", "requests"} /\ ClientInit /\ RequestInit

Next ==
    /\ UNCHANGED use
    /\ \/ use = "notifications" /\ ClientNext /\ UNCHANGED requestVars
       \/ use = "requests" /\ RequestNext /\ UNCHANGED clientVars

Spec == Init /\ [][Next]_vars /\ ClientFairness
=============================================================================
