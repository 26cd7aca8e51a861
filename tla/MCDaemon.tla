------------------------------ MODULE MCDaemon ------------------------------
(***************************************************************************)
(* Two command lines and two service processes: enough for an old process  *)
(* that leaves while a new one comes, and for two new ones that race for   *)
(* the endpoint.                                                           *)
(***************************************************************************)
EXTENDS Daemon

CONSTANTS k1, k2

\* k1 replaces the service, starts a tunnel or does as k2 does.
MCPlans ==
    {[k \in Clients |-> IF k = k1 THEN "restart" ELSE g] : g \in AllGoals} \cup
    {[k \in Clients |-> IF k = k1 THEN "start" ELSE g] : g \in {"stop", "resources"}} \cup
    {[k \in Clients |-> g] : g \in {"stop", "resources"}}
=============================================================================
