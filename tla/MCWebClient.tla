---------------------------- MODULE MCWebClient ----------------------------
(* An instance of WebClient for TLC: two tabs and a task that two databases  *)
(* share; their services may come back on another port or take over port 1.  *)
EXTENDS WebClient, TLC

CONSTANTS A, B, d1, d2

Ports == d1 :> {1, 2} @@ d2 :> {1, 3}

\* At first the tab is connected to d1.
FirstInit == WebInit /\ services[1].db = d1 /\ services[1].origin = 1
FirstSpec == FirstInit /\ [][WebNext]_webVars
============================================================================
