----------------------------- MODULE MCWorkplace -----------------------------
(* Where people work: the local database of the Workbench, the receipts that *)
(* are handed in, the browser's pages, and an operator's certification       *)
(* experiments.  The parts share no variable here, so a behaviour exercises  *)
(* one of them (part) while the others rest in one initial state.            *)
EXTENDS MCWorkbench, Receipts, WebClient, AgentCertification

CONSTANTS
  d1, d2, k1, k2

VARIABLE part

everything == <<part, vars, receiptVars, webVars, certificationVars>>

\* Two databases, whose services may come back on another port or take over the
\* port they share.
Ports == d1 :> {1, 2} @@ d2 :> {1, 3}

\* One operator makes and edits two experiments, or two commands run at once
\* and the harness is upgraded between them.
Allowed(commands, tools, edits) == [commands |-> commands, tools |-> tools, edits |-> edits]
MCAllowances == {Allowed({k1}, 1, 4), Allowed({k1, k2}, 2, 0)}

ASSUME ReceiptsAssumption

-----------------------------------------------------------------------------
WPInit ==
  /\ part \in {"workbench", "receipts", "web", "certification"}
  /\ Init /\ ReceiptsInit /\ WebInit /\ CertificationInit
  /\ services[1].db = d1 /\ services[1].origin = 1
  /\ part # "workbench" =>
       /\ left = CHOOSE b \in Budgets : TRUE
       /\ bound = CHOOSE b \in BoundAtFirst : TRUE
  /\ part # "receipts" => \A h \in Handoffs : manifest[h] = NoValue
  /\ part # "certification" => allowance.edits = 0

Workbenching == part = "workbench" /\ Next /\ UNCHANGED <<part, receiptVars, webVars, certificationVars>>
HandingIn == part = "receipts" /\ ReceiptsNext /\ UNCHANGED <<part, vars, webVars, certificationVars>>
Browsing == part = "web" /\ WebNext /\ UNCHANGED <<part, vars, receiptVars, certificationVars>>
Certifying == part = "certification" /\ CertificationNext /\ UNCHANGED <<part, vars, receiptVars, webVars>>

WPNext == Workbenching \/ HandingIn \/ Browsing \/ Certifying
WPSpec == WPInit /\ [][WPNext]_everything

WPSymmetry == ClientSymmetry \cup Permutations(Nonces)
=============================================================================
