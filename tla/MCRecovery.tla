---------------------------- MODULE MCRecovery ----------------------------
(* What dead processes leave behind: reservations of launches and leases of  *)
(* index runs, with a truthful operator and with refreshes that keep coming. *)
(* The two share no variable, so a behaviour exercises one of them (part)    *)
(* while the other rests in an initial state.                                *)
EXTENDS MCHandoffLaunch

CONSTANTS
  Owners, Values, Imports, BatchMax, MaxLen, MaxEdits, MaxFaults, Troubles,
  Nobody, NoCursor, NoFile

VARIABLES part, file, edits, tampered, known, cursor, rows, lease, scan, faults

Commits == INSTANCE IndexCommit
commitVars == <<file, edits, tampered, known, cursor, rows, lease, scan, faults>>

MCInit ==
  /\ part \in {"launch", "commits"}
  /\ Init /\ Commits!Init
  /\ part = "launch" => file.records = <<>>

Launching == part = "launch" /\ Next /\ UNCHANGED <<part, commitVars>>
Committing == part = "commits" /\ Commits!Next /\ UNCHANGED <<part, vars>>

MCNext == Launching \/ Committing

\* The fairness of FairSpec in both modules, for the part that is exercised.
MCSpec ==
  /\ MCInit /\ [][MCNext]_<<part, vars, commitVars>>
  /\ \A p \in Cli :
       /\ WF_vars(part = "launch" /\ Observer(p))
       /\ WF_vars(part = "launch" /\ TargetExit(p))
       /\ WF_vars(part = "launch" /\ Recover(p))
  /\ \A h \in Handoffs : WF_vars(part = "launch" /\ Reconcile(h))
  /\ \A o \in Owners : WF_commitVars(part = "commits" /\ Commits!Run(o))
  /\ WF_commitVars(part = "commits" /\ Commits!OwnerDied /\ Commits!Expire)

\* The index catches up with a log that has come to rest.
IndexCatchesUp == part = "commits" => Commits!IndexCatchesUp
===========================================================================
