----------------------- MODULE WorkspaceReservation -----------------------
(***************************************************************************)
(* What docs/adr/0011-workspace-run-coordination.md promises of the launch *)
(* store, with none of its mechanism: a workspace root is reserved by at   *)
(* most one attempt, a target process starts only for an attempt whose     *)
(* reservation is or was held, and a reservation ends either after its     *)
(* target has stopped or by an explicit override of the operator.          *)
(* HandoffLaunch implements this module.                                   *)
(***************************************************************************)
CONSTANTS Roots, Attempts, Free

VARIABLES
  holder,      \* root -> the attempt that reserves it, or Free
  working,     \* attempts whose target process is alive
  overridden   \* attempts whose reservation an operator has released

vars == <<holder, working, overridden>>

Init ==
  /\ holder = [r \in Roots |-> Free]
  /\ working = {}
  /\ overridden = {}

Holds(a) == \E r \in Roots : holder[r] = a

Acquire(a, r) ==
  /\ holder[r] = Free
  /\ ~Holds(a) /\ a \notin working /\ a \notin overridden
  /\ holder' = [holder EXCEPT ![r] = a]
  /\ UNCHANGED <<working, overridden>>

StartWork(a) ==
  /\ Holds(a) \/ a \in overridden
  /\ working' = working \cup {a}
  /\ UNCHANGED <<holder, overridden>>

StopWork(a) ==
  /\ working' = working \ {a}
  /\ UNCHANGED <<holder, overridden>>

Release(a, r) ==
  /\ holder[r] = a /\ a \notin working
  /\ holder' = [holder EXCEPT ![r] = Free]
  /\ UNCHANGED <<working, overridden>>

Override(a, r) ==
  /\ holder[r] = a
  /\ holder' = [holder EXCEPT ![r] = Free]
  /\ overridden' = overridden \cup {a}
  /\ UNCHANGED working

Next ==
  \E a \in Attempts :
    \/ StartWork(a) \/ StopWork(a)
    \/ \E r \in Roots : Acquire(a, r) \/ Release(a, r) \/ Override(a, r)

Spec == Init /\ [][Next]_vars
===========================================================================
