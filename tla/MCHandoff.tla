------------------------------ MODULE MCHandoff ------------------------------
(* A handoff on its way from the browser to the terminal: the page where it  *)
(* is prepared and confirmed, the capture of the workspace it is compared    *)
(* with, and its launch.  The parts share no variable here, so a behaviour   *)
(* exercises one of them (part) while the others rest in one initial state.  *)
EXTENDS MCHandoffLaunch, WorkspaceCapture, ContinuePage

VARIABLE part

\* So are the choices on the page.
HandoffSymmetry == Symmetry \cup Permutations(Choices)

MCInit ==
  /\ part \in {"launch", "capture", "page"}
  /\ Init /\ CaptureInit /\ PageInit
  /\ part # "capture" => past[1].index = [p \in Paths |-> CHOOSE c \in Contents : TRUE]
  /\ part # "page" => page.choice = CHOOSE c \in Choices : TRUE

Launching == part = "launch" /\ Next /\ UNCHANGED <<part, captureVars, pageVars>>
Capturing == part = "capture" /\ CaptureNext /\ UNCHANGED <<part, vars, pageVars>>
Continuing == part = "page" /\ PageNext /\ UNCHANGED <<part, vars, captureVars>>

MCNext == Launching \/ Capturing \/ Continuing
MCSpec == MCInit /\ [][MCNext]_<<part, vars, captureVars, pageVars>>
=============================================================================
