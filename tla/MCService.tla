----------------------------- MODULE MCService -----------------------------
(* What has to come to an end in the local service: the index runs with the  *)
(* requests that wait for them, and takeovers whose controller may never     *)
(* answer.  The two share no variable, so a behaviour exercises one of them  *)
(* (part) while the other rests in one initial state.                        *)
EXTENDS IndexScheduler, Takeover

VARIABLE part

MCInit ==
  /\ part \in {"index", "takeover"}
  /\ Init /\ TakeoverInit
  /\ part # "index" => timer

Indexing == part = "index" /\ Next /\ UNCHANGED <<part, takeoverVars>>
TakingOver == part = "takeover" /\ TakeoverNext /\ UNCHANGED <<part, vars>>

MCNext == Indexing \/ TakingOver

\* The fairness of FairSpec in both modules: no action it names is enabled
\* while its part rests.
MCSpec ==
  /\ MCInit /\ [][MCNext]_<<part, vars, takeoverVars>>
  /\ EventLoop
  /\ \A t \in Takeovers : WF_takeoverVars(Deadline(t)) /\ WF_takeoverVars(AfterRace(t))
=============================================================================
