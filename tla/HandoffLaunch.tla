--------------------------- MODULE HandoffLaunch ---------------------------
(***************************************************************************)
(* Launching a prepared handoff: the `threadport continue` processes       *)
(* (targets/launch.ts), the server's browser confirmation                  *)
(* (handoff/confirm.ts), the operator's inspect-run and recover-run        *)
(* (cli-recovery.ts), retention (storage/maintenance.ts) and the immediate *)
(* SQLite transactions they race through (storage/launch-store.ts,         *)
(* handoff-store.ts, observation-store.ts).                                *)
(*                                                                         *)
(* One continue process reviews one handoff once, so the process also      *)
(* names the plan it froze (its nonce is fresh), the attempt it claims and *)
(* the workspace_runs row that attempt owns.                               *)
(***************************************************************************)
EXTENDS Naturals, FiniteSets

CONSTANTS
  Handoffs,         \* handoffs that prepareHandoff has saved
  Cli,              \* `threadport continue` processes
  handoffOf,        \* the handoff each of them was started for
  rootOf, taskOf,   \* workspace root and task of a handoff
  Outcomes,         \* results a target can be observed to end with
  Exposed,          \* bound: handoffs that drift or are confirmed in a browser
  MaxObservations,  \* execution observations one task may hold (1000)
  LiveProbe,        \* answers to "is it the same process?" for a live one
  DeadProbe,        \* and for a dead one, whose pid may be in use again
  HonestOperator,   \* whether the operator confirms only what is true
  None

ASSUME LaunchAssumption ==
  /\ handoffOf \in [Cli -> Handoffs]
  /\ Outcomes \subseteq {"exited", "failed", "cancelled", "interrupted"}
  /\ "failed" \in Outcomes
  /\ Exposed \subseteq Handoffs
  /\ MaxObservations \in Nat
  /\ LiveProbe \subseteq BOOLEAN /\ DeadProbe \subseteq BOOLEAN
  /\ HonestOperator \in BOOLEAN
  /\ None \notin Cli

VARIABLES
  handoff,      \* handoffs.state; "retained" also stands for a deleted row
  basis,        \* do task, source, workspace and clock still match the record
  approval,     \* plan and launch inside the record's approval
  attempt,      \* launch_attempts.status of the attempt of each process
  run,          \* workspace_runs row of that attempt
  observation,  \* execution_observations row of that attempt
  pc,           \* where each continue process is; "gone" once it has exited
  result,       \* the ProcessResult it carries from run to finish
  target,       \* the agent process it spawned
  webConfirm,   \* handoffs with a browser confirmation awaiting its capture
  recovered     \* attempts in run_recoveries (rows kept here after pruning)

store == <<handoff, approval, attempt, run, observation, recovered>>
vars == <<store, basis, pc, result, target, webConfirm>>

NoApproval == [plan |-> None, launch |-> None]
NoRun == [state |-> "none", target |-> FALSE]
NoObservation == [status |-> "none", started |-> FALSE]

Readable(h) == handoff[h] # "retained"
\* Weakened form: a handoff of unknown outcome is confirmed anew.
OpenOrUnknown(h) == handoff[h] \in {"prepared", "confirmed", "unknown"}
Open(h) == handoff[h] \in {"prepared", "confirmed"}
Current(h) == basis[h] = "current"
Occupying(p) == run[p].state \in {"running", "unknown"}
SameRoot(p, q) == rootOf[handoffOf[p]] = rootOf[handoffOf[q]]

\* What observeProcess may answer another process about the owner or target.
OwnerProbe(p) == IF pc[p] = "gone" THEN DeadProbe ELSE LiveProbe
TargetProbe(p) == IF target[p] = "alive" THEN LiveProbe ELSE DeadProbe

\* Weakened form: a live owner does not stand in the way.
OwnerIgnored(p) == TRUE
OwnerMayBeGone(p) == FALSE \in OwnerProbe(p)
\* Weakened form: a target that was never recorded blocks recovery for good.
TargetKnownGone(p) == run[p].target /\ FALSE \in TargetProbe(p)
TargetMayBeGone(p) == run[p].target => FALSE \in TargetProbe(p)

Goto(p, from, to) == pc[p] = from /\ pc' = [pc EXCEPT ![p] = to]

Init ==
  /\ handoff = [h \in Handoffs |-> "prepared"]
  /\ basis = [h \in Handoffs |-> "current"]
  /\ approval = [h \in Handoffs |-> NoApproval]
  /\ attempt = [p \in Cli |-> "none"]
  /\ run = [p \in Cli |-> NoRun]
  /\ observation = [p \in Cli |-> NoObservation]
  /\ pc = [p \in Cli |-> "start"]
  /\ result = [p \in Cli |-> "none"]
  /\ target = [p \in Cli |-> "none"]
  /\ webConfirm = {}
  /\ recovered = {}

(***************************************************************************)
(* The world the handoff was prepared against: an edit of the task, the    *)
(* source or the binding invalidates the record, and may be undone; fifteen*)
(* minutes invalidate it for good.                                         *)
(***************************************************************************)
Drift(h) ==
  /\ h \in Exposed
  /\ basis[h] # "expired"
  /\ \E b \in {"current", "drifted", "expired"} \ {basis[h]} :
       basis' = [basis EXCEPT ![h] = b]
  /\ UNCHANGED <<store, pc, result, target, webConfirm>>

\* A confirmation replaces the approval: a plan authorized before is gone.
ConfirmTx(h) ==
  /\ Open(h) /\ Current(h)
  /\ handoff' = [handoff EXCEPT ![h] = "confirmed"]
  /\ approval' = [approval EXCEPT ![h] = NoApproval]

WebConfirmRead(h) ==
  /\ h \in Exposed
  /\ h \notin webConfirm /\ Open(h) /\ Current(h)
  /\ webConfirm' = webConfirm \cup {h}
  /\ UNCHANGED <<store, basis, pc, result, target>>

\* After the awaited capture: the transaction, or a refusal without effect.
WebConfirm(h) ==
  /\ h \in webConfirm
  /\ webConfirm' = webConfirm \ {h}
  /\ \/ ConfirmTx(h)
     \/ UNCHANGED <<handoff, approval>>
  /\ UNCHANGED <<attempt, run, observation, recovered, basis, pc, result, target>>

(***************************************************************************)
(* continueHandoff before the claim.  Every failed check, transaction or   *)
(* await in here throws, which ends the process: see Leave.                *)
(***************************************************************************)
BeginReview(p) ==
  /\ Goto(p, "start", "review")
  /\ Open(handoffOf[p]) /\ Current(handoffOf[p])
  /\ UNCHANGED <<store, basis, result, target, webConfirm>>

Cancel(p) ==
  /\ Goto(p, "review", "gone")
  /\ Open(handoffOf[p])
  /\ handoff' = [handoff EXCEPT ![handoffOf[p]] = "cancelled"]
  /\ attempt' = [attempt EXCEPT ![p] = "cancelled"]
  /\ UNCHANGED <<approval, run, observation, recovered, basis, result, target, webConfirm>>

\* CONTINUE typed: reread, rebuild and verify the plan, enter confirmHandoff.
AcceptReview(p) ==
  /\ Goto(p, "review", "capturing")
  /\ Open(handoffOf[p]) /\ Current(handoffOf[p])
  /\ UNCHANGED <<store, basis, result, target, webConfirm>>

Confirm(p) ==
  /\ Goto(p, "capturing", "rehash")
  /\ ConfirmTx(handoffOf[p])
  /\ UNCHANGED <<attempt, run, observation, recovered, basis, result, target, webConfirm>>

AuthorizePlan(p) ==
  /\ Goto(p, "rehash", "authorized")
  /\ handoff[handoffOf[p]] = "confirmed" /\ Current(handoffOf[p])
  /\ approval' = [approval EXCEPT ![handoffOf[p]].plan = p]
  /\ UNCHANGED <<handoff, attempt, run, observation, recovered, basis, result, target, webConfirm>>

ObservationsOf(t) ==
  {q \in Cli : taskOf[handoffOf[q]] = t /\ observation[q].status # "none"}
AssertCapacity(t) == Cardinality(ObservationsOf(t)) < MaxObservations

CheckCapacity(p) ==
  /\ Goto(p, "authorized", "claiming")
  /\ AssertCapacity(taskOf[handoffOf[p]])
  /\ UNCHANGED <<store, basis, result, target, webConfirm>>

Claimable(h) == handoff[h] = "confirmed"
\* Weakened form: any authorized plan will do.
PlanPresent(p) == approval[handoffOf[p]].plan # None
PlanReviewed(p) == approval[handoffOf[p]].plan = p
\* Weakened form: a run of unknown outcome does not occupy its root.
RootNotRunning(p) == \A q \in Cli : SameRoot(p, q) => run[q].state # "running"
RootFree(p) == \A q \in Cli : SameRoot(p, q) => ~Occupying(q)

Claim(p) ==
  LET h == handoffOf[p] IN
  /\ Goto(p, "claiming", "claimed")
  /\ Claimable(h) /\ Current(h) /\ PlanReviewed(p) /\ RootFree(p)
  /\ approval' = [approval EXCEPT ![h].launch = p]
  /\ handoff' = [handoff EXCEPT ![h] = "launching"]
  /\ attempt' = [attempt EXCEPT ![p] = "launching"]
  /\ run' = [run EXCEPT ![p] = [state |-> "running", target |-> FALSE]]
  /\ UNCHANGED <<observation, recovered, basis, result, target, webConfirm>>

(***************************************************************************)
(* After the claim an exception no longer ends the process: it becomes the *)
(* result "unknown", which is carried to finish.                           *)
(***************************************************************************)
\* Weakened form: the exception leaves no result behind.
AbortSilently(p, from) == Goto(p, from, "ending") /\ UNCHANGED <<store, basis, result, target, webConfirm>>
Abort(p, from) ==
  /\ Goto(p, from, "ending")
  /\ result' = [result EXCEPT ![p] = "unknown"]
  /\ UNCHANGED <<store, basis, target, webConfirm>>

\* Weakened form: the capacity is not checked again inside the transaction.
MayStartUnchecked(p) == handoff[handoffOf[p]] = "launching" /\ approval[handoffOf[p]].launch = p
MayStart(p) ==
  /\ handoff[handoffOf[p]] = "launching" /\ approval[handoffOf[p]].launch = p
  /\ AssertCapacity(taskOf[handoffOf[p]])

StartObservation(p) ==
  \/ /\ Goto(p, "claimed", "spawning")
     /\ MayStart(p)
     /\ observation' = [observation EXCEPT ![p] = [status |-> "running", started |-> FALSE]]
     /\ UNCHANGED <<handoff, approval, attempt, run, recovered, basis, result, target, webConfirm>>
  \/ Abort(p, "claimed")

\* runProcess: the child exists before its 'spawn' event is handled.
Spawn(p) ==
  \/ /\ Goto(p, "spawning", "spawned")
     /\ target' = [target EXCEPT ![p] = "alive"]
     /\ UNCHANGED <<store, basis, result, webConfirm>>
  \/ /\ Goto(p, "spawning", "ending")
     /\ result' = [result EXCEPT ![p] = "failed"]
     /\ UNCHANGED <<store, basis, target, webConfirm>>

TargetExit(p) ==
  /\ target[p] = "alive"
  /\ target' = [target EXCEPT ![p] = "dead"]
  /\ UNCHANGED <<store, basis, pc, result, webConfirm>>

RecordTarget(p) ==
  \/ /\ Goto(p, "spawned", "recorded")
     /\ run[p].state = "running"
     /\ run' = [run EXCEPT ![p].target = TRUE]
     /\ UNCHANGED <<handoff, approval, attempt, observation, recovered, basis, result, target, webConfirm>>
  \/ Abort(p, "spawned")

\* ObservationStore.update: only the claiming process, only while running.
MayObserve(p) ==
  /\ observation[p].status = "running"
  /\ run[p].state # "none"
  /\ approval[handoffOf[p]].launch = p

ObserveSpawned(p) ==
  \/ /\ Goto(p, "recorded", "waiting")
     /\ MayObserve(p) /\ ~observation[p].started
     /\ observation' = [observation EXCEPT ![p].started = TRUE]
     /\ UNCHANGED <<handoff, approval, attempt, run, recovered, basis, result, target, webConfirm>>
  \/ Abort(p, "recorded")

Exited(p) == target[p] = "dead"

\* The child's 'exit' event, or an 'error' event while it may be running.
ObserveExit(p) ==
  \/ /\ Goto(p, "waiting", "ending")
     /\ Exited(p)
     /\ \E o \in Outcomes : result' = [result EXCEPT ![p] = o]
     /\ UNCHANGED <<store, basis, target, webConfirm>>
  \/ Abort(p, "waiting")

EvidenceLost(p) == result' = [result EXCEPT ![p] = "unknown"]

FinishObservation(p) ==
  /\ Goto(p, "ending", "finishing")
  /\ \/ /\ MayObserve(p)
        /\ observation' = [observation EXCEPT ![p].status = result[p]]
        /\ UNCHANGED result
     \/ EvidenceLost(p) /\ UNCHANGED observation
  /\ UNCHANGED <<handoff, approval, attempt, run, recovered, basis, target, webConfirm>>

\* Weakened form: a recovered handoff is finished as well.
FinishableOrRecovered(h) == handoff[h] \in {"launching", "unknown", "recovered"}
Finishable(h) == handoff[h] \in {"launching", "unknown"}
\* Weakened form: every finished run gives its workspace back.
AlwaysReleased(res) == "released"
RunStateAfter(res) == IF res = "unknown" THEN "unknown" ELSE "released"

Finish(p) ==
  LET h == handoffOf[p] IN
  /\ Goto(p, "finishing", "gone")
  /\ run[p].state # "none"
  /\ Finishable(h) /\ approval[h].launch = p
  /\ attempt' = [attempt EXCEPT ![p] = result[p]]
  /\ handoff' = [handoff EXCEPT ![h] = result[p]]
  /\ run' = [run EXCEPT ![p].state = RunStateAfter(result[p])]
  /\ UNCHANGED <<approval, observation, recovered, basis, result, target, webConfirm>>

\* A throw outside the two try blocks, a crash, a kill: no effect on the store.
Leave(p) ==
  /\ pc[p] # "gone"
  /\ pc' = [pc EXCEPT ![p] = "gone"]
  /\ UNCHANGED <<store, basis, result, target, webConfirm>>

(***************************************************************************)
(* reconcile, on behalf of the server's GET, of inspect-run and of any     *)
(* other continue: the owner was not recognised as alive.                  *)
(***************************************************************************)
Reconcile(h) ==
  LET p == approval[h].launch IN
  /\ handoff[h] = "launching"
  /\ OwnerMayBeGone(p)
  /\ handoff' = [handoff EXCEPT ![h] = "unknown"]
  /\ attempt' = [attempt EXCEPT ![p] = IF @ = "launching" THEN "unknown" ELSE @]
  /\ run' = [run EXCEPT ![p].state = "unknown"]
  /\ UNCHANGED <<approval, observation, recovered, basis, pc, result, target, webConfirm>>

\* recover-run, after the operator typed RELEASE and the nonce of p's plan.
Recover(p) ==
  LET h == handoffOf[p] IN
  /\ run[p].state = "unknown"
  /\ OwnerMayBeGone(p) /\ TargetMayBeGone(p)
  /\ HonestOperator => target[p] # "alive"
  /\ recovered' = recovered \cup {p}
  /\ run' = [run EXCEPT ![p].state = "released"]
  /\ handoff' = [handoff EXCEPT ![h] = IF @ = "unknown" THEN "recovered" ELSE @]
  /\ UNCHANGED <<approval, attempt, observation, basis, pc, result, target, webConfirm>>

(***************************************************************************)
(* Retention.  Seven and thirty days both exceed a preview's fifteen       *)
(* minutes, so only expired handoffs are old; which of their attempts are  *)
(* also past thirty days is left open.  Deleting an attempt deletes its run*)
(***************************************************************************)
\* Weakened form: an attempt that has ended is old whatever its run is.
RemovableWhenEnded(p) == attempt[p] \notin {"none", "launching", "pruned"}
Removable(p) ==
  /\ attempt[p] \notin {"none", "launching", "pruned"}
  /\ ~Occupying(p)
  /\ handoff[handoffOf[p]] \notin {"launching", "unknown"}

\* Payloads to drop: no attempt that stays behind is unresolved.
Discarded(old, aged) ==
  {h \in old : /\ handoff[h] \notin {"launching", "unknown", "retained"}
               /\ \A p \in Cli \ aged : handoffOf[p] = h => attempt[p] \notin {"launching", "unknown"}}

PruneTx(old, aged) ==
  /\ Discarded(old, aged) \cup aged # {}
  /\ attempt' = [p \in Cli |-> IF p \in aged THEN "pruned" ELSE attempt[p]]
  /\ run' = [p \in Cli |-> IF p \in aged THEN NoRun ELSE run[p]]
  /\ handoff' = [h \in Handoffs |-> IF h \in Discarded(old, aged) THEN "retained" ELSE handoff[h]]
  /\ approval' = [h \in Handoffs |-> IF h \in Discarded(old, aged) THEN NoApproval ELSE approval[h]]
  /\ UNCHANGED <<observation, recovered, basis, pc, result, target, webConfirm>>

Prune ==
  \E old \in SUBSET {h \in Handoffs : basis[h] = "expired"} :
  \E aged \in SUBSET {p \in Cli : handoffOf[p] \in old /\ Removable(p)} :
    PruneTx(old, aged)

\* The steps of p's own event loop from the claim on.
Observer(p) ==
  \/ StartObservation(p) \/ Spawn(p) \/ RecordTarget(p) \/ ObserveSpawned(p)
  \/ ObserveExit(p) \/ FinishObservation(p) \/ Finish(p)

Next ==
  \/ \E p \in Cli :
       \/ BeginReview(p) \/ Cancel(p) \/ AcceptReview(p) \/ Confirm(p)
       \/ AuthorizePlan(p) \/ CheckCapacity(p) \/ Claim(p)
       \/ Observer(p) \/ TargetExit(p) \/ Leave(p) \/ Recover(p)
  \/ \E h \in Handoffs : Drift(h) \/ WebConfirmRead(h) \/ WebConfirm(h) \/ Reconcile(h)
  \/ Prune

Spec == Init /\ [][Next]_vars

(***************************************************************************)
(* Fairness.  A continue process whose event loop runs keeps taking its    *)
(* steps from the claim on (every await in there settles), and the agents  *)
(* it starts do not run for ever.  FairSpec adds an operator who keeps     *)
(* inspecting handoffs and recovering those that may be recovered: nothing *)
(* in the code reconciles on its own.                                      *)
(***************************************************************************)
FairSpec ==
  /\ Spec
  /\ \A p \in Cli : WF_vars(Observer(p)) /\ WF_vars(TargetExit(p)) /\ WF_vars(Recover(p))
  /\ \A h \in Handoffs : WF_vars(Reconcile(h))

(***************************************************************************)
(* Properties                                                              *)
(***************************************************************************)
Pcs == {"start", "review", "capturing", "rehash", "authorized", "claiming", "claimed", "spawning",
        "spawned", "recorded", "waiting", "ending", "finishing", "gone"}
HandoffStates == {"prepared", "confirmed", "launching", "unknown", "recovered", "cancelled", "retained"} \cup Outcomes
AttemptStates == {"none", "launching", "unknown", "cancelled", "pruned"} \cup Outcomes
Results == {"none", "unknown"} \cup Outcomes
Approvals == [plan : Cli \cup {None}, launch : Cli \cup {None}]
RunRows == [state : {"none", "running", "unknown", "released"}, target : BOOLEAN]
ObservationRows == [status : {"running"} \cup Results, started : BOOLEAN]

\* Every table column and every process variable keeps its type, and a
\* process past its observation carries a result to record.
TypeOK ==
  /\ handoff \in [Handoffs -> HandoffStates]
  /\ basis \in [Handoffs -> {"current", "drifted", "expired"}]
  /\ approval \in [Handoffs -> Approvals]
  /\ attempt \in [Cli -> AttemptStates]
  /\ run \in [Cli -> RunRows]
  /\ observation \in [Cli -> ObservationRows]
  /\ pc \in [Cli -> Pcs]
  /\ result \in [Cli -> Results]
  /\ target \in [Cli -> {"none", "alive", "dead"}]
  /\ webConfirm \subseteq Handoffs
  /\ recovered \subseteq Cli
  /\ \A p \in Cli : pc[p] \in {"ending", "finishing"} => result[p] # "none"

\* ADR 0011: at most one attempt of all handoffs that share a workspace root
\* reserves it, through claims, lost owners, recoveries and retention.
ReservationMutex == \A p, q \in Cli : SameRoot(p, q) /\ Occupying(p) /\ Occupying(q) => p = q

\* ADR 0011: only an observed exit or an explicit recovery ends a reservation,
\* so a live agent is covered by one whatever happened to its observer.
LiveTargetReserved == \A p \in Cli : target[p] = "alive" => Occupying(p) \/ p \in recovered

\* With identity probes that recognise a live process and an operator who
\* attests only what is true, two agents never run in one workspace.
OneAgentPerRoot ==
  \A p, q \in Cli : SameRoot(p, q) /\ target[p] = "alive" /\ target[q] = "alive" => p = q

\* ADR 0010: what was launched is the plan that this very terminal showed: no
\* browser confirmation or rival terminal slips another approval under it.
LaunchUsesReviewedPlan ==
  \A p \in Cli : run[p].state # "none" /\ Readable(handoffOf[p])
                   => approval[handoffOf[p]] = [plan |-> p, launch |-> p]

\* A handoff starts at most one agent, whoever confirms or continues it again.
AtMostOneLaunch ==
  \A p, q \in Cli : handoffOf[p] = handoffOf[q] /\ target[p] # "none" /\ target[q] # "none" => p = q

\* Declining the terminal review consumes the handoff: no other terminal that
\* was reviewing it at the time launches it.
DeclineIsFinal ==
  \A p, q \in Cli :
    handoffOf[p] = handoffOf[q] /\ attempt[q] = "cancelled" /\ target[q] = "none" => target[p] = "none"

\* The terminal review decides what becomes of a handoff: the plan it showed
\* runs, once, or declining it means that none ever does.
ReviewDecides == LaunchUsesReviewedPlan /\ AtMostOneLaunch /\ DeclineIsFinal

\* handoffs, launch_attempts and workspace_runs tell the same story, written
\* by claim, finish, reconcile, recover and prune of different processes.
TablesAgree ==
  \A p \in Cli : LET h == handoffOf[p] IN
    /\ run[p].state = "running" => handoff[h] = "launching" /\ attempt[p] = "launching"
    /\ run[p].state = "unknown" => handoff[h] = "unknown" /\ attempt[p] = "unknown"
    /\ run[p].state = "released" /\ Readable(h) =>
         IF p \in recovered THEN handoff[h] = "recovered" /\ attempt[p] = "unknown"
                            ELSE handoff[h] = attempt[p] /\ attempt[p] \in Outcomes
    /\ handoff[h] \in {"launching", "unknown"} => Occupying(approval[h].launch)

\* An attempt settles with an observed outcome only if its execution
\* observation was completed with that same outcome first (launch.ts 41-46).
OutcomeHasEvidence ==
  \A p \in Cli : run[p].state = "released" /\ p \notin recovered => observation[p].status = attempt[p]

\* Execution evidence never says that a process ended which is still alive.
EvidenceOfEnd == \A p \in Cli : observation[p].status \in Outcomes => target[p] # "alive"

\* ADR 0014: at most MaxObservations per task, although the check before the
\* claim and the insert are different transactions of racing processes.
ObservationCapacity == \A h \in Handoffs : Cardinality(ObservationsOf(taskOf[h])) <= MaxObservations

\* Execution evidence can be relied on: it precedes the outcome it supports,
\* it is true of the process, and there is never more of it than a task holds.
ObservationsSound == OutcomeHasEvidence /\ EvidenceOfEnd /\ ObservationCapacity

\* What the tables say of a launch is one story, and the evidence for it.
RecordsAgree == TablesAgree /\ ObservationsSound

\* ADR 0011: recovery never lets the unknown outcome be rewritten, not even
\* by the original observer when it was alive and merely not recognised.
RecoveredStaysUnknown ==
  [][\A p \in recovered :
       /\ attempt'[p] \in {"unknown", "pruned"}
       /\ handoff'[handoffOf[p]] \in {"recovered", "retained"}]_vars

\* No reservation is stuck: with an operator at hand it is eventually free.
ReservationFreed == \A p \in Cli : Occupying(p) ~> ~Occupying(p)

(***************************************************************************)
(* The launch store implements the reservation of workspaces.              *)
(***************************************************************************)
HolderOf(r) == {p \in Cli : rootOf[handoffOf[p]] = r /\ Occupying(p)}
Reservation == INSTANCE WorkspaceReservation WITH
  Roots <- {rootOf[h] : h \in Handoffs},
  Attempts <- Cli,
  Free <- None,
  holder <- [r \in {rootOf[h] : h \in Handoffs} |-> IF HolderOf(r) = {} THEN None ELSE CHOOSE p \in HolderOf(r) : TRUE],
  working <- {p \in Cli : target[p] = "alive"},
  overridden <- recovered

\* Every step of the protocol is a step of the abstract reservation.
ImplementsReservation == Reservation!Spec
===========================================================================
