------------------------ MODULE HandoffLaunch_proofs ------------------------
(* Theorems about HandoffLaunch for any number of handoffs, processes and    *)
(* workspaces, any identity probe and any operator: who holds a workspace,   *)
(* and then what handoffs, launch_attempts, workspace_runs and the execution *)
(* observations say of a launch.  The reviewed plan is the one that ran, the *)
(* tables tell one story, the evidence for it is true, and a recovered       *)
(* attempt is never rewritten.                                               *)
EXTENDS HandoffLaunch, FiniteSetTheorems, TLAPS

(***************************************************************************)
(* Membership facts, so that the sets themselves stay folded below.        *)
(***************************************************************************)
LEMMA PcMembers ==
  /\ "review" \in Pcs /\ "capturing" \in Pcs /\ "rehash" \in Pcs /\ "authorized" \in Pcs
  /\ "claiming" \in Pcs /\ "claimed" \in Pcs /\ "spawning" \in Pcs /\ "spawned" \in Pcs
  /\ "recorded" \in Pcs /\ "waiting" \in Pcs /\ "ending" \in Pcs /\ "finishing" \in Pcs
  /\ "gone" \in Pcs /\ "start" \in Pcs
  BY DEF Pcs

\* The states a launch leads to are states of a handoff, an attempt, a result.
LEMMA StateMembers ==
  /\ {"prepared", "confirmed", "launching", "unknown", "recovered", "cancelled", "retained"} \subseteq HandoffStates
  /\ {"none", "launching", "unknown", "cancelled", "pruned"} \subseteq AttemptStates
  /\ "none" \in Results /\ "unknown" \in Results /\ Outcomes \subseteq Results /\ "failed" \in Results
  /\ \A r \in Results : r # "none" => r \in HandoffStates /\ r \in AttemptStates
  BY LaunchAssumption DEF HandoffStates, AttemptStates, Results

\* Initial and updated rows belong to their types.
LEMMA RowMembers ==
  /\ NoApproval \in Approvals /\ NoRun \in RunRows /\ NoObservation \in ObservationRows
  /\ \A a \in Approvals, p \in Cli : [a EXCEPT !.plan = p] \in Approvals /\ [a EXCEPT !.launch = p] \in Approvals
  /\ [state |-> "running", target |-> FALSE] \in RunRows
  /\ \A r \in RunRows : /\ [r EXCEPT !.target = TRUE] \in RunRows
                        /\ \A s \in {"running", "unknown", "released"} : [r EXCEPT !.state = s] \in RunRows
  /\ [status |-> "running", started |-> FALSE] \in ObservationRows
  /\ \A o \in ObservationRows : /\ [o EXCEPT !.started = TRUE] \in ObservationRows
                                /\ \A s \in Results : [o EXCEPT !.status = s] \in ObservationRows
  BY DEF NoApproval, NoRun, NoObservation, Approvals, RunRows, ObservationRows, Results

\* Every variable keeps its type.
THEOREM TypeCorrect == Spec => []TypeOK
<1>1. Init => TypeOK
  BY PcMembers, StateMembers, RowMembers DEF Init, TypeOK
<1>2. TypeOK /\ [Next]_vars => TypeOK'
  <2> SUFFICES ASSUME TypeOK, [Next]_vars PROVE TypeOK'
    OBVIOUS
  <2> USE LaunchAssumption, PcMembers, StateMembers, RowMembers DEF TypeOK, store, Goto
  <2>1. ASSUME NEW p \in Cli, BeginReview(p) PROVE TypeOK'
    BY <2>1 DEF BeginReview
  <2>2. ASSUME NEW p \in Cli, Cancel(p) PROVE TypeOK'
    BY <2>2 DEF Cancel
  <2>3. ASSUME NEW p \in Cli, AcceptReview(p) PROVE TypeOK'
    BY <2>3 DEF AcceptReview
  <2>4. ASSUME NEW p \in Cli, Confirm(p) PROVE TypeOK'
    BY <2>4 DEF Confirm, ConfirmTx
  <2>5. ASSUME NEW p \in Cli, AuthorizePlan(p) PROVE TypeOK'
    BY <2>5 DEF AuthorizePlan
  <2>6. ASSUME NEW p \in Cli, CheckCapacity(p) PROVE TypeOK'
    BY <2>6 DEF CheckCapacity
  <2>7. ASSUME NEW p \in Cli, Claim(p) PROVE TypeOK'
    BY <2>7 DEF Claim
  <2>8. ASSUME NEW p \in Cli, NEW from, Abort(p, from) PROVE TypeOK'
    <3>1. pc' \in [Cli -> Pcs] /\ result' \in [Cli -> Results]
      BY <2>8 DEF Abort
    <3>2. \A q \in Cli : pc'[q] \in {"ending", "finishing"} => result'[q] # "none"
      BY <2>8 DEF Abort
    <3> QED
      BY <2>8, <3>1, <3>2 DEF Abort
  <2>9. ASSUME NEW p \in Cli, StartObservation(p) PROVE TypeOK'
    <3>1. CASE Abort(p, "claimed")
      BY <3>1, <2>8
    <3>2. CASE ~Abort(p, "claimed")
      <4>1. /\ pc[p] = "claimed" /\ pc' = [pc EXCEPT ![p] = "spawning"]
            /\ observation' = [observation EXCEPT ![p] = [status |-> "running", started |-> FALSE]]
            /\ UNCHANGED <<handoff, approval, attempt, run, recovered, basis, result, target, webConfirm>>
        BY <2>9, <3>2 DEF StartObservation
      <4>2. observation' \in [Cli -> ObservationRows] /\ pc' \in [Cli -> Pcs]
        BY <4>1
      <4>3. \A q \in Cli : pc'[q] \in {"ending", "finishing"} => result'[q] # "none"
        BY <4>1
      <4> QED
        BY <4>1, <4>2, <4>3
    <3> QED
      BY <3>1, <3>2
  <2>10. ASSUME NEW p \in Cli, Spawn(p) PROVE TypeOK'
    <3>1. CASE Goto(p, "spawning", "spawned")
      BY <2>10, <3>1 DEF Spawn
    <3>2. CASE Goto(p, "spawning", "ending")
      <4>1. "spawned" # "ending" /\ result' = [result EXCEPT ![p] = "failed"]
        BY <2>10, <3>2 DEF Spawn
      <4>2. result' \in [Cli -> Results] /\ pc' \in [Cli -> Pcs]
        BY <4>1, <3>2
      <4>3. \A q \in Cli : pc'[q] \in {"ending", "finishing"} => result'[q] # "none"
        BY <4>1, <3>2
      <4> QED
        BY <2>10, <3>2, <4>2, <4>3 DEF Spawn
    <3> QED
      BY <2>10, <3>1, <3>2 DEF Spawn
  <2>11. ASSUME NEW p \in Cli, RecordTarget(p) PROVE TypeOK'
    <3>1. CASE Abort(p, "spawned")
      BY <3>1, <2>8
    <3>2. CASE ~Abort(p, "spawned")
      <4>1. Goto(p, "spawned", "recorded") /\ run' = [run EXCEPT ![p] = [run[p] EXCEPT !.target = TRUE]]
        BY <2>11, <3>2 DEF RecordTarget
      <4>2. run' \in [Cli -> RunRows]
        BY <4>1
      <4> QED
        BY <2>11, <3>2, <4>1, <4>2 DEF RecordTarget
    <3> QED
      BY <3>1, <3>2
  <2>12. ASSUME NEW p \in Cli, ObserveSpawned(p) PROVE TypeOK'
    <3>1. CASE Abort(p, "recorded")
      BY <3>1, <2>8
    <3>2. CASE ~Abort(p, "recorded")
      <4>1. /\ Goto(p, "recorded", "waiting")
            /\ observation' = [observation EXCEPT ![p] = [observation[p] EXCEPT !.started = TRUE]]
        BY <2>12, <3>2 DEF ObserveSpawned
      <4>2. observation' \in [Cli -> ObservationRows]
        BY <4>1
      <4> QED
        BY <2>12, <3>2, <4>1, <4>2 DEF ObserveSpawned
    <3> QED
      BY <3>1, <3>2
  <2>13. ASSUME NEW p \in Cli, ObserveExit(p) PROVE TypeOK'
    <3>1. CASE Abort(p, "waiting")
      BY <3>1, <2>8
    <3>2. CASE ~Abort(p, "waiting")
      <4>1. PICK o \in Outcomes : result' = [result EXCEPT ![p] = o]
        BY <2>13, <3>2 DEF ObserveExit
      <4>2. o \in Results /\ o # "none"
        BY LaunchAssumption
      <4>3. Goto(p, "waiting", "ending")
        BY <2>13, <3>2 DEF ObserveExit
      <4>4. result' \in [Cli -> Results] /\ pc' \in [Cli -> Pcs]
        BY <4>1, <4>2, <4>3
      <4>5. \A q \in Cli : pc'[q] \in {"ending", "finishing"} => result'[q] # "none"
        BY <4>1, <4>2, <4>3
      <4> QED
        BY <2>13, <3>2, <4>4, <4>5 DEF ObserveExit
    <3> QED
      BY <3>1, <3>2
  <2>14. ASSUME NEW p \in Cli, FinishObservation(p) PROVE TypeOK'
    <3>1. Goto(p, "ending", "finishing") /\ result[p] \in Results /\ result[p] # "none"
      BY <2>14 DEF FinishObservation
    <3>2. CASE observation' = [observation EXCEPT ![p].status = result[p]] /\ UNCHANGED result
      <4>1. observation' = [observation EXCEPT ![p] = [observation[p] EXCEPT !.status = result[p]]]
        BY <3>2
      <4>2. observation' \in [Cli -> ObservationRows]
        BY <3>1, <4>1
      <4>3. pc' \in [Cli -> Pcs] /\ \A q \in Cli : pc'[q] \in {"ending", "finishing"} => result'[q] # "none"
        BY <3>1, <3>2
      <4> QED
        BY <2>14, <3>2, <4>2, <4>3 DEF FinishObservation
    <3>3. CASE result' = [result EXCEPT ![p] = "unknown"] /\ UNCHANGED observation
      <4>1. result' \in [Cli -> Results] /\ \A q \in Cli : result[q] # "none" => result'[q] # "none"
        BY <3>3
      <4>2. pc' \in [Cli -> Pcs] /\ \A q \in Cli : pc'[q] \in {"ending", "finishing"} => result'[q] # "none"
        BY <3>1, <4>1
      <4> QED
        BY <2>14, <3>3, <4>1, <4>2 DEF FinishObservation
    <3> QED
      BY <2>14, <3>2, <3>3 DEF FinishObservation, EvidenceLost
  <2>15. ASSUME NEW p \in Cli, Finish(p) PROVE TypeOK'
    <3>1. Goto(p, "finishing", "gone") /\ result[p] \in HandoffStates /\ result[p] \in AttemptStates
      BY <2>15 DEF Finish
    <3>2. run' = [run EXCEPT ![p] = [run[p] EXCEPT !.state = RunStateAfter(result[p])]]
      BY <2>15 DEF Finish
    <3>3. RunStateAfter(result[p]) \in {"running", "unknown", "released"}
      BY DEF RunStateAfter
    <3>4. run' \in [Cli -> RunRows]
      BY <3>2, <3>3
    <3>5. handoff' \in [Handoffs -> HandoffStates] /\ attempt' \in [Cli -> AttemptStates]
      BY <2>15, <3>1 DEF Finish
    <3>6. pc' \in [Cli -> Pcs] /\ \A q \in Cli : pc'[q] \in {"ending", "finishing"} => result[q] # "none"
      BY <3>1
    <3> QED
      BY <2>15, <3>4, <3>5, <3>6 DEF Finish
  <2>16. ASSUME NEW p \in Cli, TargetExit(p) PROVE TypeOK'
    BY <2>16 DEF TargetExit
  <2>17. ASSUME NEW p \in Cli, Leave(p) PROVE TypeOK'
    BY <2>17 DEF Leave
  <2>18. ASSUME NEW p \in Cli, Recover(p) PROVE TypeOK'
    BY <2>18 DEF Recover
  <2>19. ASSUME NEW h \in Handoffs, Drift(h) PROVE TypeOK'
    BY <2>19 DEF Drift
  <2>20. ASSUME NEW h \in Handoffs, WebConfirmRead(h) PROVE TypeOK'
    BY <2>20 DEF WebConfirmRead
  <2>21. ASSUME NEW h \in Handoffs, WebConfirm(h) PROVE TypeOK'
    <3>1. CASE ConfirmTx(h)
      BY <2>21, <3>1 DEF WebConfirm, ConfirmTx
    <3>2. CASE UNCHANGED <<handoff, approval>>
      BY <2>21, <3>2 DEF WebConfirm
    <3> QED
      BY <2>21, <3>1, <3>2 DEF WebConfirm
  <2>22. ASSUME NEW h \in Handoffs, Reconcile(h) PROVE TypeOK'
    BY <2>22 DEF Reconcile
  <2>23. CASE Prune
    <3>1. PICK old, aged : PruneTx(old, aged)
      BY <2>23 DEF Prune
    <3>2. run' \in [Cli -> RunRows] /\ attempt' \in [Cli -> AttemptStates]
      BY <3>1 DEF PruneTx
    <3>3. handoff' \in [Handoffs -> HandoffStates] /\ approval' \in [Handoffs -> Approvals]
      BY <3>1 DEF PruneTx
    <3> QED
      BY <3>1, <3>2, <3>3 DEF PruneTx
  <2>24. CASE UNCHANGED vars
    BY <2>24 DEF vars
  <2> QED
    BY <2>1, <2>2, <2>3, <2>4, <2>5, <2>6, <2>7, <2>9, <2>10, <2>11, <2>12, <2>13, <2>14, <2>15,
       <2>16, <2>17, <2>18, <2>19, <2>20, <2>21, <2>22, <2>23, <2>24 DEF Next, Observer
<1> QED
  BY <1>1, <1>2, PTL DEF Spec

(***************************************************************************)
(* Mutual exclusion.  ReservationMutex alone is not inductive: reconcile   *)
(* and finish write the row that approval.launch names, so that row must   *)
(* still hold the reservation, and recover settles a handoff from its row, *)
(* so a row that holds one must be the row its handoff names.              *)
(***************************************************************************)
RunsOwned ==
  \A p \in Cli : Occupying(p) =>
    /\ approval[handoffOf[p]].launch = p
    /\ handoff[handoffOf[p]] = IF run[p].state = "running" THEN "launching" ELSE "unknown"

LaunchOccupies ==
  \A h \in Handoffs : handoff[h] \in {"launching", "unknown"} =>
    /\ approval[h].launch \in Cli /\ handoffOf[approval[h].launch] = h
    /\ Occupying(approval[h].launch)

ReservationInv == ReservationMutex /\ RunsOwned /\ LaunchOccupies

\* Steps that leave runs and handoffs alone keep the reservations.
LEMMA ReservationFrame ==
  ASSUME ReservationInv, UNCHANGED <<handoff, approval, run>>
  PROVE ReservationInv'
  BY DEF ReservationInv, ReservationMutex, RunsOwned, LaunchOccupies, Occupying, SameRoot

\* A confirmation frees or occupies nothing.
LEMMA ConfirmKeepsReservation ==
  ASSUME TypeOK, ReservationInv, NEW h \in Handoffs, ConfirmTx(h), UNCHANGED run
  PROVE ReservationInv'
<1>1. \A p \in Cli : Occupying(p)' <=> Occupying(p)
  BY DEF Occupying
<1>2. \A p \in Cli : Occupying(p) => handoffOf[p] # h
  BY DEF ReservationInv, RunsOwned, ConfirmTx, Open
<1>3. handoff' = [handoff EXCEPT ![h] = "confirmed"] /\ \A g \in Handoffs \ {h} : approval'[g] = approval[g]
  BY DEF ConfirmTx, TypeOK
<1>4. ReservationMutex'
  BY <1>1 DEF ReservationInv, ReservationMutex, SameRoot
<1>5. RunsOwned'
  BY <1>1, <1>2, <1>3, LaunchAssumption DEF ReservationInv, RunsOwned, TypeOK
<1>6. LaunchOccupies'
  <2> SUFFICES ASSUME NEW g \in Handoffs, handoff'[g] \in {"launching", "unknown"}
               PROVE /\ approval'[g].launch \in Cli /\ handoffOf[approval'[g].launch] = g
                     /\ Occupying(approval[g].launch)'
    BY DEF LaunchOccupies
  <2>1. g # h /\ handoff[g] = handoff'[g] /\ approval[g] = approval'[g]
    BY <1>3 DEF TypeOK
  <2> QED
    BY <1>1, <2>1 DEF ReservationInv, LaunchOccupies
<1> QED
  BY <1>4, <1>5, <1>6 DEF ReservationInv

\* Reservations, the handoffs they serve and the launch a handoff names agree.
THEOREM ReservationInvariant == Spec => []ReservationInv
<1>1. Init => ReservationInv
  BY LaunchAssumption DEF Init, ReservationInv, ReservationMutex, RunsOwned, LaunchOccupies, Occupying, NoRun, NoApproval
<1>2. TypeOK /\ ReservationInv /\ [Next]_vars => ReservationInv'
  <2> SUFFICES ASSUME TypeOK, ReservationInv, [Next]_vars PROVE ReservationInv'
    OBVIOUS
  <2> USE LaunchAssumption
  <2>1. ASSUME NEW p \in Cli, Cancel(p) PROVE ReservationInv'
    BY <2>1 DEF Cancel, Open, ReservationInv, ReservationMutex, RunsOwned, LaunchOccupies, Occupying, SameRoot, TypeOK
  <2>2. ASSUME NEW p \in Cli, Confirm(p) PROVE ReservationInv'
    BY <2>2, ConfirmKeepsReservation DEF Confirm
  <2>3. ASSUME NEW h \in Handoffs, WebConfirm(h) PROVE ReservationInv'
    BY <2>3, ConfirmKeepsReservation, ReservationFrame DEF WebConfirm
  <2>4. ASSUME NEW p \in Cli, AuthorizePlan(p) PROVE ReservationInv'
    <3>1. \A h \in Handoffs : approval'[h].launch = approval[h].launch
      BY <2>4 DEF AuthorizePlan, TypeOK, Approvals
    <3> QED
      BY <2>4, <3>1 DEF AuthorizePlan, ReservationInv, ReservationMutex, RunsOwned, LaunchOccupies, Occupying, SameRoot
  <2>5. ASSUME NEW p \in Cli, Claim(p) PROVE ReservationInv'
    <3> DEFINE h == handoffOf[p]
    <3>1. h \in Handoffs /\ handoff[h] = "confirmed" /\ RootFree(p)
      BY <2>5 DEF Claim, Claimable
    <3>2. /\ handoff' = [handoff EXCEPT ![h] = "launching"]
          /\ run' = [run EXCEPT ![p] = [state |-> "running", target |-> FALSE]]
          /\ approval' = [approval EXCEPT ![h].launch = p]
      BY <2>5 DEF Claim
    <3>3. \A q \in Cli \ {p} : run'[q] = run[q]
      BY <3>2 DEF TypeOK
    <3>4. run'[p].state = "running"
      BY <3>2 DEF TypeOK
    <3>5. \A q \in Cli : Occupying(q) => q # p /\ handoffOf[q] # h
      BY <3>1 DEF ReservationInv, RunsOwned
    <3>6. approval'[h].launch = p /\ \A g \in Handoffs \ {h} : approval'[g] = approval[g]
      BY <3>1, <3>2 DEF TypeOK, Approvals
    <3>7. handoff'[h] = "launching" /\ \A g \in Handoffs \ {h} : handoff'[g] = handoff[g]
      BY <3>1, <3>2 DEF TypeOK
    <3>8. ReservationMutex'
      BY <3>1, <3>3 DEF RootFree, SameRoot, Occupying, ReservationInv, ReservationMutex
    <3>9. RunsOwned'
      BY <3>3, <3>4, <3>5, <3>6, <3>7 DEF ReservationInv, RunsOwned, Occupying
    <3>10. LaunchOccupies'
      <4> SUFFICES ASSUME NEW g \in Handoffs, handoff'[g] \in {"launching", "unknown"}
                   PROVE /\ approval'[g].launch \in Cli /\ handoffOf[approval'[g].launch] = g
                         /\ Occupying(approval[g].launch)'
        BY DEF LaunchOccupies
      <4>1. CASE g = h
        BY <4>1, <3>4, <3>6 DEF Occupying
      <4>2. CASE g # h
        BY <4>2, <3>3, <3>5, <3>6, <3>7 DEF ReservationInv, LaunchOccupies, Occupying
      <4> QED
        BY <4>1, <4>2
    <3> QED
      BY <3>8, <3>9, <3>10 DEF ReservationInv
  <2>6. ASSUME NEW p \in Cli, RecordTarget(p) PROVE ReservationInv'
    <3>1. CASE Abort(p, "spawned")
      BY <3>1, ReservationFrame DEF Abort, store
    <3>2. CASE ~Abort(p, "spawned")
      <4>1. \A q \in Cli : run'[q].state = run[q].state
        BY <2>6, <3>2 DEF RecordTarget, TypeOK, RunRows
      <4> QED
        BY <2>6, <3>2, <4>1 DEF RecordTarget, ReservationInv, ReservationMutex, RunsOwned, LaunchOccupies, Occupying, SameRoot
    <3> QED
      BY <3>1, <3>2

  <2>7. ASSUME NEW p \in Cli, Finish(p) PROVE ReservationInv'
    <3> DEFINE h == handoffOf[p]
    <3>1. h \in Handoffs /\ handoff[h] \in {"launching", "unknown"} /\ approval[h].launch = p
      BY <2>7 DEF Finish, Finishable
    <3>2. Occupying(p) /\ \A q \in Cli \ {p} : run'[q] = run[q]
      BY <2>7, <3>1 DEF Finish, TypeOK, ReservationInv, LaunchOccupies
    <3>3. /\ handoff'[h] = result[p] /\ \A g \in Handoffs \ {h} : handoff'[g] = handoff[g]
          /\ run'[p].state = RunStateAfter(result[p]) /\ approval' = approval
      BY <2>7, <3>1 DEF Finish, TypeOK, RunRows
    <3>4. result[p] \in Results /\ "launching" \notin Results
      BY DEF TypeOK, Results
    <3>5. \A q \in Cli \ {p} : Occupying(q) => handoffOf[q] # h
      BY <3>1 DEF ReservationInv, RunsOwned
    <3>6. ReservationMutex'
      BY <3>2 DEF ReservationInv, ReservationMutex, SameRoot, Occupying
    <3>7. RunsOwned'
      BY <3>1, <3>2, <3>3, <3>5 DEF ReservationInv, RunsOwned, Occupying, RunStateAfter
    <3>8. LaunchOccupies'
      <4> SUFFICES ASSUME NEW g \in Handoffs, handoff'[g] \in {"launching", "unknown"}
                   PROVE /\ approval[g].launch \in Cli /\ handoffOf[approval[g].launch] = g
                         /\ Occupying(approval[g].launch)'
        BY <3>3 DEF LaunchOccupies
      <4>1. CASE g = h
        BY <4>1, <3>1, <3>3, <3>4 DEF Occupying, RunStateAfter
      <4>2. CASE g # h
        BY <4>2, <3>1, <3>2, <3>3 DEF ReservationInv, LaunchOccupies, Occupying
      <4> QED
        BY <4>1, <4>2
    <3> QED
      BY <3>6, <3>7, <3>8 DEF ReservationInv
  <2>8. ASSUME NEW p \in Cli, Recover(p) PROVE ReservationInv'
    <3> DEFINE h == handoffOf[p]
    <3>1. h \in Handoffs /\ handoff[h] = "unknown" /\ approval[h].launch = p
      BY <2>8 DEF Recover, ReservationInv, RunsOwned, Occupying
    <3>2. /\ handoff'[h] = "recovered" /\ \A g \in Handoffs \ {h} : handoff'[g] = handoff[g]
          /\ run'[p].state = "released" /\ \A q \in Cli \ {p} : run'[q] = run[q]
          /\ approval' = approval
      BY <2>8, <3>1 DEF Recover, TypeOK, RunRows
    <3>3. \A q \in Cli : Occupying(q)' => Occupying(q) /\ handoffOf[q] # h
      BY <3>1, <3>2 DEF Occupying, ReservationInv, RunsOwned
    <3>4. ReservationMutex'
      BY <3>3 DEF ReservationInv, ReservationMutex, SameRoot
    <3>5. RunsOwned'
      BY <3>2, <3>3 DEF ReservationInv, RunsOwned, Occupying
    <3>6. LaunchOccupies'
      BY <3>1, <3>2 DEF ReservationInv, LaunchOccupies, Occupying
    <3> QED
      BY <3>4, <3>5, <3>6 DEF ReservationInv
  <2>9. ASSUME NEW h \in Handoffs, Reconcile(h) PROVE ReservationInv'
    <3> DEFINE p == approval[h].launch
    <3>1. p \in Cli /\ handoffOf[p] = h /\ Occupying(p) /\ handoff[h] = "launching"
      BY <2>9 DEF Reconcile, ReservationInv, LaunchOccupies
    <3>2. /\ handoff'[h] = "unknown" /\ \A g \in Handoffs \ {h} : handoff'[g] = handoff[g]
          /\ run'[p].state = "unknown" /\ \A q \in Cli \ {p} : run'[q] = run[q]
          /\ approval' = approval
      BY <2>9, <3>1 DEF Reconcile, TypeOK, RunRows
    <3>3. \A q \in Cli : Occupying(q)' <=> Occupying(q)
      BY <3>1, <3>2 DEF Occupying
    <3>4. \A q \in Cli \ {p} : Occupying(q) => handoffOf[q] # h
      BY <3>1 DEF ReservationInv, RunsOwned
    <3>5. ReservationMutex'
      BY <3>3 DEF ReservationInv, ReservationMutex, SameRoot
    <3>6. RunsOwned'
      BY <3>1, <3>2, <3>3, <3>4 DEF ReservationInv, RunsOwned
    <3>7. LaunchOccupies'
      BY <3>1, <3>2, <3>3 DEF ReservationInv, LaunchOccupies
    <3> QED
      BY <3>5, <3>6, <3>7 DEF ReservationInv
  <2>10. CASE Prune
    <3>1. PICK old \in SUBSET Handoffs, aged \in SUBSET {p \in Cli : Removable(p)} : PruneTx(old, aged)
      BY <2>10 DEF Prune
    <3>2. \A p \in Cli : Occupying(p) => run'[p] = run[p]
      BY <3>1 DEF PruneTx, Removable
    <3>3. \A p \in Cli : Occupying(p)' => Occupying(p)
      BY <3>1 DEF PruneTx, Occupying, NoRun
    <3>4. \A h \in Handoffs : handoff[h] \in {"launching", "unknown"}
                                => handoff'[h] = handoff[h] /\ approval'[h] = approval[h]
      BY <3>1 DEF PruneTx, Discarded
    <3>5. \A h \in Handoffs : handoff'[h] \in {"launching", "unknown"} => handoff[h] = handoff'[h]
      BY <3>1 DEF PruneTx
    <3>6. ReservationMutex'
      BY <3>3 DEF ReservationInv, ReservationMutex, SameRoot
    <3>7. RunsOwned'
      BY <3>2, <3>3, <3>4 DEF ReservationInv, RunsOwned
    <3>8. LaunchOccupies'
      BY <3>2, <3>4, <3>5 DEF ReservationInv, LaunchOccupies, Occupying
    <3> QED
      BY <3>6, <3>7, <3>8 DEF ReservationInv
  <2>11. ASSUME NEW p \in Cli, BeginReview(p) \/ AcceptReview(p) \/ CheckCapacity(p) \/ TargetExit(p) \/ Leave(p)
         PROVE ReservationInv'
    BY <2>11, ReservationFrame DEF BeginReview, AcceptReview, CheckCapacity, TargetExit, Leave, store
  <2>12. ASSUME NEW p \in Cli,
                StartObservation(p) \/ Spawn(p) \/ ObserveSpawned(p) \/ ObserveExit(p) \/ FinishObservation(p)
         PROVE ReservationInv'
    BY <2>12, ReservationFrame DEF StartObservation, Spawn, ObserveSpawned, ObserveExit, FinishObservation, Abort, store
  <2>13. ASSUME NEW h \in Handoffs, Drift(h) \/ WebConfirmRead(h) PROVE ReservationInv'
    BY <2>13, ReservationFrame DEF Drift, WebConfirmRead, store
  <2>14. CASE UNCHANGED vars
    BY <2>14, ReservationFrame DEF vars, store
  <2> QED
    BY <2>1, <2>2, <2>3, <2>4, <2>5, <2>6, <2>7, <2>8, <2>9, <2>10, <2>11, <2>12, <2>13, <2>14 DEF Next, Observer
<1> QED
  BY <1>1, <1>2, TypeCorrect, PTL DEF Spec

\* ADR 0011: no two attempts ever reserve the same workspace root.
THEOREM MutualExclusion == Spec => []ReservationMutex
<1>1. ReservationInv => ReservationMutex
  BY DEF ReservationInv
<1> QED
  BY <1>1, ReservationInvariant, PTL

(***************************************************************************)
(* A live target is covered by a reservation.  The strengthening follows   *)
(* its process: before the spawn there is no target, from the claim on the *)
(* process is covered, and a result other than "unknown" is only carried   *)
(* once no target is alive, so that finish may release.                    *)
(***************************************************************************)
Covered(p) == Occupying(p) \/ p \in recovered

ObserverInv ==
  \A p \in Cli :
    /\ pc[p] \in {"start", "review", "capturing", "rehash", "authorized", "claiming", "claimed", "spawning"}
         => target[p] = "none"
    /\ pc[p] \in {"claimed", "spawning", "spawned", "recorded", "waiting", "ending", "finishing"} => Covered(p)
    /\ pc[p] \in {"ending", "finishing"} /\ result[p] # "unknown" => target[p] # "alive"
    /\ target[p] = "alive" => Covered(p)

\* The observer keeps its target covered, and its result waits for the target.
THEOREM ObserverInvariant == Spec => []ObserverInv
<1>1. Init => ObserverInv
  BY DEF Init, ObserverInv
<1>2. TypeOK /\ ReservationInv /\ ObserverInv /\ [Next]_vars => ObserverInv'
  <2> SUFFICES ASSUME TypeOK, ReservationInv, ObserverInv, [Next]_vars PROVE ObserverInv'
    OBVIOUS
  <2> USE LaunchAssumption
  <2>1. ASSUME UNCHANGED <<run, recovered, pc, result, target>> PROVE ObserverInv'
    BY <2>1 DEF ObserverInv, Covered, Occupying
  <2>2. ASSUME NEW p \in Cli, BeginReview(p) \/ AcceptReview(p) \/ Confirm(p) \/ AuthorizePlan(p) \/ CheckCapacity(p) \/ Cancel(p)
        PROVE ObserverInv'
    <3>1. UNCHANGED <<run, recovered, result, target>>
      BY <2>2 DEF BeginReview, AcceptReview, Confirm, AuthorizePlan, CheckCapacity, Cancel, store
    <3>2. /\ pc[p] \in {"start", "review", "capturing", "rehash", "authorized"}
          /\ pc'[p] \in {"review", "capturing", "rehash", "authorized", "claiming", "gone"}
          /\ \A q \in Cli \ {p} : pc'[q] = pc[q]
      BY <2>2 DEF BeginReview, AcceptReview, Confirm, AuthorizePlan, CheckCapacity, Cancel, Goto, TypeOK
    <3> QED
      BY <3>1, <3>2 DEF ObserverInv, Covered, Occupying
  <2>3. ASSUME NEW p \in Cli, Claim(p) PROVE ObserverInv'
    <3>1. /\ UNCHANGED <<recovered, result, target>>
          /\ run'[p].state = "running" /\ \A q \in Cli \ {p} : run'[q] = run[q]
          /\ pc[p] = "claiming" /\ pc'[p] = "claimed" /\ \A q \in Cli \ {p} : pc'[q] = pc[q]
      BY <2>3 DEF Claim, Goto, TypeOK
    <3> QED
      BY <3>1 DEF ObserverInv, Covered, Occupying
  <2>4. ASSUME NEW p \in Cli, NEW from \in {"claimed", "spawned", "recorded", "waiting"}, Abort(p, from)
        PROVE ObserverInv'
    <3>1. /\ UNCHANGED <<run, recovered, target>>
          /\ result'[p] = "unknown" /\ \A q \in Cli \ {p} : result'[q] = result[q]
          /\ pc[p] = from /\ pc'[p] = "ending" /\ \A q \in Cli \ {p} : pc'[q] = pc[q]
      BY <2>4 DEF Abort, Goto, TypeOK, store
    <3> QED
      BY <3>1 DEF ObserverInv, Covered, Occupying
  <2>5. ASSUME NEW p \in Cli, StartObservation(p) \/ ObserveSpawned(p) PROVE ObserverInv'
    <3>1. CASE Abort(p, "claimed") \/ Abort(p, "recorded")
      BY <3>1, <2>4
    <3>2. CASE ~(Abort(p, "claimed") \/ Abort(p, "recorded"))
      <4>1. /\ UNCHANGED <<run, recovered, result, target>>
            /\ \/ pc[p] = "claimed" /\ pc'[p] = "spawning"
               \/ pc[p] = "recorded" /\ pc'[p] = "waiting"
            /\ \A q \in Cli \ {p} : pc'[q] = pc[q]
        BY <2>5, <3>2 DEF StartObservation, ObserveSpawned, Goto, TypeOK
      <4> QED
        BY <4>1 DEF ObserverInv, Covered, Occupying
    <3> QED
      BY <3>1, <3>2
  <2>6. ASSUME NEW p \in Cli, Spawn(p) PROVE ObserverInv'
    <3>1. /\ UNCHANGED <<run, recovered>> /\ pc[p] = "spawning" /\ target[p] = "none"
          /\ \A q \in Cli \ {p} : pc'[q] = pc[q] /\ target'[q] = target[q] /\ result'[q] = result[q]
      BY <2>6 DEF Spawn, Goto, TypeOK, store, ObserverInv
    <3>2. \/ pc'[p] = "spawned"
          \/ pc'[p] = "ending" /\ target'[p] = target[p]
      BY <2>6 DEF Spawn, Goto, TypeOK
    <3> QED
      BY <3>1, <3>2 DEF ObserverInv, Covered, Occupying
  <2>7. ASSUME NEW p \in Cli, RecordTarget(p) PROVE ObserverInv'
    <3>1. CASE Abort(p, "spawned")
      BY <3>1, <2>4
    <3>2. CASE ~Abort(p, "spawned")
      <4>1. /\ UNCHANGED <<recovered, result, target>> /\ \A q \in Cli : run'[q].state = run[q].state
            /\ pc[p] = "spawned" /\ pc'[p] = "recorded" /\ \A q \in Cli \ {p} : pc'[q] = pc[q]
        BY <2>7, <3>2 DEF RecordTarget, Goto, TypeOK, RunRows
      <4> QED
        BY <4>1 DEF ObserverInv, Covered, Occupying
    <3> QED
      BY <3>1, <3>2
  <2>8. ASSUME NEW p \in Cli, ObserveExit(p) PROVE ObserverInv'
    <3>1. CASE Abort(p, "waiting")
      BY <3>1, <2>4
    <3>2. CASE ~Abort(p, "waiting")
      <4>1. /\ UNCHANGED <<run, recovered, target>> /\ target[p] = "dead"
            /\ \A q \in Cli \ {p} : result'[q] = result[q] /\ pc'[q] = pc[q]
            /\ pc[p] = "waiting" /\ pc'[p] = "ending"
        BY <2>8, <3>2 DEF ObserveExit, Exited, Goto, TypeOK, store
      <4> QED
        BY <4>1 DEF ObserverInv, Covered, Occupying
    <3> QED
      BY <3>1, <3>2
  <2>9. ASSUME NEW p \in Cli, FinishObservation(p) PROVE ObserverInv'
    <3>1. /\ UNCHANGED <<run, recovered, target>> /\ pc[p] = "ending" /\ pc'[p] = "finishing"
          /\ \A q \in Cli \ {p} : result'[q] = result[q] /\ pc'[q] = pc[q]
          /\ result'[p] \in {result[p], "unknown"}
      BY <2>9 DEF FinishObservation, EvidenceLost, Goto, TypeOK
    <3> QED
      BY <3>1 DEF ObserverInv, Covered, Occupying
  <2>10. ASSUME NEW p \in Cli, Finish(p) PROVE ObserverInv'
    <3>1. /\ UNCHANGED <<recovered, target, result>> /\ pc[p] = "finishing" /\ pc'[p] = "gone"
          /\ \A q \in Cli \ {p} : run'[q] = run[q] /\ pc'[q] = pc[q]
          /\ run'[p].state = IF result[p] = "unknown" THEN "unknown" ELSE "released"
      BY <2>10 DEF Finish, RunStateAfter, Goto, TypeOK, RunRows
    <3>2. result[p] # "unknown" => target[p] # "alive"
      BY <3>1 DEF ObserverInv
    <3> QED
      BY <3>1, <3>2 DEF ObserverInv, Covered, Occupying
  <2>11. ASSUME NEW p \in Cli, TargetExit(p) PROVE ObserverInv'
    <3>1. /\ UNCHANGED <<run, recovered, result, pc>> /\ target[p] = "alive" /\ target'[p] = "dead"
          /\ \A q \in Cli \ {p} : target'[q] = target[q]
      BY <2>11 DEF TargetExit, TypeOK, store
    <3> QED
      BY <3>1 DEF ObserverInv, Covered, Occupying
  <2>12. ASSUME NEW p \in Cli, Leave(p) PROVE ObserverInv'
    <3>1. /\ UNCHANGED <<run, recovered, result, target>> /\ pc'[p] = "gone"
          /\ \A q \in Cli \ {p} : pc'[q] = pc[q]
      BY <2>12 DEF Leave, TypeOK, store
    <3> QED
      BY <3>1 DEF ObserverInv, Covered, Occupying
  <2>13. ASSUME NEW p \in Cli, Recover(p) PROVE ObserverInv'
    <3>1. /\ UNCHANGED <<result, target, pc>> /\ recovered' = recovered \cup {p}
          /\ \A q \in Cli \ {p} : run'[q] = run[q]
      BY <2>13 DEF Recover, TypeOK
    <3> QED
      BY <3>1 DEF ObserverInv, Covered, Occupying
  <2>14. ASSUME NEW h \in Handoffs, Reconcile(h) PROVE ObserverInv'
    <3>1. approval[h].launch \in Cli
      BY <2>14 DEF Reconcile, ReservationInv, LaunchOccupies
    <3>2. /\ UNCHANGED <<result, target, pc, recovered>>
          /\ \A q \in Cli : Occupying(q) => Occupying(q)'
      BY <2>14, <3>1 DEF Reconcile, TypeOK, RunRows, Occupying
    <3> QED
      BY <3>2 DEF ObserverInv, Covered
  <2>15. CASE Prune
    <3>1. PICK old \in SUBSET Handoffs, aged \in SUBSET {p \in Cli : Removable(p)} : PruneTx(old, aged)
      BY <2>15 DEF Prune
    <3>2. /\ UNCHANGED <<result, target, pc, recovered>>
          /\ \A q \in Cli : Occupying(q) => Occupying(q)'
      BY <3>1 DEF PruneTx, Removable, Occupying
    <3> QED
      BY <3>2 DEF ObserverInv, Covered
  <2>16. ASSUME NEW h \in Handoffs, Drift(h) \/ WebConfirmRead(h) \/ WebConfirm(h) PROVE ObserverInv'
    BY <2>1, <2>16 DEF Drift, WebConfirmRead, WebConfirm, store
  <2>17. CASE UNCHANGED vars
    BY <2>1, <2>17 DEF vars, store
  <2> QED
    BY <2>2, <2>3, <2>5, <2>6, <2>7, <2>8, <2>9, <2>10, <2>11, <2>12, <2>13, <2>14, <2>15, <2>16, <2>17 DEF Next, Observer
<1> QED
  BY <1>1, <1>2, TypeCorrect, ReservationInvariant, PTL DEF Spec

\* ADR 0011: a live agent is covered by its reservation or by a recovery.
THEOREM TargetsCovered == Spec => []LiveTargetReserved
<1>1. ObserverInv => LiveTargetReserved
  BY DEF ObserverInv, LiveTargetReserved, Covered
<1> QED
  BY <1>1, ObserverInvariant, PTL

-----------------------------------------------------------------------------
(* What handoffs, launch_attempts, workspace_runs and the execution           *)
(* observations say of a launch, for any number of handoffs and terminals:    *)
(* the reviewed plan is the one that ran, the tables tell one story, the      *)
(* evidence for it is true, and a recovered attempt is never rewritten.       *)
\* A process has claimed its handoff, and it has been declined in its terminal.
Owning == {"claimed", "spawning", "spawned", "recorded", "waiting", "ending", "finishing"}
Claimed(p) == run[p].state # "none" \/ target[p] # "none" \/ pc[p] \in Owning
Declined(p) == attempt[p] = "cancelled" /\ target[p] = "none"

\* A handoff that was claimed or declined is never open again, which is what
\* keeps the confirmations that race with it away from its approval.
ReviewInv ==
  /\ \A p \in Cli : Claimed(p) \/ Declined(p) => ~Open(handoffOf[p])
  /\ \A p \in Cli : result[p] = "cancelled" => target[p] # "none"
  /\ \A p, q \in Cli : handoffOf[p] = handoffOf[q] /\ Claimed(p) => (Claimed(q) => p = q) /\ ~Declined(q)
  /\ LaunchUsesReviewedPlan

\* A handoff whose attempt was recovered is closed to every other step.
RecoveredInv ==
  \A p \in recovered :
    attempt[p] \in {"unknown", "pruned"} /\ handoff[handoffOf[p]] \in {"recovered", "retained"}

\* Only the process itself ends its observation, on its way to finish, and it
\* ends its run only after that.
EvidenceInv ==
  \A p \in Cli :
    /\ run[p].state = "released" /\ p \notin recovered
         => pc[p] = "gone" /\ observation[p].status = attempt[p] /\ attempt[p] \in Outcomes
    /\ pc[p] = "finishing" /\ result[p] # "unknown" => observation[p].status = result[p]
    /\ observation[p].status \in Outcomes => target[p] # "alive" /\ pc[p] \in {"finishing", "gone"}

RecordsInv ==
  /\ TypeOK /\ ReservationInv /\ ObserverInv
  /\ ReviewInv /\ TablesAgree /\ RecoveredInv /\ EvidenceInv

-----------------------------------------------------------------------------
(* What the steps that several of the proofs need do to the tables           *)

\* What a claim changes, and what it found.
LEMMA ClaimEffect ==
  ASSUME TypeOK, NEW p \in Cli, Claim(p)
  PROVE  /\ handoff[handoffOf[p]] = "confirmed" /\ handoff'[handoffOf[p]] = "launching"
         /\ \A h \in Handoffs \ {handoffOf[p]} : handoff'[h] = handoff[h] /\ approval'[h] = approval[h]
         /\ attempt'[p] = "launching" /\ run'[p].state = "running" /\ pc[p] = "claiming" /\ pc'[p] = "claimed"
         /\ \A q \in Cli \ {p} : attempt'[q] = attempt[q] /\ run'[q] = run[q] /\ pc'[q] = pc[q]
         /\ UNCHANGED <<observation, recovered, result, target>>
<1>1. handoffOf[p] \in Handoffs
  BY LaunchAssumption
<1> QED BY <1>1 DEF Claim, Claimable, Goto, TypeOK

\* What is launched is the plan that the claiming process had authorized.
LEMMA ClaimApproval ==
  ASSUME TypeOK, NEW p \in Cli, Claim(p)
  PROVE  approval'[handoffOf[p]] = [plan |-> p, launch |-> p]
<1>1. handoffOf[p] \in Handoffs
  BY LaunchAssumption
<1> QED BY <1>1 DEF Claim, PlanReviewed, TypeOK, Approvals

\* What the record of a target changes.
LEMMA RecordTargetEffect ==
  ASSUME TypeOK, NEW p \in Cli, RecordTarget(p)
  PROVE  /\ UNCHANGED <<handoff, approval, attempt, observation, recovered, target>>
         /\ \A q \in Cli : run'[q].state = run[q].state
         /\ \/ pc[p] = "spawned" /\ pc'[p] = "recorded" /\ UNCHANGED result
            \/ pc[p] = "spawned" /\ pc'[p] = "ending" /\ result'[p] = "unknown"
         /\ \A q \in Cli \ {p} : pc'[q] = pc[q] /\ result'[q] = result[q]
<1>1. CASE Abort(p, "spawned")
  BY <1>1 DEF Abort, Goto, TypeOK, store
<1>2. CASE ~Abort(p, "spawned")
  <2>1. /\ pc[p] = "spawned" /\ pc' = [pc EXCEPT ![p] = "recorded"] /\ run' = [run EXCEPT ![p].target = TRUE]
        /\ UNCHANGED <<handoff, approval, attempt, observation, recovered, result, target>>
    BY <1>2 DEF RecordTarget, Goto
  <2>2. \A q \in Cli : run'[q].state = run[q].state
    BY <2>1 DEF TypeOK, RunRows
  <2> QED BY <2>1, <2>2 DEF TypeOK
<1> QED BY <1>1, <1>2

\* What finish changes, and what it found.
LEMMA FinishEffect ==
  ASSUME TypeOK, NEW p \in Cli, Finish(p)
  PROVE  /\ handoff[handoffOf[p]] \in {"launching", "unknown"} /\ approval[handoffOf[p]].launch = p
         /\ handoff'[handoffOf[p]] = result[p] /\ attempt'[p] = result[p]
         /\ result[p] \in Outcomes \cup {"unknown"}
         /\ run[p].state # "none" /\ run'[p].state = IF result[p] = "unknown" THEN "unknown" ELSE "released"
         /\ pc[p] = "finishing" /\ pc'[p] = "gone"
         /\ \A h \in Handoffs \ {handoffOf[p]} : handoff'[h] = handoff[h]
         /\ \A q \in Cli \ {p} : attempt'[q] = attempt[q] /\ run'[q] = run[q] /\ pc'[q] = pc[q]
         /\ UNCHANGED <<approval, observation, recovered, result, target>>
<1>1. handoffOf[p] \in Handoffs
  BY LaunchAssumption
<1> QED BY <1>1 DEF Finish, Finishable, RunStateAfter, Goto, TypeOK, Results, RunRows

\* What a recovery changes, and what it found.
LEMMA RecoverEffect ==
  ASSUME TypeOK, NEW p \in Cli, Recover(p)
  PROVE  /\ run[p].state = "unknown" /\ run'[p].state = "released" /\ recovered' = recovered \cup {p}
         /\ handoff'[handoffOf[p]] = IF handoff[handoffOf[p]] = "unknown" THEN "recovered" ELSE handoff[handoffOf[p]]
         /\ \A h \in Handoffs \ {handoffOf[p]} : handoff'[h] = handoff[h]
         /\ \A q \in Cli \ {p} : run'[q] = run[q]
         /\ UNCHANGED <<approval, attempt, observation, pc, result, target>>
<1>1. handoffOf[p] \in Handoffs
  BY LaunchAssumption
<1> QED BY <1>1 DEF Recover, TypeOK, RunRows

\* What a reconciliation changes, and what it found.
LEMMA ReconcileEffect ==
  ASSUME TypeOK, ReservationInv, NEW h \in Handoffs, Reconcile(h)
  PROVE  LET p == approval[h].launch IN
         /\ p \in Cli /\ handoffOf[p] = h /\ handoff[h] = "launching" /\ handoff'[h] = "unknown"
         /\ run[p].state = "running" /\ run'[p].state = "unknown"
         /\ attempt'[p] = IF attempt[p] = "launching" THEN "unknown" ELSE attempt[p]
         /\ \A g \in Handoffs \ {h} : handoff'[g] = handoff[g]
         /\ \A q \in Cli \ {p} : attempt'[q] = attempt[q] /\ run'[q] = run[q]
         /\ UNCHANGED <<approval, observation, recovered, pc, result, target>>
<1>1. approval[h].launch \in Cli /\ handoffOf[approval[h].launch] = h /\ run[approval[h].launch].state = "running"
  BY DEF Reconcile, ReservationInv, LaunchOccupies, RunsOwned, Occupying
<1> QED BY <1>1 DEF Reconcile, TypeOK, RunRows

\* Retention drops finished attempts and closed handoffs, and leaves the rest.
LEMMA PruneEffect ==
  ASSUME TypeOK, Prune
  PROVE  /\ \A h \in Handoffs :
              \/ handoff'[h] = handoff[h] /\ approval'[h] = approval[h]
              \/ handoff'[h] = "retained" /\ handoff[h] \notin {"launching", "unknown"}
         /\ \A p \in Cli :
              \/ attempt'[p] = attempt[p] /\ run'[p] = run[p]
              \/ attempt'[p] = "pruned" /\ run'[p].state = "none" /\ ~Occupying(p)
         /\ UNCHANGED <<observation, recovered, pc, result, target>>
  BY DEF Prune, PruneTx, Discarded, Removable, NoRun, TypeOK

\* What a confirmation changes, and what it found.
LEMMA ConfirmEffect ==
  ASSUME TypeOK, NEW h \in Handoffs, ConfirmTx(h)
  PROVE  /\ Open(h) /\ handoff'[h] = "confirmed"
         /\ \A g \in Handoffs \ {h} : handoff'[g] = handoff[g] /\ approval'[g] = approval[g]
  BY DEF ConfirmTx, TypeOK

-----------------------------------------------------------------------------
(* The reviewed plan stays the one that is launched                          *)

\* No step opens a handoff again that was claimed or declined.
LEMMA ReviewInvKept == RecordsInv /\ TypeOK' /\ ReservationInv' /\ [Next]_vars => ReviewInv'
<1> SUFFICES ASSUME RecordsInv, TypeOK', ReservationInv', [Next]_vars PROVE ReviewInv'
  OBVIOUS
<1> USE LaunchAssumption DEF RecordsInv
<1>1. ASSUME NEW p \in Cli, BeginReview(p) PROVE ReviewInv'
  BY <1>1 DEF BeginReview, Goto, store, TypeOK, ReviewInv, LaunchUsesReviewedPlan, Claimed, Declined, Owning, Open, Readable, Approvals, RunRows
<1>2. ASSUME NEW p \in Cli, AcceptReview(p) PROVE ReviewInv'
  BY <1>2 DEF AcceptReview, Goto, store, TypeOK, ReviewInv, LaunchUsesReviewedPlan, Claimed, Declined, Owning, Open, Readable, Approvals, RunRows
<1>3. ASSUME NEW p \in Cli, AuthorizePlan(p) PROVE ReviewInv'
  BY <1>3 DEF AuthorizePlan, Goto, TypeOK, ReviewInv, LaunchUsesReviewedPlan, Claimed, Declined, Owning, Open, Readable, Approvals, RunRows
<1>4. ASSUME NEW p \in Cli, CheckCapacity(p) PROVE ReviewInv'
  BY <1>4 DEF CheckCapacity, Goto, store, TypeOK, ReviewInv, LaunchUsesReviewedPlan, Claimed, Declined, Owning, Open, Readable, Approvals, RunRows
<1>5. ASSUME NEW p \in Cli, StartObservation(p) PROVE ReviewInv'
  BY <1>5 DEF StartObservation, Abort, Goto, MayStart, store, TypeOK, ReviewInv, LaunchUsesReviewedPlan, Claimed, Declined, Owning, Open, Readable, Approvals, RunRows
<1>6. ASSUME NEW p \in Cli, Spawn(p) PROVE ReviewInv'
  BY <1>6 DEF Spawn, Goto, store, TypeOK, ReviewInv, LaunchUsesReviewedPlan, Claimed, Declined, Owning, Open, Readable, Approvals, RunRows
<1>7. ASSUME NEW p \in Cli, TargetExit(p) PROVE ReviewInv'
  BY <1>7 DEF TargetExit, store, TypeOK, ReviewInv, LaunchUsesReviewedPlan, Claimed, Declined, Owning, Open, Readable, Approvals, RunRows
<1>8. ASSUME NEW p \in Cli, ObserveSpawned(p) PROVE ReviewInv'
  BY <1>8 DEF ObserveSpawned, Abort, Goto, MayObserve, store, TypeOK, ReviewInv, LaunchUsesReviewedPlan, Claimed, Declined, Owning, Open, Readable, Approvals, RunRows
<1>9. ASSUME NEW p \in Cli, ObserveExit(p) PROVE ReviewInv'
  BY <1>9 DEF ObserveExit, Abort, Exited, Goto, store, TypeOK, ReviewInv, LaunchUsesReviewedPlan, Claimed, Declined, Owning, Open, Readable, Approvals, RunRows
<1>10. ASSUME NEW p \in Cli, FinishObservation(p) PROVE ReviewInv'
  BY <1>10 DEF FinishObservation, EvidenceLost, Goto, MayObserve, TypeOK, ReviewInv, LaunchUsesReviewedPlan, Claimed, Declined, Owning, Open, Readable, Approvals, RunRows
<1>11. ASSUME NEW p \in Cli, Leave(p) PROVE ReviewInv'
  BY <1>11 DEF Leave, store, TypeOK, ReviewInv, LaunchUsesReviewedPlan, Claimed, Declined, Owning, Open, Readable, Approvals, RunRows
<1>12. ASSUME NEW p \in Cli, Cancel(p) PROVE ReviewInv'
  BY <1>12 DEF Cancel, Open, Goto, TypeOK, ReviewInv, LaunchUsesReviewedPlan, Claimed, Declined, Owning, Readable, Approvals, RunRows
<1>13. ASSUME NEW p \in Cli, Confirm(p) PROVE ReviewInv'
  <2> DEFINE h == handoffOf[p]
  <2>1. h \in Handoffs /\ Open(h) /\ handoff'[h] = "confirmed"
    BY <1>13, ConfirmEffect DEF Confirm
  <2>2. \A g \in Handoffs \ {h} : handoff'[g] = handoff[g] /\ approval'[g] = approval[g]
    BY <1>13, <2>1, ConfirmEffect DEF Confirm
  <2>3. \A q \in Cli : (Claimed(q)' <=> Claimed(q)) /\ (Declined(q)' <=> Declined(q)) /\ run'[q] = run[q]
    BY <1>13 DEF Confirm, Goto, TypeOK, Claimed, Declined, Owning
  <2>4. \A q \in Cli : Claimed(q) \/ Declined(q) => handoffOf[q] \in Handoffs \ {h}
    BY <2>1 DEF ReviewInv
  <2>5. \A q \in Cli : Claimed(q)' \/ Declined(q)' => ~Open(handoffOf[q])'
    BY <2>2, <2>3, <2>4 DEF ReviewInv, Open
  <2>6. LaunchUsesReviewedPlan'
    BY <2>2, <2>3, <2>4 DEF ReviewInv, LaunchUsesReviewedPlan, Claimed, Readable
  <2>7. UNCHANGED <<result, target>>
    BY <1>13 DEF Confirm
  <2> QED BY <2>3, <2>5, <2>6, <2>7 DEF ReviewInv
<1>14. ASSUME NEW p \in Cli, Claim(p) PROVE ReviewInv'
  <2> DEFINE h == handoffOf[p]
  <2>1. \A q \in Cli : Claimed(q) \/ Declined(q) => handoffOf[q] # h
    BY <1>14, ClaimEffect DEF ReviewInv, Open
  <2>2. \A q \in Cli : (Claimed(q)' => q = p \/ Claimed(q)) /\ (Declined(q)' => q # p /\ Declined(q))
    BY <1>14, ClaimEffect DEF Claimed, Declined
  <2>3. \A q \in Cli : Claimed(q)' \/ Declined(q)' => ~Open(handoffOf[q])'
    BY <1>14, <2>2, ClaimEffect DEF ReviewInv, Open
  <2>4. LaunchUsesReviewedPlan'
    <3> SUFFICES ASSUME NEW q \in Cli, run'[q].state # "none", handoff'[handoffOf[q]] # "retained"
                 PROVE  approval'[handoffOf[q]] = [plan |-> q, launch |-> q]
      BY DEF LaunchUsesReviewedPlan, Readable
    <3>1. CASE q = p
      BY <1>14, <3>1, ClaimApproval
    <3>2. CASE q # p
      <4>1. run[q].state # "none" /\ Claimed(q)
        BY <1>14, <3>2, ClaimEffect DEF Claimed
      <4>2. handoffOf[q] # h /\ handoffOf[q] \in Handoffs
        BY <2>1, <4>1
      <4> QED BY <1>14, <3>2, <4>1, <4>2, ClaimEffect DEF ReviewInv, LaunchUsesReviewedPlan, Readable
    <3> QED BY <3>1, <3>2
  <2>5. \A q, r \in Cli : handoffOf[q] = handoffOf[r] /\ Claimed(q)' => (Claimed(r)' => q = r) /\ ~Declined(r)'
    BY <2>1, <2>2 DEF ReviewInv
  <2>6. \A q \in Cli : result'[q] = "cancelled" => target'[q] # "none"
    BY <1>14, ClaimEffect DEF ReviewInv
  <2> QED BY <2>3, <2>4, <2>5, <2>6 DEF ReviewInv
<1>15. ASSUME NEW p \in Cli, RecordTarget(p) PROVE ReviewInv'
  BY <1>15, RecordTargetEffect DEF ReviewInv, LaunchUsesReviewedPlan, Claimed, Declined, Owning, Open, Readable, Approvals, RunRows
<1>16. ASSUME NEW p \in Cli, Finish(p) PROVE ReviewInv'
  BY <1>16, FinishEffect DEF ReviewInv, LaunchUsesReviewedPlan, Claimed, Declined, Owning, Open, Readable, Approvals, RunRows, ReservationInv, LaunchOccupies, RunsOwned
<1>17. ASSUME NEW p \in Cli, Recover(p) PROVE ReviewInv'
  BY <1>17, RecoverEffect DEF ReviewInv, LaunchUsesReviewedPlan, Claimed, Declined, Owning, Open, Readable, Approvals, RunRows
<1>18. ASSUME NEW h \in Handoffs, Drift(h) \/ WebConfirmRead(h) PROVE ReviewInv'
  BY <1>18 DEF Drift, WebConfirmRead, store, ReviewInv, LaunchUsesReviewedPlan, Claimed, Declined, Owning, Open, Readable, Approvals, RunRows
<1>19. ASSUME NEW h \in Handoffs, WebConfirm(h) PROVE ReviewInv'
  BY <1>19, ConfirmEffect DEF WebConfirm, Open, TypeOK, ReviewInv, LaunchUsesReviewedPlan, Claimed, Declined, Owning, Readable, Approvals, RunRows
<1>20. ASSUME NEW h \in Handoffs, Reconcile(h) PROVE ReviewInv'
  BY <1>20, ReconcileEffect DEF ReviewInv, LaunchUsesReviewedPlan, Claimed, Declined, Owning, Open, Readable, Approvals, RunRows
<1>21. CASE Prune
  BY <1>21, PruneEffect DEF ReviewInv, LaunchUsesReviewedPlan, Claimed, Declined, Owning, Open, Readable, Approvals, RunRows
<1>22. CASE UNCHANGED vars
  BY <1>22 DEF vars, store, ReviewInv, LaunchUsesReviewedPlan, Claimed, Declined, Owning, Open, Readable, Approvals, RunRows
<1> QED
  BY <1>1, <1>2, <1>3, <1>4, <1>5, <1>6, <1>7, <1>8, <1>9, <1>10, <1>11, <1>12, <1>13, <1>14, <1>15, <1>16, <1>17, <1>18, <1>19, <1>20, <1>21, <1>22 DEF Next, Observer

-----------------------------------------------------------------------------
(* The tables tell one story                                                 *)

\* What TablesAgree says of one process; the rest of it is part of what the
\* reservation keeps.
Story(p) ==
  /\ run[p].state = "running" => handoff[handoffOf[p]] = "launching" /\ attempt[p] = "launching"
  /\ run[p].state = "unknown" => handoff[handoffOf[p]] = "unknown" /\ attempt[p] = "unknown"
  /\ run[p].state = "released" /\ Readable(handoffOf[p]) =>
       IF p \in recovered THEN handoff[handoffOf[p]] = "recovered" /\ attempt[p] = "unknown"
                          ELSE handoff[handoffOf[p]] = attempt[p] /\ attempt[p] \in Outcomes

\* The tables agree if the story of every process is told by them.
LEMMA OneByOne == LaunchOccupies => (TablesAgree <=> \A p \in Cli : Story(p))
  BY LaunchAssumption DEF LaunchOccupies, TablesAgree, Story

\* Every step keeps the three tables in agreement.
LEMMA TablesAgreeKept == RecordsInv /\ TypeOK' /\ ReservationInv' /\ [Next]_vars => TablesAgree'
<1> SUFFICES ASSUME RecordsInv, TypeOK', ReservationInv', [Next]_vars PROVE TablesAgree'
  OBVIOUS
<1> USE LaunchAssumption DEF RecordsInv
<1>0. \A q \in Cli : Story(q)
  BY OneByOne DEF ReservationInv
<1>1. ASSUME NEW p \in Cli, BeginReview(p) PROVE \A q \in Cli : Story(q)'
  BY <1>0, <1>1 DEF BeginReview, Goto, store, TypeOK, Story, Readable, RunRows
<1>2. ASSUME NEW p \in Cli, AcceptReview(p) PROVE \A q \in Cli : Story(q)'
  BY <1>0, <1>2 DEF AcceptReview, Goto, store, TypeOK, Story, Readable, RunRows
<1>3. ASSUME NEW p \in Cli, AuthorizePlan(p) PROVE \A q \in Cli : Story(q)'
  BY <1>0, <1>3 DEF AuthorizePlan, Goto, TypeOK, Story, Readable, RunRows
<1>4. ASSUME NEW p \in Cli, CheckCapacity(p) PROVE \A q \in Cli : Story(q)'
  BY <1>0, <1>4 DEF CheckCapacity, Goto, store, TypeOK, Story, Readable, RunRows
<1>5. ASSUME NEW p \in Cli, StartObservation(p) PROVE \A q \in Cli : Story(q)'
  BY <1>0, <1>5 DEF StartObservation, Abort, Goto, MayStart, store, TypeOK, Story, Readable, RunRows
<1>6. ASSUME NEW p \in Cli, Spawn(p) PROVE \A q \in Cli : Story(q)'
  BY <1>0, <1>6 DEF Spawn, Goto, store, TypeOK, Story, Readable, RunRows
<1>7. ASSUME NEW p \in Cli, TargetExit(p) PROVE \A q \in Cli : Story(q)'
  BY <1>0, <1>7 DEF TargetExit, store, TypeOK, Story, Readable, RunRows
<1>8. ASSUME NEW p \in Cli, ObserveSpawned(p) PROVE \A q \in Cli : Story(q)'
  BY <1>0, <1>8 DEF ObserveSpawned, Abort, Goto, MayObserve, store, TypeOK, Story, Readable, RunRows
<1>9. ASSUME NEW p \in Cli, ObserveExit(p) PROVE \A q \in Cli : Story(q)'
  BY <1>0, <1>9 DEF ObserveExit, Abort, Exited, Goto, store, TypeOK, Story, Readable, RunRows
<1>10. ASSUME NEW p \in Cli, FinishObservation(p) PROVE \A q \in Cli : Story(q)'
  BY <1>0, <1>10 DEF FinishObservation, EvidenceLost, Goto, MayObserve, TypeOK, Story, Readable, RunRows
<1>11. ASSUME NEW p \in Cli, Leave(p) PROVE \A q \in Cli : Story(q)'
  BY <1>0, <1>11 DEF Leave, store, TypeOK, Story, Readable, RunRows
<1>12. ASSUME NEW p \in Cli, Cancel(p) PROVE \A q \in Cli : Story(q)'
  BY <1>0, <1>12 DEF Cancel, Open, Goto, TypeOK, Story, Readable, RunRows
<1>13. ASSUME NEW p \in Cli, Confirm(p) PROVE \A q \in Cli : Story(q)'
  BY <1>0, <1>13, ConfirmEffect DEF Confirm, Open, Goto, TypeOK, Story, Readable, RunRows
<1>14. ASSUME NEW p \in Cli, Claim(p) PROVE \A q \in Cli : Story(q)'
  <2> SUFFICES ASSUME NEW q \in Cli PROVE Story(q)'
    OBVIOUS
  <2>1. CASE q = p
    <3>1. p \notin recovered
      BY <1>0, <1>14, ClaimEffect DEF RecoveredInv
    <3> QED BY <1>0, <1>14, <2>1, <3>1, ClaimEffect DEF Story
  <2>2. CASE q # p
    <3>1. handoffOf[q] # handoffOf[p] \/ run[q].state = "none"
      BY <1>0, <1>14, ClaimEffect DEF ReviewInv, Claimed, Open
    <3> QED BY <1>0, <1>14, <2>2, <3>1, ClaimEffect DEF Story, Readable
  <2> QED BY <2>1, <2>2
<1>15. ASSUME NEW p \in Cli, RecordTarget(p) PROVE \A q \in Cli : Story(q)'
  BY <1>0, <1>15, RecordTargetEffect DEF Story, Readable, RunRows
<1>16. ASSUME NEW p \in Cli, Finish(p) PROVE \A q \in Cli : Story(q)'
  <2> SUFFICES ASSUME NEW q \in Cli PROVE Story(q)'
    OBVIOUS
  <2>1. CASE q = p
    <3>1. p \notin recovered
      BY <1>0, <1>16, FinishEffect DEF RecoveredInv
    <3> QED BY <1>0, <1>16, <2>1, <3>1, FinishEffect DEF Story
  <2>2. CASE q # p
    <3>1. handoffOf[q] # handoffOf[p] \/ run[q].state = "none"
      BY <1>0, <1>16, <2>2, FinishEffect DEF ReviewInv, Claimed
    <3> QED BY <1>0, <1>16, <2>2, <3>1, FinishEffect DEF Story, Readable
  <2> QED BY <2>1, <2>2
<1>17. ASSUME NEW p \in Cli, Recover(p) PROVE \A q \in Cli : Story(q)'
  <2> SUFFICES ASSUME NEW q \in Cli PROVE Story(q)'
    OBVIOUS
  <2>1. CASE q = p
    BY <1>0, <1>17, <2>1, RecoverEffect DEF Story
  <2>2. CASE q # p
    <3>1. handoffOf[q] # handoffOf[p] \/ run[q].state = "none"
      BY <1>0, <1>17, <2>2, RecoverEffect DEF ReviewInv, Claimed
    <3> QED BY <1>0, <1>17, <2>2, <3>1, RecoverEffect DEF Story, Readable
  <2> QED BY <2>1, <2>2
<1>18. ASSUME NEW h \in Handoffs, Drift(h) \/ WebConfirmRead(h) PROVE \A q \in Cli : Story(q)'
  BY <1>0, <1>18 DEF Drift, WebConfirmRead, store, Story, Readable, RunRows
<1>19. ASSUME NEW h \in Handoffs, WebConfirm(h) PROVE \A q \in Cli : Story(q)'
  BY <1>0, <1>19, ConfirmEffect DEF WebConfirm, Open, TypeOK, Story, Readable, RunRows
<1>20. ASSUME NEW h \in Handoffs, Reconcile(h) PROVE \A q \in Cli : Story(q)'
  <2> SUFFICES ASSUME NEW q \in Cli PROVE Story(q)'
    OBVIOUS
  <2> DEFINE p == approval[h].launch
  <2>1. p \in Cli /\ handoffOf[p] = h /\ run[p].state = "running" /\ attempt[p] = "launching"
    BY <1>0, <1>20, ReconcileEffect DEF Story
  <2>2. CASE q = p
    BY <1>0, <1>20, <2>1, <2>2, ReconcileEffect DEF Story
  <2>3. CASE q # p
    <3>1. handoffOf[q] # h \/ run[q].state = "none"
      BY <2>1, <2>3 DEF ReviewInv, Claimed
    <3> QED BY <1>0, <1>20, <2>3, <3>1, ReconcileEffect DEF Story, Readable
  <2> QED BY <2>2, <2>3
<1>21. ASSUME Prune PROVE \A q \in Cli : Story(q)'
  BY <1>0, <1>21, PruneEffect DEF Story, Readable, RunRows
<1>22. ASSUME UNCHANGED vars PROVE \A q \in Cli : Story(q)'
  BY <1>0, <1>22 DEF vars, store, Story, Readable, RunRows
<1>23. \A q \in Cli : Story(q)'
  BY <1>1, <1>2, <1>3, <1>4, <1>5, <1>6, <1>7, <1>8, <1>9, <1>10, <1>11, <1>12, <1>13, <1>14, <1>15, <1>16, <1>17, <1>18, <1>19, <1>20, <1>21, <1>22 DEF Next, Observer
<1> QED BY <1>23 DEF TablesAgree, Story, ReservationInv, LaunchOccupies

-----------------------------------------------------------------------------
(* What was recovered is left alone                                          *)

\* What was recovered stays closed.
LEMMA RecoveredInvKept == RecordsInv /\ TypeOK' /\ ReservationInv' /\ [Next]_vars => RecoveredInv'
<1> SUFFICES ASSUME RecordsInv, TypeOK', ReservationInv', [Next]_vars PROVE RecoveredInv'
  OBVIOUS
<1> USE LaunchAssumption DEF RecordsInv
<1>0. recovered \subseteq Cli
  BY DEF TypeOK
<1>1. ASSUME NEW p \in Cli, BeginReview(p) PROVE RecoveredInv'
  BY <1>0, <1>1 DEF BeginReview, Goto, store, TypeOK, RecoveredInv
<1>2. ASSUME NEW p \in Cli, AcceptReview(p) PROVE RecoveredInv'
  BY <1>0, <1>2 DEF AcceptReview, Goto, store, TypeOK, RecoveredInv
<1>3. ASSUME NEW p \in Cli, AuthorizePlan(p) PROVE RecoveredInv'
  BY <1>0, <1>3 DEF AuthorizePlan, Goto, TypeOK, RecoveredInv
<1>4. ASSUME NEW p \in Cli, CheckCapacity(p) PROVE RecoveredInv'
  BY <1>0, <1>4 DEF CheckCapacity, Goto, store, TypeOK, RecoveredInv
<1>5. ASSUME NEW p \in Cli, StartObservation(p) PROVE RecoveredInv'
  BY <1>0, <1>5 DEF StartObservation, Abort, Goto, MayStart, store, TypeOK, RecoveredInv
<1>6. ASSUME NEW p \in Cli, Spawn(p) PROVE RecoveredInv'
  BY <1>0, <1>6 DEF Spawn, Goto, store, TypeOK, RecoveredInv
<1>7. ASSUME NEW p \in Cli, TargetExit(p) PROVE RecoveredInv'
  BY <1>0, <1>7 DEF TargetExit, store, TypeOK, RecoveredInv
<1>8. ASSUME NEW p \in Cli, ObserveSpawned(p) PROVE RecoveredInv'
  BY <1>0, <1>8 DEF ObserveSpawned, Abort, Goto, MayObserve, store, TypeOK, RecoveredInv
<1>9. ASSUME NEW p \in Cli, ObserveExit(p) PROVE RecoveredInv'
  BY <1>0, <1>9 DEF ObserveExit, Abort, Exited, Goto, store, TypeOK, RecoveredInv
<1>10. ASSUME NEW p \in Cli, FinishObservation(p) PROVE RecoveredInv'
  BY <1>0, <1>10 DEF FinishObservation, EvidenceLost, Goto, MayObserve, TypeOK, RecoveredInv
<1>11. ASSUME NEW p \in Cli, Leave(p) PROVE RecoveredInv'
  BY <1>0, <1>11 DEF Leave, store, TypeOK, RecoveredInv
<1>12. ASSUME NEW p \in Cli, Cancel(p) PROVE RecoveredInv'
  BY <1>0, <1>12 DEF Cancel, Open, Goto, TypeOK, RecoveredInv
<1>13. ASSUME NEW p \in Cli, Confirm(p) PROVE RecoveredInv'
  BY <1>0, <1>13, ConfirmEffect DEF Confirm, Open, Goto, TypeOK, RecoveredInv
<1>14. ASSUME NEW p \in Cli, Claim(p) PROVE RecoveredInv'
  BY <1>0, <1>14, ClaimEffect DEF RecoveredInv
<1>15. ASSUME NEW p \in Cli, RecordTarget(p) PROVE RecoveredInv'
  BY <1>0, <1>15, RecordTargetEffect DEF RecoveredInv
<1>16. ASSUME NEW p \in Cli, Finish(p) PROVE RecoveredInv'
  BY <1>0, <1>16, FinishEffect DEF RecoveredInv
<1>17. ASSUME NEW p \in Cli, Recover(p) PROVE RecoveredInv'
  BY <1>0, <1>17, RecoverEffect DEF RecoveredInv, TablesAgree
<1>18. ASSUME NEW h \in Handoffs, Drift(h) \/ WebConfirmRead(h) PROVE RecoveredInv'
  BY <1>0, <1>18 DEF Drift, WebConfirmRead, store, RecoveredInv
<1>19. ASSUME NEW h \in Handoffs, WebConfirm(h) PROVE RecoveredInv'
  BY <1>0, <1>19, ConfirmEffect DEF WebConfirm, Open, TypeOK, RecoveredInv
<1>20. ASSUME NEW h \in Handoffs, Reconcile(h) PROVE RecoveredInv'
  BY <1>0, <1>20, ReconcileEffect DEF RecoveredInv
<1>21. CASE Prune
  BY <1>0, <1>21, PruneEffect DEF RecoveredInv
<1>22. CASE UNCHANGED vars
  BY <1>0, <1>22 DEF vars, store, RecoveredInv
<1> QED
  BY <1>1, <1>2, <1>3, <1>4, <1>5, <1>6, <1>7, <1>8, <1>9, <1>10, <1>11, <1>12, <1>13, <1>14, <1>15, <1>16, <1>17, <1>18, <1>19, <1>20, <1>21, <1>22 DEF Next, Observer

-----------------------------------------------------------------------------
(* The evidence is there before what rests on it                             *)

\* An outcome keeps the observation it rests on.
LEMMA EvidenceInvKept == RecordsInv /\ TypeOK' /\ ReservationInv' /\ [Next]_vars => EvidenceInv'
<1> SUFFICES ASSUME RecordsInv, TypeOK', ReservationInv', [Next]_vars PROVE EvidenceInv'
  OBVIOUS
<1> USE LaunchAssumption DEF RecordsInv
<1>1. ASSUME NEW p \in Cli, BeginReview(p) PROVE EvidenceInv'
  BY <1>1 DEF BeginReview, Goto, store, TypeOK, EvidenceInv, ObserverInv, Results, RunRows, ObservationRows
<1>2. ASSUME NEW p \in Cli, AcceptReview(p) PROVE EvidenceInv'
  BY <1>2 DEF AcceptReview, Goto, store, TypeOK, EvidenceInv, ObserverInv, Results, RunRows, ObservationRows
<1>3. ASSUME NEW p \in Cli, AuthorizePlan(p) PROVE EvidenceInv'
  BY <1>3 DEF AuthorizePlan, Goto, TypeOK, EvidenceInv, ObserverInv, Results, RunRows, ObservationRows
<1>4. ASSUME NEW p \in Cli, CheckCapacity(p) PROVE EvidenceInv'
  BY <1>4 DEF CheckCapacity, Goto, store, TypeOK, EvidenceInv, ObserverInv, Results, RunRows, ObservationRows
<1>5. ASSUME NEW p \in Cli, StartObservation(p) PROVE EvidenceInv'
  <2>1. /\ UNCHANGED <<run, recovered, attempt, target>> /\ pc[p] = "claimed" /\ pc'[p] \in {"spawning", "ending"}
        /\ observation'[p].status \in {observation[p].status, "running"}
        /\ \A q \in Cli \ {p} : pc'[q] = pc[q] /\ result'[q] = result[q] /\ observation'[q] = observation[q]
    BY <1>5 DEF StartObservation, Abort, Goto, store, TypeOK
  <2> QED BY <2>1 DEF EvidenceInv
<1>6. ASSUME NEW p \in Cli, Spawn(p) PROVE EvidenceInv'
  BY <1>6 DEF Spawn, Goto, store, TypeOK, EvidenceInv, ObserverInv, Results, RunRows, ObservationRows
<1>7. ASSUME NEW p \in Cli, TargetExit(p) PROVE EvidenceInv'
  BY <1>7 DEF TargetExit, store, TypeOK, EvidenceInv, ObserverInv, Results, RunRows, ObservationRows
<1>8. ASSUME NEW p \in Cli, ObserveSpawned(p) PROVE EvidenceInv'
  <2>1. /\ UNCHANGED <<run, recovered, attempt, target>> /\ pc[p] = "recorded" /\ pc'[p] \in {"waiting", "ending"}
        /\ \A q \in Cli : observation'[q].status = observation[q].status
        /\ \A q \in Cli \ {p} : pc'[q] = pc[q] /\ result'[q] = result[q]
    BY <1>8 DEF ObserveSpawned, Abort, Goto, store, TypeOK, ObservationRows
  <2> QED BY <2>1 DEF EvidenceInv
<1>9. ASSUME NEW p \in Cli, ObserveExit(p) PROVE EvidenceInv'
  BY <1>9 DEF ObserveExit, Abort, Exited, Goto, store, TypeOK, EvidenceInv, ObserverInv, Results, RunRows, ObservationRows
<1>10. ASSUME NEW p \in Cli, FinishObservation(p) PROVE EvidenceInv'
  <2>1. /\ UNCHANGED <<run, recovered, attempt, target>> /\ pc[p] = "ending" /\ pc'[p] = "finishing"
        /\ \/ observation'[p].status = result[p] /\ result'[p] = result[p]
           \/ observation'[p].status = observation[p].status /\ result'[p] = "unknown"
        /\ \A q \in Cli \ {p} : pc'[q] = pc[q] /\ result'[q] = result[q] /\ observation'[q] = observation[q]
    BY <1>10 DEF FinishObservation, EvidenceLost, Goto, TypeOK, ObservationRows
  <2>2. observation'[p].status \in Outcomes => target[p] # "alive"
    BY <2>1, LaunchAssumption DEF EvidenceInv, ObserverInv
  <2> QED BY <2>1, <2>2 DEF EvidenceInv
<1>11. ASSUME NEW p \in Cli, Leave(p) PROVE EvidenceInv'
  BY <1>11 DEF Leave, store, TypeOK, EvidenceInv, ObserverInv, Results, RunRows, ObservationRows
<1>12. ASSUME NEW p \in Cli, Cancel(p) PROVE EvidenceInv'
  BY <1>12 DEF Cancel, Open, Goto, TypeOK, EvidenceInv, ObserverInv, Results, RunRows, ObservationRows
<1>13. ASSUME NEW p \in Cli, Confirm(p) PROVE EvidenceInv'
  BY <1>13, ConfirmEffect DEF Confirm, Open, Goto, TypeOK, EvidenceInv, ObserverInv, Results, RunRows, ObservationRows
<1>14. ASSUME NEW p \in Cli, Claim(p) PROVE EvidenceInv'
  BY <1>14, ClaimEffect DEF EvidenceInv, ObserverInv, Results, RunRows, ObservationRows
<1>15. ASSUME NEW p \in Cli, RecordTarget(p) PROVE EvidenceInv'
  BY <1>15, RecordTargetEffect DEF EvidenceInv, ObserverInv, Results, RunRows, ObservationRows
<1>16. ASSUME NEW p \in Cli, Finish(p) PROVE EvidenceInv'
  BY <1>16, FinishEffect DEF EvidenceInv, ObserverInv, Results, RunRows, ObservationRows, ReservationInv, LaunchOccupies, RunsOwned
<1>17. ASSUME NEW p \in Cli, Recover(p) PROVE EvidenceInv'
  BY <1>17, RecoverEffect DEF EvidenceInv, ObserverInv, Results, RunRows, ObservationRows
<1>18. ASSUME NEW h \in Handoffs, Drift(h) \/ WebConfirmRead(h) PROVE EvidenceInv'
  BY <1>18 DEF Drift, WebConfirmRead, store, EvidenceInv, ObserverInv, Results, RunRows, ObservationRows
<1>19. ASSUME NEW h \in Handoffs, WebConfirm(h) PROVE EvidenceInv'
  BY <1>19, ConfirmEffect DEF WebConfirm, Open, TypeOK, EvidenceInv, ObserverInv, Results, RunRows, ObservationRows
<1>20. ASSUME NEW h \in Handoffs, Reconcile(h) PROVE EvidenceInv'
  BY <1>20, ReconcileEffect DEF EvidenceInv, ObserverInv, Results, RunRows, ObservationRows
<1>21. CASE Prune
  BY <1>21, PruneEffect DEF EvidenceInv, ObserverInv, Results, RunRows, ObservationRows
<1>22. CASE UNCHANGED vars
  BY <1>22 DEF vars, store, EvidenceInv, ObserverInv, Results, RunRows, ObservationRows
<1> QED
  BY <1>1, <1>2, <1>3, <1>4, <1>5, <1>6, <1>7, <1>8, <1>9, <1>10, <1>11, <1>12, <1>13, <1>14, <1>15, <1>16, <1>17, <1>18, <1>19, <1>20, <1>21, <1>22 DEF Next, Observer

-----------------------------------------------------------------------------
(* How many observations a task has                                          *)

CapacityInv ==
  \A h \in Handoffs : /\ IsFiniteSet(ObservationsOf(taskOf[h]))
                      /\ Cardinality(ObservationsOf(taskOf[h])) <= MaxObservations

\* Every step keeps the observations of a task within their capacity.
LEMMA CapacityKept == RecordsInv /\ CapacityInv /\ [Next]_vars => CapacityInv'
<1> SUFFICES ASSUME RecordsInv, CapacityInv, [Next]_vars PROVE CapacityInv'
  OBVIOUS
<1> USE LaunchAssumption DEF RecordsInv
<1>1. ASSUME \A q \in Cli : observation[q].status = "none" <=> observation'[q].status = "none"
      PROVE  CapacityInv'
  <2>1. \A t : ObservationsOf(t)' = ObservationsOf(t)
    BY <1>1 DEF ObservationsOf
  <2> QED BY <2>1 DEF CapacityInv
<1>2. ASSUME NEW p \in Cli, StartObservation(p) PROVE CapacityInv'
  <2>1. CASE Abort(p, "claimed")
    BY <1>1, <2>1 DEF Abort, store
  <2>2. CASE ~Abort(p, "claimed")
    <3>1. /\ observation'[p].status = "running" /\ MayStart(p)
          /\ \A q \in Cli \ {p} : observation'[q] = observation[q]
      BY <1>2, <2>2 DEF StartObservation, TypeOK
    <3> SUFFICES ASSUME NEW h \in Handoffs
                 PROVE  /\ IsFiniteSet(ObservationsOf(taskOf[h])')
                        /\ Cardinality(ObservationsOf(taskOf[h])') <= MaxObservations
      BY DEF CapacityInv
    <3>2. CASE taskOf[handoffOf[p]] # taskOf[h]
      <4>1. ObservationsOf(taskOf[h])' = ObservationsOf(taskOf[h])
        BY <3>1, <3>2 DEF ObservationsOf
      <4> QED BY <4>1 DEF CapacityInv
    <3>3. CASE taskOf[handoffOf[p]] = taskOf[h]
      <4>1. ObservationsOf(taskOf[h])' = ObservationsOf(taskOf[h]) \cup {p}
        BY <3>1, <3>3 DEF ObservationsOf
      <4>2. IsFiniteSet(ObservationsOf(taskOf[h])) /\ Cardinality(ObservationsOf(taskOf[h])) < MaxObservations
        BY <3>1, <3>3 DEF CapacityInv, MayStart, AssertCapacity
      <4>3. /\ IsFiniteSet(ObservationsOf(taskOf[h]) \cup {p})
            /\ \/ Cardinality(ObservationsOf(taskOf[h]) \cup {p}) = Cardinality(ObservationsOf(taskOf[h])) + 1
               \/ Cardinality(ObservationsOf(taskOf[h]) \cup {p}) = Cardinality(ObservationsOf(taskOf[h]))
            /\ Cardinality(ObservationsOf(taskOf[h])) \in Nat
        BY <4>2, FS_AddElement, FS_CardinalityType
      <4> QED BY <4>1, <4>2, <4>3
    <3> QED BY <3>2, <3>3
  <2> QED BY <2>1, <2>2
<1>3. ASSUME NEW p \in Cli, ObserveSpawned(p) PROVE CapacityInv'
  BY <1>1, <1>3 DEF ObserveSpawned, Abort, store, TypeOK, ObservationRows
<1>4. ASSUME NEW p \in Cli, FinishObservation(p) PROVE CapacityInv'
  <2>1. \A q \in Cli : observation[q].status = "none" <=> observation'[q].status = "none"
    BY <1>4 DEF FinishObservation, MayObserve, Goto, TypeOK, ObservationRows
  <2> QED BY <1>1, <2>1
<1>5. CASE UNCHANGED observation
  BY <1>1, <1>5
<1>6. CASE UNCHANGED vars
  BY <1>5, <1>6 DEF vars, store
<1>7. ASSUME NEW p \in Cli, ~StartObservation(p), ~ObserveSpawned(p), ~FinishObservation(p),
             \/ BeginReview(p) \/ Cancel(p) \/ AcceptReview(p) \/ Confirm(p) \/ AuthorizePlan(p)
             \/ CheckCapacity(p) \/ Claim(p) \/ Observer(p) \/ TargetExit(p) \/ Leave(p) \/ Recover(p)
      PROVE  UNCHANGED observation
  BY <1>7 DEF BeginReview, Cancel, AcceptReview, Confirm, AuthorizePlan, CheckCapacity, Claim, Observer,
       Spawn, RecordTarget, ObserveExit, Finish, Abort, TargetExit, Leave, Recover, store
<1>8. ASSUME NEW h \in Handoffs, Drift(h) \/ WebConfirmRead(h) \/ WebConfirm(h) \/ Reconcile(h)
      PROVE  UNCHANGED observation
  BY <1>8 DEF Drift, WebConfirmRead, WebConfirm, Reconcile, store
<1>9. CASE Prune
  BY <1>5, <1>9, PruneEffect
<1> QED BY <1>2, <1>3, <1>4, <1>5, <1>6, <1>7, <1>8, <1>9 DEF Next

-----------------------------------------------------------------------------
(* The theorems                                                              *)

\* The inductive invariant of the tables of launch-store.ts, handoff-store.ts
\* and observation-store.ts: a consumed handoff never opens again, an outcome
\* needs its observation, and a recovered attempt stays closed.
THEOREM RecordsInvariant == Spec => []RecordsInv
<1>1. Init => ReviewInv /\ TablesAgree /\ RecoveredInv /\ EvidenceInv
  BY LaunchAssumption DEF Init, ReviewInv, TablesAgree, RecoveredInv, EvidenceInv, LaunchUsesReviewedPlan,
       Claimed, Declined, Owning, NoRun, NoObservation
<1>2. RecordsInv /\ TypeOK' /\ ReservationInv' /\ [Next]_vars
        => (ReviewInv /\ TablesAgree /\ RecoveredInv /\ EvidenceInv)'
  BY ReviewInvKept, TablesAgreeKept, RecoveredInvKept, EvidenceInvKept
<1> QED BY <1>1, <1>2, TypeCorrect, ReservationInvariant, ObserverInvariant, PTL DEF Spec, RecordsInv

\* ADR 0010: whatever is confirmed, continued and declined in whichever order,
\* a handoff starts one agent at most, with the plan that its terminal showed,
\* and none once it was declined.
THEOREM ReviewDecidesLaunch == Spec => []ReviewDecides
<1>1. RecordsInv => ReviewDecides
  BY DEF RecordsInv, ReviewInv, ReviewDecides, AtMostOneLaunch, DeclineIsFinal, Claimed, Declined
<1> QED BY <1>1, RecordsInvariant, PTL

\* launch-store.ts and observation-store.ts: the three tables agree, and an
\* outcome rests on an observation that is true and was completed before it.
THEOREM RecordsAgreement == Spec => []RecordsAgree
<1>1. Init => CapacityInv
  <2>1. Init => \A t : ObservationsOf(t) = {}
    BY DEF Init, ObservationsOf, NoObservation
  <2> QED BY <2>1, FS_EmptySet, LaunchAssumption DEF CapacityInv
<1>2. RecordsInv /\ CapacityInv => RecordsAgree
  BY DEF RecordsInv, EvidenceInv, CapacityInv, RecordsAgree, ObservationsSound, OutcomeHasEvidence,
         EvidenceOfEnd, ObservationCapacity
<1> QED BY <1>1, <1>2, CapacityKept, RecordsInvariant, PTL DEF Spec

\* ADR 0011: no later step rewrites the outcome of an attempt that was recovered.
THEOREM RecoveryIsFinal == Spec => RecoveredStaysUnknown
<1>1. RecordsInv /\ RecordsInv' /\ [Next]_vars
        => [\A p \in recovered : /\ attempt'[p] \in {"unknown", "pruned"}
                                 /\ handoff'[handoffOf[p]] \in {"recovered", "retained"}]_vars
  <2> SUFFICES ASSUME RecordsInv, RecordsInv', Next PROVE recovered \subseteq recovered'
    BY DEF RecordsInv, RecoveredInv
  <2> QED
    BY PruneEffect DEF RecordsInv, Next, BeginReview, Cancel, AcceptReview, Confirm, AuthorizePlan, CheckCapacity,
       Claim, Observer, StartObservation, Spawn, RecordTarget, ObserveSpawned, ObserveExit, FinishObservation,
       Finish, Abort, TargetExit, Leave, Recover, Drift, WebConfirmRead, WebConfirm, Reconcile, store
<1> QED BY <1>1, RecordsInvariant, PTL DEF Spec, RecoveredStaysUnknown

-----------------------------------------------------------------------------
(* One agent in a workspace                                                  *)

\* Only a process that is gone is recovered, and only after its target.
RecoveredStopped == \A p \in recovered : pc[p] = "gone" /\ target[p] # "alive"

\* What was recovered has stopped, if operators are truthful.
LEMMA RecoveredStoppedKept ==
  ASSUME HonestOperator, LiveProbe = {TRUE}, RecordsInv, RecoveredStopped, [Next]_vars
  PROVE  RecoveredStopped'
<1> USE LaunchAssumption DEF RecordsInv
<1>0. recovered \subseteq Cli
  BY DEF TypeOK
<1>1. ASSUME NEW p \in Cli, Recover(p) PROVE RecoveredStopped'
  <2>1. pc[p] = "gone" /\ target[p] # "alive"
    BY <1>1 DEF Recover, OwnerMayBeGone, OwnerProbe
  <2> QED BY <1>1, <2>1, RecoverEffect DEF RecoveredStopped
<1>2. ASSUME NEW p \in Cli,
             \/ BeginReview(p) \/ Cancel(p) \/ AcceptReview(p) \/ Confirm(p) \/ AuthorizePlan(p)
             \/ CheckCapacity(p) \/ Leave(p) \/ StartObservation(p) \/ ObserveSpawned(p) \/ ObserveExit(p)
             \/ FinishObservation(p)
      PROVE  RecoveredStopped'
  <2>1. /\ UNCHANGED <<recovered, target>> /\ \A q \in Cli \ {p} : pc'[q] = pc[q]
        /\ pc[p] = "gone" => pc'[p] = "gone"
    BY <1>2 DEF BeginReview, Cancel, AcceptReview, Confirm, AuthorizePlan, CheckCapacity, Leave,
         StartObservation, ObserveSpawned, ObserveExit, FinishObservation, Abort, Goto, store, TypeOK
  <2> QED BY <1>0, <2>1 DEF RecoveredStopped
<1>3. ASSUME NEW p \in Cli, Spawn(p) PROVE RecoveredStopped'
  <2>1. /\ UNCHANGED recovered /\ pc[p] = "spawning"
        /\ \A q \in Cli \ {p} : pc'[q] = pc[q] /\ target'[q] = target[q]
    BY <1>3 DEF Spawn, Goto, store, TypeOK
  <2> QED BY <1>0, <2>1 DEF RecoveredStopped
<1>4. ASSUME NEW p \in Cli, TargetExit(p) PROVE RecoveredStopped'
  BY <1>0, <1>4 DEF TargetExit, store, TypeOK, RecoveredStopped
<1>5. ASSUME NEW p \in Cli, Claim(p) \/ RecordTarget(p) \/ Finish(p) PROVE RecoveredStopped'
  BY <1>0, <1>5, ClaimEffect, RecordTargetEffect, FinishEffect DEF RecoveredStopped
<1>6. ASSUME NEW h \in Handoffs, Drift(h) \/ WebConfirmRead(h) \/ WebConfirm(h) \/ Reconcile(h)
      PROVE  RecoveredStopped'
  BY <1>0, <1>6 DEF Drift, WebConfirmRead, WebConfirm, Reconcile, store, RecoveredStopped
<1>7. CASE Prune
  BY <1>0, <1>7, PruneEffect DEF RecoveredStopped
<1>8. CASE UNCHANGED vars
  BY <1>0, <1>8 DEF vars, store, RecoveredStopped
<1> QED BY <1>1, <1>2, <1>3, <1>4, <1>5, <1>6, <1>7, <1>8 DEF Next, Observer

\* launch.ts and cli-recovery.ts: if a live process is always recognised and the
\* operator attests only what is true, two agents never run in one workspace.
\* Both conditions are needed: without them a recovered target may be alive.
THEOREM OneAgent ==
  ASSUME HonestOperator, LiveProbe = {TRUE}
  PROVE  Spec => []OneAgentPerRoot
<1>1. Init => RecoveredStopped
  BY DEF Init, RecoveredStopped
<1>2. RecordsInv /\ RecoveredStopped /\ [Next]_vars => RecoveredStopped'
  BY RecoveredStoppedKept
<1>3. RecordsInv /\ RecoveredStopped => OneAgentPerRoot
  BY DEF RecordsInv, RecoveredStopped, ObserverInv, Covered, ReservationInv, ReservationMutex, OneAgentPerRoot
<1> QED BY <1>1, <1>2, <1>3, RecordsInvariant, PTL DEF Spec

-----------------------------------------------------------------------------
(* The launch store implements the reservation of workspaces                 *)

Roots == {rootOf[h] : h \in Handoffs}
Working == {p \in Cli : target[p] = "alive"}

\* The holder of a root in the abstract reservation.
Holder(S) == IF S = {} THEN None ELSE CHOOSE p \in S : TRUE
HolderMap == [r \in Roots |-> Holder(HolderOf(r))]

\* The holder of one attempt is that attempt.
LEMMA HolderOne == Holder({}) = None /\ \A p : Holder({p}) = p
  BY DEF Holder

\* The holder is one of the attempts.
LEMMA HolderIn == \A S : S # {} => Holder(S) \in S
  BY DEF Holder

\* With mutual exclusion the holder of a root is its only occupant.
LEMMA HolderUnique ==
  ASSUME ReservationMutex, NEW p \in Cli, Occupying(p)
  PROVE  /\ rootOf[handoffOf[p]] \in Roots /\ HolderOf(rootOf[handoffOf[p]]) = {p}
         /\ HolderMap[rootOf[handoffOf[p]]] = p
<1>1. rootOf[handoffOf[p]] \in Roots
  BY LaunchAssumption DEF Roots
<1>2. HolderOf(rootOf[handoffOf[p]]) = {p}
  BY DEF HolderOf, ReservationMutex, SameRoot
<1> QED BY <1>1, <1>2, HolderOne DEF HolderMap

\* The holder of a root occupies it.
LEMMA HolderOccupies ==
  ASSUME NEW r \in Roots, NEW p \in Cli, HolderMap[r] = p
  PROVE  Occupying(p) /\ rootOf[handoffOf[p]] = r
<1>1. HolderOf(r) # {} /\ p \in HolderOf(r)
  BY LaunchAssumption, HolderIn, HolderOne DEF HolderMap
<1> QED BY <1>1 DEF HolderOf

\* Where no reservation begins or ends the holders are as they were.
LEMMA SameHolders ==
  ASSUME \A p \in Cli : Occupying(p)' <=> Occupying(p)
  PROVE  HolderMap' = HolderMap
<1>1. \A r : HolderOf(r)' = HolderOf(r)
  BY DEF HolderOf
<1> QED BY <1>1 DEF HolderMap, Roots

\* Where one ends, its root is free.
LEMMA HolderFreed ==
  ASSUME ReservationMutex, NEW p \in Cli, Occupying(p), ~Occupying(p)',
         \A q \in Cli \ {p} : Occupying(q)' <=> Occupying(q)
  PROVE  HolderMap' = [HolderMap EXCEPT ![rootOf[handoffOf[p]]] = None]
<1> DEFINE r == rootOf[handoffOf[p]]
<1>1. r \in Roots /\ HolderOf(r) = {p}
  BY HolderUnique
<1>2. HolderOf(r)' = {} /\ \A t \in Roots \ {r} : HolderOf(t)' = HolderOf(t)
  BY <1>1 DEF HolderOf
<1> QED BY <1>1, <1>2, HolderOne DEF HolderMap, Roots

\* Steps that leave the occupants alone keep the holders.
LEMMA SameReservation ==
  ASSUME \A p \in Cli : Occupying(p)' <=> Occupying(p), UNCHANGED <<target, recovered>>
  PROVE  UNCHANGED Reservation!vars
  BY SameHolders DEF Reservation!vars, HolderMap, Holder, Roots

\* Every step is a step of the abstract reservation, or none.
LEMMA ReservationSteps == RecordsInv /\ RecordsInv' /\ [Next]_vars => [Reservation!Next]_Reservation!vars
<1> SUFFICES ASSUME RecordsInv, RecordsInv', [Next]_vars PROVE [Reservation!Next]_Reservation!vars
  OBVIOUS
<1> USE LaunchAssumption DEF RecordsInv
<1>1. ASSUME NEW p \in Cli, Claim(p) PROVE Reservation!Next
  <2> DEFINE r == rootOf[handoffOf[p]]
  <2>1. r \in Roots /\ HolderOf(r) = {} /\ HolderMap[r] = None
    BY <1>1 DEF Claim, RootFree, SameRoot, HolderOf, HolderMap, Holder, Roots
  <2>2. ~Occupying(p) /\ target[p] # "alive" /\ p \notin recovered
    BY <1>1, ClaimEffect DEF Claim, RootFree, SameRoot, ObserverInv, RecoveredInv
  <2>3. \A q \in Roots : HolderMap[q] # p
    BY <2>2, HolderOccupies
  <2>4. HolderMap' = [HolderMap EXCEPT ![r] = p]
    <3>1. HolderOf(r)' = {p} /\ \A t \in Roots \ {r} : HolderOf(t)' = HolderOf(t)
      BY <1>1, <2>1, ClaimEffect DEF HolderOf, Occupying
    <3> QED BY <2>1, <3>1, HolderOne DEF HolderMap, Roots
  <2>5. p \notin Working /\ Working' = Working /\ recovered' = recovered
    BY <1>1, <2>2, ClaimEffect DEF Working
  <2>6. ~Reservation!Holds(p) /\ HolderMap[r] = None
    BY <2>1, <2>3 DEF Reservation!Holds, HolderMap, Holder, Roots
  <2>7. Reservation!Acquire(p, r)
    BY <2>2, <2>4, <2>5, <2>6 DEF Reservation!Acquire, HolderMap, Holder, Roots, Working
  <2> QED BY <2>1, <2>7 DEF Reservation!Next, Roots
<1>2. ASSUME NEW p \in Cli, Spawn(p) PROVE [Reservation!Next]_Reservation!vars
  <2>0. pc[p] = "spawning" /\ UNCHANGED <<run, recovered>>
    BY <1>2 DEF Spawn, Goto, store
  <2>1. CASE UNCHANGED target
    BY <2>0, <2>1, SameReservation DEF Occupying
  <2>2. CASE target' = [target EXCEPT ![p] = "alive"]
    <3>1. Working' = Working \cup {p}
      BY <2>2 DEF Working, TypeOK
    <3>2. Reservation!Holds(p) \/ p \in recovered
      BY <2>0, HolderUnique DEF ObserverInv, Covered, ReservationInv, Reservation!Holds, HolderMap, Holder, Roots
    <3>3. HolderMap' = HolderMap
      BY <2>0, SameHolders DEF Occupying
    <3>4. Reservation!StartWork(p)
      BY <2>0, <3>1, <3>2, <3>3 DEF Reservation!StartWork, Reservation!Holds, HolderMap, Holder, Roots, Working
    <3> QED BY <3>4 DEF Reservation!Next
  <2> QED BY <1>2, <2>1, <2>2 DEF Spawn
<1>3. ASSUME NEW p \in Cli, TargetExit(p) PROVE Reservation!Next
  <2>1. UNCHANGED <<run, recovered>> /\ Working' = Working \ {p}
    BY <1>3 DEF TargetExit, store, Working, TypeOK
  <2>2. HolderMap' = HolderMap
    BY <2>1, SameHolders DEF Occupying
  <2>3. Reservation!StopWork(p)
    BY <2>1, <2>2 DEF Reservation!StopWork, HolderMap, Holder, Roots, Working
  <2> QED BY <2>3 DEF Reservation!Next
<1>4. ASSUME NEW p \in Cli, Finish(p) PROVE [Reservation!Next]_Reservation!vars
  <2>1. Occupying(p)
    BY <1>4, FinishEffect DEF ReservationInv, LaunchOccupies
  <2>2. CASE result[p] = "unknown"
    <3>1. \A q \in Cli : Occupying(q)' <=> Occupying(q)
      BY <1>4, <2>1, <2>2, FinishEffect DEF Occupying
    <3> QED BY <1>4, <3>1, FinishEffect, SameReservation
  <2>3. CASE result[p] # "unknown"
    <3>1. target[p] # "alive" /\ ~Occupying(p)' /\ \A q \in Cli \ {p} : Occupying(q)' <=> Occupying(q)
      BY <1>4, <2>3, FinishEffect DEF ObserverInv, Occupying
    <3>2. HolderMap' = [HolderMap EXCEPT ![rootOf[handoffOf[p]]] = None]
      BY <2>1, <3>1, HolderFreed DEF ReservationInv
    <3>3. HolderMap[rootOf[handoffOf[p]]] = p /\ p \notin Working /\ Working' = Working /\ recovered' = recovered
      BY <1>4, <2>1, <3>1, FinishEffect, HolderUnique DEF ReservationInv, Working
    <3>4. Reservation!Release(p, rootOf[handoffOf[p]])
      BY <3>2, <3>3 DEF Reservation!Release, HolderMap, Holder, Roots, Working
    <3> QED BY <2>1, <3>4, HolderUnique DEF Reservation!Next, Roots, ReservationInv
  <2> QED BY <2>2, <2>3
<1>5. ASSUME NEW p \in Cli, Recover(p) PROVE Reservation!Next
  <2>1. Occupying(p) /\ ~Occupying(p)' /\ \A q \in Cli \ {p} : Occupying(q)' <=> Occupying(q)
    BY <1>5, RecoverEffect DEF Occupying
  <2>2. HolderMap' = [HolderMap EXCEPT ![rootOf[handoffOf[p]]] = None]
    BY <2>1, HolderFreed DEF ReservationInv
  <2>3. Reservation!Override(p, rootOf[handoffOf[p]])
    BY <1>5, <2>1, <2>2, RecoverEffect, HolderUnique
    DEF Reservation!Override, HolderMap, Holder, Roots, ReservationInv
  <2> QED BY <2>1, <2>3, HolderUnique DEF Reservation!Next, Roots, ReservationInv
<1>6. ASSUME NEW p \in Cli, RecordTarget(p) PROVE UNCHANGED Reservation!vars
  <2>1. \A q \in Cli : Occupying(q)' <=> Occupying(q)
    BY <1>6, RecordTargetEffect DEF Occupying
  <2> QED BY <1>6, <2>1, RecordTargetEffect, SameReservation
<1>7. ASSUME NEW p \in Cli,
             \/ BeginReview(p) \/ Cancel(p) \/ AcceptReview(p) \/ Confirm(p) \/ AuthorizePlan(p)
             \/ CheckCapacity(p) \/ Leave(p) \/ StartObservation(p) \/ ObserveSpawned(p) \/ ObserveExit(p)
             \/ FinishObservation(p)
      PROVE  UNCHANGED Reservation!vars
  <2>1. UNCHANGED <<run, target, recovered>>
    BY <1>7 DEF BeginReview, Cancel, AcceptReview, Confirm, AuthorizePlan, CheckCapacity, Leave,
         StartObservation, ObserveSpawned, ObserveExit, FinishObservation, Abort, store
  <2> QED BY <2>1, SameReservation DEF Occupying
<1>8. ASSUME NEW h \in Handoffs, Drift(h) \/ WebConfirmRead(h) \/ WebConfirm(h) PROVE UNCHANGED Reservation!vars
  <2>1. UNCHANGED <<run, target, recovered>>
    BY <1>8 DEF Drift, WebConfirmRead, WebConfirm, store
  <2> QED BY <2>1, SameReservation DEF Occupying
<1>9. ASSUME NEW h \in Handoffs, Reconcile(h) PROVE UNCHANGED Reservation!vars
  <2>1. \A q \in Cli : Occupying(q)' <=> Occupying(q)
    BY <1>9, ReconcileEffect DEF Occupying
  <2> QED BY <1>9, <2>1, ReconcileEffect, SameReservation
<1>10. CASE Prune
  <2>1. \A q \in Cli : Occupying(q)' <=> Occupying(q)
    BY <1>10, PruneEffect DEF Occupying
  <2> QED BY <1>10, <2>1, PruneEffect, SameReservation
<1>11. CASE UNCHANGED vars
  <2>1. UNCHANGED <<run, target, recovered>>
    BY <1>11 DEF vars, store
  <2> QED BY <2>1, SameReservation DEF Occupying
<1> QED
  BY <1>1, <1>2, <1>3, <1>4, <1>5, <1>6, <1>7, <1>8, <1>9, <1>10, <1>11 DEF Next, Observer

\* ADR 0011: every step of claim, finish, reconcile, recovery and retention is
\* a step of the abstract reservation of workspaces, or leaves it alone.
THEOREM Refinement == Spec => ImplementsReservation
<1>1. Init => Reservation!Init
  BY DEF Init, Reservation!Init, HolderOf, Occupying, NoRun
<1> QED BY <1>1, ReservationSteps, RecordsInvariant, PTL DEF Spec, ImplementsReservation, Reservation!Spec
=============================================================================
