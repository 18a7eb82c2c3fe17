------------------------------- MODULE Takeover -------------------------------
(* TakeoverManager (control-plane/takeover.ts): a user takes a run over from *)
(* the session that drives it.  request() asks a controller to stop the run  *)
(* and races its answer against a deadline; the steps that follow may be     *)
(* called, and the takeover closed, at any time, also while request() is     *)
(* still waiting.  Each method is one turn of the event loop, request() is   *)
(* two: up to its await, and its continuation once the race is decided.      *)

CONSTANTS
  Takeovers,   \* identities of takeovers (bound)
  TakenRuns,
  Sessions,
  NoSession

ASSUME TakeoverAssumption == NoSession \notin Sessions /\ NoSession \notin TakenRuns

VARIABLES
  takeover,    \* the manager's records
  race,        \* of every request(): idle, running, or how the race ended
  stopped      \* runs that have really stopped

takeoverVars == <<takeover, race, stopped>>

NoTakeover == [status |-> "none", run |-> NoSession, owner |-> NoSession, successor |-> NoSession]

Status(t) == takeover[t].status
Move(t, status) == takeover' = [takeover EXCEPT ![t].status = status]

\* Weakened form: a takeover that became active no longer counts.
UnderWay(t) == Status(t) \notin {"none", "closed", "stop-unavailable", "active"}
Active(t) == Status(t) \notin {"none", "closed", "stop-unavailable"}

TakeoverInit ==
  /\ takeover = [t \in Takeovers |-> NoTakeover]
  /\ race = [t \in Takeovers |-> "idle"]
  /\ stopped = {}

-----------------------------------------------------------------------------
(* request                                                                   *)

\* Up to the await: no controller, one that throws at once, or one that works.
Request(t, r, s, control) ==
  /\ takeover[t] = NoTakeover
  /\ \A u \in Takeovers : takeover[u].run = r => ~Active(u)
  /\ takeover' = [takeover EXCEPT ![t] =
       [status |-> IF control = "works" THEN "stop-requested" ELSE "stop-unavailable",
        run |-> r, owner |-> s, successor |-> NoSession]]
  /\ race' = [race EXCEPT ![t] = IF control = "works" THEN "running" ELSE "idle"]
  /\ UNCHANGED stopped

StopRun(r) ==
  /\ r \notin stopped
  /\ stopped' = stopped \cup {r}
  /\ UNCHANGED <<takeover, race>>

\* The controller answers "yes" only for a run that has stopped.
Answer(t, answer) ==
  /\ race[t] = "running"
  /\ answer = "yes" => takeover[t].run \in stopped
  /\ race' = [race EXCEPT ![t] = answer]
  /\ UNCHANGED <<takeover, stopped>>

Deadline(t) ==
  /\ race[t] = "running"
  /\ race' = [race EXCEPT ![t] = "no"]
  /\ UNCHANGED <<takeover, stopped>>

\* Weakened form: the record's status is not looked at again.
OutcomeUnchecked(t) == IF race[t] = "yes" THEN "stop-confirmed" ELSE "stop-unavailable"

\* Weakened form: only an answer changes the record.
OutcomeOfAnswer(t) ==
  IF Status(t) = "stop-requested" /\ race[t] = "yes" THEN "stop-confirmed" ELSE Status(t)

Outcome(t) ==
  IF Status(t) # "stop-requested" THEN Status(t)
  ELSE IF race[t] = "yes" THEN "stop-confirmed" ELSE "stop-unavailable"

\* The continuation; it reads the record as it is by then.
AfterRace(t) ==
  /\ race[t] \in {"yes", "no", "failed"}
  /\ Move(t, Outcome(t))
  /\ race' = [race EXCEPT ![t] = "idle"]
  /\ UNCHANGED stopped

-----------------------------------------------------------------------------
(* The later steps                                                           *)

AwaitingStop(t) == Status(t) = "stop-requested"

\* The user saw the run stop.
ConfirmStop(t) ==
  /\ AwaitingStop(t)
  /\ takeover[t].run \in stopped
  /\ Move(t, "stop-confirmed")
  /\ UNCHANGED <<race, stopped>>

FixSnapshot(t) ==
  /\ Status(t) = "stop-confirmed"
  /\ Move(t, "snapshot-fixed")
  /\ UNCHANGED <<race, stopped>>

StopKnown(t) == Status(t) \in {"stop-confirmed", "snapshot-fixed"}

ConfirmSuccessor(t, s) ==
  /\ StopKnown(t)
  /\ takeover' = [takeover EXCEPT ![t] = [@ EXCEPT !.status = "successor-confirmed", !.successor = s]]
  /\ UNCHANGED <<race, stopped>>

\* Weakened form: a fixed snapshot is enough.
SuccessorOrSnapshot(t) == Status(t) \in {"snapshot-fixed", "successor-confirmed"}
SuccessorKnown(t) == Status(t) = "successor-confirmed"

Activate(t) ==
  /\ SuccessorKnown(t)
  /\ takeover' = [takeover EXCEPT ![t] = [@ EXCEPT !.status = "active", !.owner = takeover[t].successor]]
  /\ UNCHANGED <<race, stopped>>

Close(t) ==
  /\ Status(t) \notin {"none", "closed"}
  /\ Move(t, "closed")
  /\ UNCHANGED <<race, stopped>>

-----------------------------------------------------------------------------
TakeoverNext ==
  \/ \E r \in TakenRuns : StopRun(r)
  \/ \E t \in Takeovers :
       \/ \E r \in TakenRuns, s \in Sessions, control \in {"missing", "throws", "works"} :
            Request(t, r, s, control)
       \/ \E answer \in {"yes", "no", "failed"} : Answer(t, answer)
       \/ Deadline(t) \/ AfterRace(t)
       \/ ConfirmStop(t) \/ FixSnapshot(t) \/ Activate(t) \/ Close(t)
       \/ \E s \in Sessions : ConfirmSuccessor(t, s)

TakeoverSpec == TakeoverInit /\ [][TakeoverNext]_takeoverVars

\* The timer of a pending request fires and continuations are run.
FairTakeovers == TakeoverSpec /\ \A t \in Takeovers : WF_takeoverVars(Deadline(t)) /\ WF_takeoverVars(AfterRace(t))

-----------------------------------------------------------------------------
(* Properties                                                                *)

Statuses == {"stop-requested", "stop-confirmed", "stop-unavailable", "snapshot-fixed",
             "successor-confirmed", "active", "closed"}
Records == [status : Statuses, run : TakenRuns, owner : Sessions, successor : Sessions \cup {NoSession}]

\* Records and races keep their types; a record always has an owner.
TakeoverTypes ==
  /\ takeover \in [Takeovers -> Records \cup {NoTakeover}]
  /\ race \in [Takeovers -> {"idle", "running", "yes", "no", "failed"}]
  /\ stopped \subseteq TakenRuns

Holding == {"stop-requested", "stop-confirmed", "snapshot-fixed", "successor-confirmed", "active"}

\* takeover.ts: "A takeover is already active for this run."  However requests
\* wait, time out, are confirmed and closed, a run has one takeover at a time.
OneTakeoverPerRun ==
  \A t, u \in Takeovers :
    Status(t) \in Holding /\ Status(u) \in Holding /\ takeover[t].run = takeover[u].run => t = u

StopProven == {"stop-confirmed", "snapshot-fixed", "successor-confirmed", "active"}

\* A successor is prepared, and becomes the owner, only for a run that has
\* stopped, if answers and confirmations are truthful.
StoppedBeforeSuccession ==
  \A t \in Takeovers : Status(t) \in StopProven => takeover[t].run \in stopped

\* A run passes to one successor at a time, and never while it may still act.
SuccessionSafe == OneTakeoverPerRun /\ StoppedBeforeSuccession

\* Whoever loses the race between answer, deadline, user and close does no
\* harm: a deadline or a failing controller does not take back a stop that was
\* confirmed, and a late answer revives neither a closed takeover nor one that
\* was given up.
LateAnswerHarmless ==
  [][\A t \in Takeovers :
       /\ Status(t) \in StopProven => Status(t)' \in StopProven \cup {"closed"}
       /\ Status(t) = "closed" => UNCHANGED takeover[t]
       /\ Status(t) = "stop-unavailable" => Status(t)' \in {"stop-unavailable", "closed"}]_takeoverVars

\* A controller that never answers does not hold the run for ever.
RequestSettles ==
  \A t \in Takeovers : Status(t) = "stop-requested" ~> Status(t) # "stop-requested"
=============================================================================
