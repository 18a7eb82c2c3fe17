------------------------------- MODULE Evidence -------------------------------
(* What a handoff says about commands that ran before it: the processes that *)
(* ThreadPort itself observed between two snapshots of a workspace, the      *)
(* commands of the session log, and the results an agent's hook or export    *)
(* claims for its own commands.  The workspaces go on changing meanwhile.    *)
EXTENDS Naturals, Sequences, FiniteSets

CONSTANTS
  Workspaces,
  home,         \* workspace the source session is bound to, None when unbound
  Subjects,     \* states of a workspace, told apart by head and fingerprint
  None,
  Busy,         \* bound: the workspaces that change
  Budgets,      \* bounds: how many snapshots, observed runs and imported claims
  Origins       \* where a claim comes from

ASSUME EvidenceAssumption ==
  /\ home \in Workspaces \cup {None} /\ None \notin Workspaces \cup Subjects \cup Nat
  /\ Origins \subseteq {"agent-hook", "native-import"}

VARIABLES
  subject,     \* the present state of every workspace
  snapshots,   \* stored snapshots; a snapshot's number is its id
  runs,        \* execution observations
  bounds,      \* the bounds this behaviour keeps
  logged,      \* the session log holds a command of its own
  claim,       \* the inner observation that was imported, if any
  review,      \* the preparation of a handoff that is under way
  handoff      \* the prepared handoff

evidenceVars == <<subject, snapshots, runs, bounds, logged, claim, review, handoff>>

fixed == <<bounds, logged>>

-----------------------------------------------------------------------------
(* Workspaces and their snapshots.                                           *)

Taken(w, whole) == [workspace |-> w, content |-> subject[w], whole |-> whole, kept |-> TRUE]

\* getSnapshot: a snapshot that was pruned, or was never stored, reads as null.
Stored(id) == IF id \in DOMAIN snapshots /\ snapshots[id].kept THEN snapshots[id] ELSE None

\* compareWorkspaceSnapshots: identity and completeness before content.
Compare(s, t) ==
  IF s.workspace # t.workspace \/ ~s.whole \/ ~t.whole THEN "unverifiable"
  ELSE IF s.content = t.content THEN "matched" ELSE "drifted"

Work(w) ==
  /\ \E c \in Subjects \ {subject[w]} : subject' = [subject EXCEPT ![w] = c]
  /\ UNCHANGED <<fixed, snapshots, runs, claim, review, handoff>>

-----------------------------------------------------------------------------
(* Observed processes (observation-store.ts, launch.ts).                     *)

\* The launch follows a confirmation that compared the review snapshot with the
\* workspace; what changes between the two changes during the run.
Start ==
  /\ handoff # None /\ Len(runs) < bounds.runs
  /\ \A r \in DOMAIN runs : runs[r].before # handoff.snapshot
  /\ Compare(snapshots[handoff.snapshot], Taken(handoff.workspace, TRUE)) = "matched"
  /\ runs' = Append(runs, [before |-> handoff.snapshot, after |-> None, workspace |-> handoff.workspace,
                           started |-> FALSE, finished |-> FALSE, status |-> "running", exit |-> None,
                           began |-> subject[handoff.workspace], ended |-> None])
  /\ UNCHANGED <<fixed, subject, snapshots, claim, review, handoff>>

Spawned(r) ==
  /\ runs[r].status = "running" /\ ~runs[r].started
  /\ runs' = [runs EXCEPT ![r].started = TRUE]
  /\ UNCHANGED <<fixed, subject, snapshots, claim, review, handoff>>

\* An exit code is recorded of a process that was seen to start and to end by
\* itself; the capture after it may fail or be incomplete.
ExitOf(started, status) == IF started /\ status = "exited" THEN "code" ELSE None

Finish(r) ==
  /\ runs[r].status = "running"
  /\ \E status \in {"exited", "interrupted", "unknown"} : \E captured \in {"whole", "incomplete", "failed"} :
       /\ captured # "failed" => Len(snapshots) < bounds.snapshots
       /\ snapshots' = IF captured = "failed" THEN snapshots
                       ELSE Append(snapshots, Taken(runs[r].workspace, captured = "whole"))
       /\ runs' = [runs EXCEPT ![r] =
            [@ EXCEPT !.status = status, !.finished = TRUE, !.ended = subject[runs[r].workspace],
                      !.exit = ExitOf(runs[r].started, status),
                      !.after = IF captured = "failed" THEN None ELSE Len(snapshots')]]
  /\ UNCHANGED <<fixed, subject, claim, review, handoff>>

\* Retention: the text of an old handoff is dropped, and so are old snapshots
\* that neither a handoff nor an observation refers to.
Retain ==
  /\ handoff # None
  /\ handoff' = None
  /\ UNCHANGED <<fixed, subject, snapshots, runs, claim, review>>

Referenced(id) ==
  \/ handoff # None /\ handoff.snapshot = id
  \/ \E r \in DOMAIN runs : id \in {runs[r].before, runs[r].after}

Prune(id) ==
  /\ snapshots[id].kept /\ ~Referenced(id)
  /\ snapshots' = [snapshots EXCEPT ![id].kept = FALSE]
  /\ UNCHANGED <<fixed, subject, runs, claim, review, handoff>>

-----------------------------------------------------------------------------
(* evaluateCommandEvidence: what the record of one run says today.           *)

\* The recorded workspace against the one under review.
WorkspaceOf(r, current) ==
  LET historical == Stored(r.before) IN
    IF historical = None THEN "unverifiable" ELSE Compare(historical, current)

IncompleteIfUnseen(r) ==
  ~r.started \/ ~r.finished \/ Stored(r.after) = None \/ r.status \in {"running", "unknown"}
\* The run was not seen from end to end, or the workspace changed under it.
Incomplete(r) ==
  LET historical == Stored(r.before)  after == Stored(r.after) IN
    \/ ~r.started \/ ~r.finished \/ after = None \/ r.status \in {"running", "unknown"}
    \/ historical # None /\ after # None /\ Compare(historical, after) # "matched"

CommandEvidence(r, current) ==
  LET workspace == WorkspaceOf(r, current) IN
    [workspace |-> workspace,
     applicability |-> IF r.exit = None \/ Incomplete(r) THEN "unverified"
                       ELSE IF workspace = "drifted" THEN "stale" ELSE "unknown"]

\* A command of the log has no snapshot.
NativeEvidence == [workspace |-> "unverifiable", applicability |-> "unknown"]

Severity(status) == CASE status = "matched" -> 0 [] status = "drifted" -> 1 [] status = "unverifiable" -> 2
Worst(statuses) == CHOOSE s \in statuses : \A t \in statuses : Severity(t) <= Severity(s)

-----------------------------------------------------------------------------
(* evaluateInnerObservation: what a structured claim of an agent is worth.   *)

Claims ==
  [origin : Origins, finished : BOOLEAN, environment : BOOLEAN,
   before : 1 .. Len(snapshots) \cup {None}, after : 1 .. Len(snapshots) \cup {None}]

Reasons(c, current) ==
  LET before == IF c.before = None THEN None ELSE Stored(c.before)
      after == IF c.after = None THEN None ELSE Stored(c.after)
      foreign(s) == s # None /\ s.workspace # current.workspace
      now == IF before = None \/ foreign(before) THEN "matched" ELSE Compare(before, current)
      during == IF before = None \/ after = None \/ foreign(before) \/ foreign(after) THEN "matched"
                ELSE Compare(before, after)
      reason(condition, name) == IF condition THEN {name} ELSE {}
  IN UNION
     {reason(foreign(before) \/ foreign(after), "SNAPSHOT_WORKSPACE_MISMATCH"),
      reason(~c.finished \/ c.after = None, "PARTIAL_LOG"),
      reason(before = None, IF c.origin = "native-import" THEN "NATIVE_IMPORT_UNBOUND" ELSE "SNAPSHOT_MISSING"),
      reason(now = "drifted", "WORKSPACE_CHANGED"),
      reason("unverifiable" \in {now, during} \/ (c.after # None /\ after = None), "SNAPSHOT_UNVERIFIABLE"),
      reason(during = "drifted", "EXECUTION_WORKSPACE_CHANGED"),
      reason(~c.environment, "ENVIRONMENT_UNKNOWN")}

Applicability(reasons) ==
  IF "EVENT_MISMATCH" \in reasons THEN "unverified"
  ELSE IF "NATIVE_IMPORT_UNBOUND" \in reasons THEN "unknown"
  ELSE IF "PARTIAL_LOG" \in reasons THEN "unverified"
  ELSE IF reasons \cap {"WORKSPACE_CHANGED", "EXECUTION_WORKSPACE_CHANGED"} # {} THEN "stale"
  ELSE IF reasons # {} THEN "unknown" ELSE "current"

\* saveInnerObservation: a claim about another workspace's snapshots loses its
\* result.  The event it becomes is named after the one the claim names.
Import(c) ==
  /\ claim = None /\ bounds.claims > 0
  /\ LET named == {s \in {Stored(id) : id \in {c.before, c.after} \ {None}} : s # None}
         foreign == \E s \in named : home = None \/ s.workspace # home IN
     claim' = [observation |-> IF foreign
                               THEN [c EXCEPT !.finished = FALSE, !.environment = FALSE, !.before = None, !.after = None]
                               ELSE c,
               about |-> "event", storedAs |-> "inner:event"]
  /\ UNCHANGED <<fixed, subject, snapshots, runs, review, handoff>>

\* prepareInnerEvidence: the claim must name the event it is stored with.
InnerEvidence(stored, current) ==
  IF stored = None THEN None
  ELSE IF stored.about # stored.storedAs THEN Applicability({"EVENT_MISMATCH"})
  ELSE Applicability(Reasons(stored.observation, current))

-----------------------------------------------------------------------------
(* prepareHandoff, between its awaits.                                       *)

Idle == [step |-> "idle"]
Reviewing(step) == review.step = step
Refuse == review' = Idle /\ UNCHANGED <<fixed, subject, snapshots, runs, claim, handoff>>

\* The task's events are read before the workspace is captured ...
Begin(w) ==
  /\ Reviewing("idle") /\ handoff = None
  /\ review' = [step |-> "reading", workspace |-> w, claim |-> claim]
  /\ UNCHANGED <<fixed, subject, snapshots, runs, claim, handoff>>

Capture ==
  /\ Reviewing("reading")
  /\ \/ Refuse
     \/ /\ review' = [step |-> "captured", claim |-> review.claim,
                       current |-> Taken(review.workspace, TRUE)]
        /\ UNCHANGED <<fixed, subject, snapshots, runs, claim, handoff>>

\* ... the observations after it.  Every command counts for the verification.
HandoffReport(current, stored) ==
  LET commands == [r \in DOMAIN runs |-> CommandEvidence(runs[r], current)] IN
    [commands |-> commands, inner |-> InnerEvidence(stored, current),
     verification |-> Worst({commands[r].workspace : r \in DOMAIN runs} \cup {"matched"}
                            \cup (IF logged THEN {NativeEvidence.workspace} ELSE {}))]

Evaluate ==
  /\ Reviewing("captured")
  /\ review' = [step |-> "verifying", current |-> review.current, claim |-> review.claim,
                report |-> HandoffReport(review.current, review.claim)]
  /\ UNCHANGED <<fixed, subject, snapshots, runs, claim, handoff>>

\* verifyWorkspace: the handoff is stored if the workspace is still the same.
Save ==
  /\ Reviewing("verifying") /\ Len(snapshots) < bounds.snapshots
  /\ \E whole \in BOOLEAN :
       IF Compare(review.current, Taken(review.current.workspace, whole)) # "matched" THEN Refuse
       ELSE /\ snapshots' = Append(snapshots, review.current)
            /\ handoff' = [workspace |-> review.current.workspace, snapshot |-> Len(snapshots'), seen |-> subject[review.current.workspace],
                           report |-> review.report, claim |-> review.claim]
            /\ review' = Idle
            /\ UNCHANGED <<fixed, subject, runs, claim>>

-----------------------------------------------------------------------------
EvidenceInit ==
  /\ \E c \in Subjects : subject = [w \in Workspaces |-> c]
  /\ snapshots = <<>> /\ runs = <<>>
  /\ logged \in BOOLEAN /\ bounds \in Budgets /\ claim = None
  /\ review = Idle /\ handoff = None

EvidenceNext ==
  \/ \E w \in Workspaces : (w \in Busy /\ Work(w)) \/ Begin(w)
  \/ \E r \in DOMAIN runs : Spawned(r) \/ Finish(r)
  \/ \E id \in DOMAIN snapshots : Prune(id)
  \/ \E c \in Claims : c.finished /\ c.environment /\ Import(c)
  \/ Start \/ Retain \/ Capture \/ Evaluate \/ Save

EvidenceSpec == EvidenceInit /\ [][EvidenceNext]_evidenceVars

-----------------------------------------------------------------------------
(* Properties                                                                *)

\* A prepared handoff says of an observed run only what is so: "matched" and not
\* "unverified" is a run that was seen from its start to its end and left the
\* workspace as it found it and as it is under review; "stale" is such a run
\* after which this workspace, and no other, changed.  All of it is "matched"
\* only if no command of any kind was left out of the comparison.
CommandsAreEarned ==
  handoff # None =>
    LET w == handoff.workspace  report == handoff.report IN
      /\ \A r \in DOMAIN report.commands :
           LET run == runs[r]  said == report.commands[r]
               observed == run.started /\ run.finished /\ run.exit # None /\ run.workspace = w
                           /\ run.ended = run.began IN
             /\ said.applicability = "stale" => observed /\ run.began # handoff.seen
             /\ said.workspace = "matched" =>
                  /\ run.workspace = w /\ run.began = handoff.seen
                  /\ said.applicability = "unknown" => observed
      /\ report.verification = "matched" =>
           \A r \in DOMAIN report.commands : report.commands[r].workspace = "matched"

\* docs/adr/0014: a structured claim is current only if it is complete and the
\* workspace is, in its snapshots before and after and under review, the same;
\* it is stale only if the claim is about this workspace and that changed.  What
\* was pruned, or belongs to another workspace, never makes it either.
ClaimsAreEarned ==
  Reviewing("captured") =>
    \A c \in Claims :
      LET verdict == Applicability(Reasons(c, review.current))
          same(id) == /\ snapshots[id].workspace = review.current.workspace
                      /\ snapshots[id].content = review.current.content
      IN /\ verdict = "current" =>
              /\ c.finished /\ c.environment /\ c.before # None /\ c.after # None
              /\ \A id \in {c.before, c.after} : snapshots[id].kept /\ snapshots[id].whole /\ same(id)
         /\ verdict = "stale" =>
              /\ c.finished /\ snapshots[c.before].workspace = review.current.workspace
              /\ ~same(c.before) \/ ~same(c.after)

EvidenceEarned == CommandsAreEarned /\ ClaimsAreEarned

\* docs/adr/0014: a complete structured result whose bound snapshots still match
\* the reviewed workspace is current.
CompleteClaimsCount ==
  handoff # None /\ handoff.claim # None =>
    (Reasons(handoff.claim.observation, snapshots[handoff.snapshot]) = {} => handoff.report.inner = "current")
=============================================================================
