------------------------- MODULE AgentCertification -------------------------
(* The developer harness for agent certification (scripts/agent-             *)
(* certification): prepare makes an experiment in a directory of its own,    *)
(* drift makes the human edit of scenario C in it, judge reports on the      *)
(* files, and validate compares an operator's record with all of that.       *)
(* Commands may be killed between any two file operations; the operator and  *)
(* the agent under test change files at any time, also while they are read,  *)
(* and may put a record of one experiment into another.  A digest stands for *)
(* what it was taken of; everything a binding pins is one version (tool).    *)
EXTENDS Naturals, Sequences

CONSTANTS
  Dirs,
  Commands,   \* processes of the command line
  Missing,
  Edited,     \* bound: the directories in which something is changed by hand
  Spoiled,    \* bound: what may be spoiled there
  Allowances  \* bound: processes at once, versions of the harness, changes by hand

\* What may be spoiled is a file that prepare makes.
ASSUME CertificationAssumption ==
  /\ Edited \subseteq Dirs /\ Spoiled \subseteq {"protected", "context", "baseline"}
  /\ Allowances \subseteq [commands : SUBSET Commands, tools : Nat, edits : Nat]

VARIABLES
  tool,
  dir,      \* the files of every experiment
  cmd,      \* what a command is doing
  drifts,   \* the drift records that were ever written
  reports,  \* the satisfied final reports that were ever put out
  passed,   \* answers complete-unverified: preparation and record
  allowance

certificationVars == <<tool, dir, cmd, drifts, reports, passed, allowance>>

NotRunning == [pc |-> "idle"]

\* protected: every file nobody may edit, and no file too many; sum.mjs is the
\* agent's; NOTES.md exists in scenario C; baseline is the saved report.
NoDir == [made |-> FALSE, prep |-> Missing, protected |-> FALSE, sum |-> "other", notes |-> "other",
          context |-> FALSE, baseline |-> FALSE, drift |-> Missing, evidence |-> Missing, edited |-> FALSE]

Copied == [NoDir EXCEPT !.made = TRUE, !.protected = TRUE, !.sum = "before", !.notes = "before"]

Preparations == {dir[d].prep : d \in Dirs} \ {Missing}

CertificationInit ==
  /\ tool = 1 /\ allowance \in Allowances
  /\ dir = [d \in Dirs |-> NoDir]
  /\ cmd = [c \in Commands |-> NotRunning]
  /\ drifts = {} /\ reports = {} /\ passed = {}

Put(d, name, value) == dir' = [dir EXCEPT ![d][name] = value]
Go(c, state) == cmd' = [cmd EXCEPT ![c] = state]
Step(c, pc) == Go(c, [cmd[c] EXCEPT !.pc = pc])
Done(c) == Go(c, NotRunning)

-----------------------------------------------------------------------------
(* prepare: a new directory, its files one by one, preparation.json last.    *)

\* Weakened form: the preparation comes before what it speaks of.
PreparationEarly == <<"workspace", "context", "preparation", "baseline">>
Order == <<"workspace", "context", "baseline", "preparation">>

\* The command goes on to the next file, and ends with the last.
WriteNext(c) ==
  LET i == CHOOSE i \in DOMAIN Order : Order[i] = cmd[c].pc
  IN IF i = Len(Order) THEN Done(c) ELSE Step(c, Order[i + 1])

Prepare(c, d, scenario) ==
  /\ cmd[c] = NotRunning /\ ~dir[d].made
  /\ Put(d, "made", TRUE)
  /\ Go(c, [pc |-> "workspace", dir |-> d, tool |-> tool, scenario |-> scenario])
  /\ UNCHANGED <<tool, drifts, reports, passed, allowance>>

CopyFiles(c) ==
  /\ cmd[c].pc = "workspace" /\ dir' = [dir EXCEPT ![cmd[c].dir] = Copied]
  /\ WriteNext(c)
  /\ UNCHANGED <<tool, drifts, reports, passed, allowance>>

WriteContext(c) ==
  /\ cmd[c].pc = "context" /\ Put(cmd[c].dir, "context", TRUE)
  /\ WriteNext(c)
  /\ UNCHANGED <<tool, drifts, reports, passed, allowance>>

WriteBaseline(c) ==
  /\ cmd[c].pc = "baseline" /\ Put(cmd[c].dir, "baseline", TRUE)
  /\ WriteNext(c)
  /\ UNCHANGED <<tool, drifts, reports, passed, allowance>>

WritePreparation(c) ==
  /\ cmd[c].pc = "preparation"
  /\ Put(cmd[c].dir, "prep", [run |-> cmd[c].dir, tool |-> cmd[c].tool, scenario |-> cmd[c].scenario])
  /\ WriteNext(c)
  /\ UNCHANGED <<tool, drifts, reports, passed, allowance>>

-----------------------------------------------------------------------------
(* preparedRun and inspect, which reads one file after the other.            *)

Prepared(d) == dir[d].prep # Missing /\ dir[d].prep.tool = tool

Seen == [protected |-> FALSE, sum |-> "other", notes |-> "other"]
Inspect(c, d, command, record) ==
  Go(c, [pc |-> "files", command |-> command, dir |-> d, prep |-> dir[d].prep,
         seen |-> Seen, record |-> record])

\* One file is read, and the next one is up.
LookFor(c, name, next) ==
  Go(c, [cmd[c] EXCEPT !.pc = next, !.seen[name] = dir[cmd[c].dir][name]])

LookAtFiles(c) ==
  /\ cmd[c].pc = "files" /\ LookFor(c, "protected", "sum")
  /\ UNCHANGED <<tool, dir, drifts, reports, passed, allowance>>
LookAtSum(c) ==
  /\ cmd[c].pc = "sum" /\ LookFor(c, "sum", "notes")
  /\ UNCHANGED <<tool, dir, drifts, reports, passed, allowance>>
LookAtNotes(c) ==
  /\ cmd[c].pc = "notes" /\ LookFor(c, "notes", "report")
  /\ UNCHANGED <<tool, dir, drifts, reports, passed, allowance>>

DriftIntact(p, record) == record # Missing /\ record = [prep |-> p]

\* report: what was seen of the workspace and, at last, of the other records.
Report(c) ==
  LET d == cmd[c].dir
      p == cmd[c].prep
  IN [scenario |-> p.scenario, tool |-> p.tool, seen |-> cmd[c].seen,
      context |-> dir[d].context, baseline |-> dir[d].baseline,
      drift |-> p.scenario = "C" /\ DriftIntact(p, dir[d].drift)]

Untouched(r) ==
  r.seen.protected /\ r.context /\ r.seen.sum = "before" /\ (r.scenario = "C" => r.seen.notes = "before")
Satisfied(r) ==
  /\ r.seen.protected /\ r.context /\ r.baseline /\ r.seen.sum = "after"
  /\ r.scenario = "C" => r.seen.notes = "after" /\ r.drift

Judge(c, d) ==
  /\ cmd[c] = NotRunning /\ Prepared(d) /\ Inspect(c, d, "judge", Missing)
  /\ UNCHANGED <<tool, dir, drifts, reports, passed, allowance>>

Judged(c) ==
  /\ cmd[c].pc = "report" /\ cmd[c].command = "judge"
  /\ reports' = IF Satisfied(Report(c)) THEN reports \cup {Report(c)} ELSE reports
  /\ Done(c)
  /\ UNCHANGED <<tool, dir, drifts, passed, allowance>>

-----------------------------------------------------------------------------
(* drift: on an untouched baseline of scenario C, once.                      *)

Drift(c, d) ==
  /\ cmd[c] = NotRunning /\ Prepared(d) /\ dir[d].prep.scenario = "C"
  /\ Inspect(c, d, "drift", Missing)
  /\ UNCHANGED <<tool, dir, drifts, reports, passed, allowance>>

\* The baseline is satisfied, there is no record, and NOTES.md is as it was.
MayDrift(c) == Untouched(Report(c)) /\ dir[cmd[c].dir].drift = Missing /\ dir[cmd[c].dir].notes = "before"

OpenNotes(c) ==
  /\ cmd[c].pc = "report" /\ cmd[c].command = "drift"
  /\ IF MayDrift(c) THEN Step(c, "write") ELSE Done(c)
  /\ UNCHANGED <<tool, dir, drifts, reports, passed, allowance>>

WriteSome(c) ==
  /\ cmd[c].pc = "write" /\ Step(c, "truncate")
  /\ Put(cmd[c].dir, "notes", IF dir[cmd[c].dir].notes = "after" THEN "after" ELSE "other")
  /\ UNCHANGED <<tool, drifts, reports, passed, allowance>>

Truncate(c) ==
  /\ cmd[c].pc = "truncate" /\ Step(c, "record")
  /\ Put(cmd[c].dir, "notes", "after")
  /\ UNCHANGED <<tool, drifts, reports, passed, allowance>>

\* The record is new, or the command fails; drift.json is never replaced.
RecordDrift(c) ==
  LET d == cmd[c].dir
      record == [prep |-> cmd[c].prep]
  IN
  /\ cmd[c].pc = "record" /\ Done(c)
  /\ IF dir[d].drift # Missing THEN UNCHANGED <<dir, drifts>>
     ELSE Put(d, "drift", record) /\ drifts' = drifts \cup {record}
  /\ UNCHANGED <<tool, reports, passed, allowance>>

-----------------------------------------------------------------------------
(* validate: the record is the run's, its claims are complete, and the files *)
(* are still what its report says.                                           *)

\* completeClaims: the observations and, in scenario C, those of the drift.
ClaimsComplete(e, p) == e.claims /\ (e.drift <=> p.scenario = "C")

Belongs(e, p) == e # Missing /\ e.prep = p

Validate(c, d) ==
  LET e == dir[d].evidence IN
  /\ cmd[c] = NotRunning /\ Prepared(d)
  /\ Belongs(e, dir[d].prep)
  /\ e.state \in {"observed_pass", "observed_with_issue"}   \* others are answered at once
  /\ ClaimsComplete(e, dir[d].prep)
  /\ Inspect(c, d, "validate", e)
  /\ UNCHANGED <<tool, dir, drifts, reports, passed, allowance>>

Validated(c) ==
  LET e == cmd[c].record IN
  /\ cmd[c].pc = "report" /\ cmd[c].command = "validate" /\ Done(c)
  /\ passed' = IF e.report = Report(c) /\ Satisfied(Report(c)) /\ e.state = "observed_pass"
               THEN passed \cup {[prep |-> cmd[c].prep, record |-> e]} ELSE passed
  /\ UNCHANGED <<tool, dir, drifts, reports, allowance>>

-----------------------------------------------------------------------------
(* The world around the harness                                              *)

Change(d, name, value) ==
  /\ dir[d].prep # Missing /\ allowance.edits > 0 /\ allowance' = [allowance EXCEPT !.edits = @ - 1]
  /\ dir' = [dir EXCEPT ![d] = [@ EXCEPT ![name] = value, !.edited = TRUE]]
  /\ UNCHANGED <<tool, cmd, drifts, reports, passed>>

\* The operator fills in the template of an experiment, with a report it has.
Observe(d) ==
  \E p \in Preparations, r \in reports, state \in {"observed_pass", "observed_with_issue"},
     drift \in BOOLEAN :
    Change(d, "evidence", [prep |-> p, state |-> state, claims |-> TRUE, drift |-> drift, report |-> r])

Handle(d) ==
  \/ \E value \in {"after", "other"} : Change(d, "sum", value) \/ Change(d, "notes", value)
  \/ \E name \in Spoiled : Change(d, name, FALSE)
  \/ \E record \in drifts : Change(d, "drift", record)   \* copied from where it was made
  \/ Observe(d)

Upgrade ==
  /\ tool < allowance.tools /\ tool' = tool + 1
  /\ UNCHANGED <<dir, cmd, drifts, reports, passed, allowance>>

Killed(c) ==
  /\ cmd[c] # NotRunning /\ Done(c)
  /\ UNCHANGED <<tool, dir, drifts, reports, passed, allowance>>

Command(c) ==
  \/ \E d \in Dirs : Judge(c, d) \/ Drift(c, d) \/ Validate(c, d)
  \/ \E d \in Dirs, scenario \in {"A", "C"} : Prepare(c, d, scenario)
  \/ CopyFiles(c) \/ WriteContext(c) \/ WriteBaseline(c) \/ WritePreparation(c)
  \/ LookAtFiles(c) \/ LookAtSum(c) \/ LookAtNotes(c)
  \/ Judged(c) \/ OpenNotes(c) \/ WriteSome(c) \/ Truncate(c) \/ RecordDrift(c) \/ Validated(c)
  \/ Killed(c)

CertificationNext == (\E c \in allowance.commands : Command(c)) \/ (\E d \in Edited : Handle(d)) \/ Upgrade
CertificationSpec == CertificationInit /\ [][CertificationNext]_certificationVars

-----------------------------------------------------------------------------
(* Properties                                                                *)

\* prepare: however it was killed, and whoever else prepared the same
\* directory, what has a preparation.json has all its files.
PreparedIsWhole ==
  \A d \in Dirs : dir[d].prep # Missing /\ ~dir[d].edited =>
    dir[d].protected /\ dir[d].context /\ dir[d].baseline

\* agent-certification-harness.md:29: the drift of an experiment is carried out
\* once; where its record stands, the notes are those of the fixed edit, however
\* two commands that make it at once were interleaved or killed.
DriftedOnce ==
  \A d \in Dirs :
    dir[d].drift # Missing /\ ~dir[d].edited => dir[d].notes = "after" /\ dir[d].drift.prep = dir[d].prep

\* validate: an experiment is complete only by a record of its own whose final
\* report was put out, and in scenario C only if its own drift was carried out
\* to the end, whatever was copied from elsewhere.
CompleteIsEarned ==
  \A a \in passed :
    /\ a.record.prep = a.prep /\ a.record.report \in reports
    /\ a.prep.scenario = "C" => [prep |-> a.prep] \in drifts

\* What the harness calls prepared, drifted and complete is so.
CertificationEarned == PreparedIsWhole /\ DriftedOnce /\ CompleteIsEarned
=============================================================================
