---------------------------- MODULE TaskDerivation ----------------------------
(* What a task page derives from the indexed events of the task's sessions:  *)
(* deriveTask folds them in the order of sessions and ordinals, whichever    *)
(* order they were indexed in.                                               *)
EXTENDS Naturals, FiniteSets

CONSTANTS
  TaskSessions,     \* numbers, in the order of the session ids
  Commands,     \* commands with their directories
  Redacted,     \* those in which something was redacted: their identity is lost
  Lines,        \* lines that forbid something
  Absent,
  MaxEvents     \* bound

ASSUME DerivationAssumption ==
  /\ TaskSessions \subseteq Nat /\ Redacted \subseteq Commands /\ Absent \notin Commands \cup Nat

VARIABLES
  log,        \* the indexed events
  attached    \* the sessions of the task

derivationVars == <<log, attached>>

-----------------------------------------------------------------------------
(* Events.  A command event of an import, or of a call without an answer,    *)
(* carries no run.                                                           *)

Messages == [kind : {"user-message"}, lines : SUBSET Lines]
CommandRuns == [kind : {"command"}, command : Commands, exit : {0, 1, Absent}]
UnansweredCall == [kind |-> "command", command |-> Absent, exit |-> Absent]
Bodies == Messages \cup CommandRuns \cup {UnansweredCall}

EventsOf(s) == {e \in log : e.session = s}
NextOrdinal(s) == Cardinality(EventsOf(s)) + 1
Context == {e \in log : e.session \in attached}

Index(s, body) ==
  /\ Cardinality(log) < MaxEvents
  /\ log' = log \cup {[session |-> s, ordinal |-> NextOrdinal(s), body |-> body]}
  /\ UNCHANGED attached

\* A session is reset, cleared or revoked: its events are gone.
Forget(s) ==
  /\ EventsOf(s) # {} /\ log' = log \ EventsOf(s)
  /\ UNCHANGED attached

Attach(s) == s \notin attached /\ attached' = attached \cup {s} /\ UNCHANGED log
Detach(s) == s \in attached /\ attached' = attached \ {s} /\ UNCHANGED log

-----------------------------------------------------------------------------
(* deriveTask.                                                               *)

Before(a, b) == IF a.session = b.session THEN a.ordinal < b.ordinal ELSE a.session < b.session
LastOf(events) == CHOOSE e \in events : \A d \in events \ {e} : Before(d, e)

IsMessage(e) == e.body.kind = "user-message"
IsRun(e) == e.body.kind = "command" /\ e.body.command # Absent
HasCompleteIdentity(e) == e.body.command \notin Redacted

\* commandGroupKey: exactly the session, the directory and the command.
Group(e) == [session |-> e.session, command |-> e.body.command]

Nothing ==
  [objective |-> Absent, constraints |-> [l \in Lines |-> {}], users |-> {}, failed |-> {},
   latest |-> {}, unanswered |-> FALSE]

Said(state, e) ==
  [state EXCEPT !.objective = e,
                !.constraints = [l \in Lines |-> IF l \in e.body.lines THEN @[l] \cup {e} ELSE @[l]],
                !.users = @ \cup {e.session}]

ClearedByAnySuccess(failed, e) ==
  IF e.body.exit = 0 THEN failed \ {Group(e)}
  ELSE IF e.body.exit # Absent THEN failed \cup {Group(e)} ELSE failed

\* A success counts for the group only if it is known to be the same command.
Judged(failed, e) ==
  IF e.body.exit = 0 /\ HasCompleteIdentity(e) THEN failed \ {Group(e)}
  ELSE IF e.body.exit \notin {0, Absent} THEN failed \cup {Group(e)} ELSE failed

Ran(state, e) ==
  [state EXCEPT !.failed = Judged(@, e),
                !.latest = {r \in @ : Group(r) # Group(e)} \cup {e}]

Step(state, e) ==
  IF IsMessage(e) THEN Said(state, e)
  ELSE IF IsRun(e) THEN Ran(state, e) ELSE [state EXCEPT !.unanswered = TRUE]

\* Events are taken in their order: each after all that are before it.
Steps(events) ==
  LET upTo[E \in SUBSET events] ==
        IF E = {} THEN Nothing ELSE Step(upTo[E \ {LastOf(E)}], LastOf(E))
  IN upTo

Derived == Steps(Context)[Context]

Attention ==
  LET flag(condition, code) == IF condition THEN {code} ELSE {} IN
    UNION {flag(Derived.objective = Absent, "OBJECTIVE_UNKNOWN"),
           flag(Cardinality(Derived.users) > 1, "MULTIPLE_SESSION_OBJECTIVES"),
           flag(Derived.failed # {}, "COMMAND_FAILED"),
           flag(Derived.unanswered \/ \E r \in Derived.latest : r.body.exit = Absent, "COMMAND_RESULT_UNKNOWN"),
           flag(\E e \in Context : IsRun(e) /\ ~HasCompleteIdentity(e), "COMMAND_IDENTITY_INCOMPLETE"),
           flag(\E e \in Context : IsRun(e), "HISTORICAL_VALIDITY_UNKNOWN")}

-----------------------------------------------------------------------------
DerivationInit == log = {} /\ attached \in SUBSET TaskSessions

DerivationNext ==
  \E s \in TaskSessions :
    \/ \E body \in Bodies : Index(s, body)
    \/ Forget(s) \/ Attach(s) \/ Detach(s)

DerivationSpec == DerivationInit /\ [][DerivationNext]_derivationVars

-----------------------------------------------------------------------------
(* Properties                                                                *)

Later(a, b) == a.session = b.session /\ a.ordinal < b.ordinal
Answers(f, e) == IsRun(e) /\ Group(e) = Group(f) /\ Later(f, e)

\* A failure of a command is reported until the same command is known to have
\* succeeded in the same session later: no redacted success, no unknown result
\* and nothing in another session hides it, and after such a success it is not
\* reported any more.
FailuresReported ==
  "COMMAND_FAILED" \in Attention <=>
    \E f \in Context :
      /\ IsRun(f) /\ f.body.exit = 1
      /\ ~\E e \in Context : Answers(f, e) /\ e.body.exit = 0 /\ HasCompleteIdentity(e)

\* The objective is what the user said last, unless the page says that several
\* sessions disagree about it; a prohibition is kept with every message that
\* repeats it; of every command the latest run is shown, and a result that is
\* missing among them is called unknown.
ClaimsEarned ==
  LET said == {e \in Context : IsMessage(e)} IN
    /\ said # {} /\ "MULTIPLE_SESSION_OBJECTIVES" \notin Attention =>
         Derived.objective \in said /\ \A e \in said \ {Derived.objective} : Later(e, Derived.objective)
    /\ said = {} => "OBJECTIVE_UNKNOWN" \in Attention
    /\ \A l \in Lines : Derived.constraints[l] = {e \in said : l \in e.body.lines}
    /\ \A e \in Context : IsRun(e) =>
         (e \in Derived.latest <=> ~\E n \in Context : Answers(e, n))
    /\ \A e \in Context :
         e.body.kind = "command" /\ e.body.exit = Absent /\ (~\E n \in Context : IsRun(e) /\ Answers(e, n))
           => "COMMAND_RESULT_UNKNOWN" \in Attention

DerivationEarned == FailuresReported /\ ClaimsEarned
=============================================================================
