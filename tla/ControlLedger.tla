---------------------------- MODULE ControlLedger ----------------------------
(* The event ledger of the control plane (storage/control-plane-store.ts) and *)
(* what control-plane/reducer.ts makes of it for sessions' lineage and for    *)
(* responsibilities.  Events arrive in batches by three ways: observed by     *)
(* this process, imported from a file or a source, or authorised by an        *)
(* action of the user.  A batch is one transaction.                           *)
(*                                                                            *)
(* The projection replays the rows in the order of (ordinal, occurredAt,      *)
(* eventId), whatever order they arrived in.  Here the id of an event is its  *)
(* place in that order, and a digest is the content it is taken of.  Claims   *)
(* the reducer skips as malformed and evidence beside the event's own id are  *)
(* left out.                                                                  *)
EXTENDS Integers, Sequences, FiniteSets

CONSTANTS
  MaxId,            \* bound of the event ids
  Keys,             \* idempotency keys
  Subjects,         \* ids of lineage relations, and of responsibilities in a task
  Links,            \* parent, child and relation of a lineage claim
  Roles, Owners,    \* sessions that own a responsibility
  None,
  Executor,         \* the role an owner has when the claim names nobody for it
  Claims,           \* what the events of this instance say
  Events,           \* the events themselves
  Batches           \* and how they are sent

EventIds == 1 .. MaxId
Origins == {"observed", "imported", "authorized"}
Kinds == {"source-log", "runtime", "threadport", "user", "agent-report"}

\* Texts that differ only in a credential have the same public form.
Texts == {"plain", "secret one", "secret two"}

Levels == {"user-confirmed", "inferred"}
LineageStatuses == {"candidate", "confirmed", "rejected"}
PartialRoles == UNION {[R -> Owners] : R \in SUBSET Roles}
ResponsibilityTypes ==
  {"responsibility.proposed", "responsibility.confirmed", "responsibility.ended"}

LineageClaims == [type : {"lineage.relation"}, subject : Subjects, link : Links,
                  level : Levels, status : LineageStatuses]
ResponsibilityClaims == [type : ResponsibilityTypes, subject : Subjects,
                         owner : Owners \cup {None}, roles : PartialRoles]
EventSpace == [id : EventIds, key : Keys \cup {None}, kind : Kinds, text : Texts, claim : Claims]

\* What the projection holds of a subject.
LineageRecords ==
  [link : Links, level : Levels, status : LineageStatuses, evidence : SUBSET EventIds]
ResponsibilityRecords ==
  [roles : PartialRoles, status : {"proposed", "confirmed", "ended"}, evidence : SUBSET EventIds]

ASSUME LedgerAssumption ==
  /\ MaxId \in Nat /\ None \notin LineageRecords \cup ResponsibilityRecords
  /\ None \notin Keys \cup Owners /\ Executor \in Roles
  /\ Claims \subseteq LineageClaims \cup ResponsibilityClaims
  /\ Events \subseteq EventSpace /\ Batches \subseteq Seq(Events)

VARIABLES
  ledger,        \* the rows of control_events by event id
  acknowledged   \* the events of all batches that were not refused (history)

ledgerVars == <<ledger, acknowledged>>

-----------------------------------------------------------------------------
(* Writing                                                                   *)

\* asImportedControlEvent: a file cannot say who its author is.
Imported(e) == [e EXCEPT !.kind = IF @ = "agent-report" THEN @ ELSE "source-log"]

Classified(e, origin) == IF origin = "imported" THEN Imported(e) ELSE e

\* protectControlEvent.
Public(e) == [e EXCEPT !.text = IF @ = "plain" THEN @ ELSE "redacted"]

\* The digest is taken before the text is protected.
IsRetry(digest, e, origin) ==
  \/ digest = Classified(e, origin)
  \/ origin = "imported" /\ digest = e

\* The row a delivery of e is a repetition of: by its id or else by its key.
SameId(rows, e) == {i \in DOMAIN rows : i = e.id}
SameKey(rows, e) == {i \in DOMAIN rows : e.key # None /\ rows[i].event.key = e.key}
Previous(rows, e) == IF SameId(rows, e) # {} THEN SameId(rows, e) ELSE SameKey(rows, e)

NewRow(e, origin) == [event |-> Public(Classified(e, origin)),
                      digest |-> Classified(e, origin),
                      authority |-> origin = "authorized"]

Conflict(rows, e, origin) == \E i \in Previous(rows, e) : ~IsRetry(rows[i].digest, e, origin)

\* Both, and where both are defined the first.
Merged(first, second) ==
  [i \in (DOMAIN first) \cup (DOMAIN second) |-> IF i \in DOMAIN first THEN first[i] ELSE second[i]]

\* A row that is already there keeps its authority.
Stored(rows, e, origin) ==
  IF Previous(rows, e) = {} THEN Merged(rows, [i \in {e.id} |-> NewRow(e, origin)]) ELSE rows

\* The rows after the first n events of a batch, and whether one conflicts.
AfterEvent(before, e, origin) ==
  IF before.refused \/ Conflict(before.rows, e, origin)
  THEN [before EXCEPT !.refused = TRUE]
  ELSE [before EXCEPT !.rows = Stored(before.rows, e, origin)]

AfterEvents(batch, origin) ==
  LET after[n \in 0 .. Len(batch)] ==
        IF n = 0 THEN [rows |-> ledger, refused |-> FALSE]
        ELSE AfterEvent(after[n - 1], batch[n], origin)
  IN after

AfterBatch(batch, origin) == AfterEvents(batch, origin)[Len(batch)]

\* The authorised writer takes decisions only.
MayAuthorize(batch) ==
  \A n \in DOMAIN batch : batch[n].claim.type \in
    {"lineage.relation", "responsibility.confirmed", "responsibility.ended"}

LedgerInit == ledger = << >> /\ acknowledged = {}

\* Weakened form: the events before the conflict stay.
KeepBeforeConflict(outcome) == ledger' = outcome.rows
CommitOrRollBack(outcome) == ledger' = IF outcome.refused THEN ledger ELSE outcome.rows

AppendBatch(batch, origin) ==
  LET outcome == AfterBatch(batch, origin) IN
  /\ origin = "authorized" => MayAuthorize(batch)
  /\ CommitOrRollBack(outcome)
  /\ acknowledged' = acknowledged \cup
       {batch[n] : n \in {m \in DOMAIN batch : ~outcome.refused}}

LedgerNext == \E batch \in Batches, origin \in Origins : AppendBatch(batch, origin)

LedgerSpec == LedgerInit /\ [][LedgerNext]_ledgerVars

-----------------------------------------------------------------------------
(* The projection                                                            *)

LineageLevel(row) == IF row.authority THEN row.event.claim.level ELSE "inferred"
LineageStatus(row) ==
  IF row.authority /\ row.event.claim.status = "rejected" THEN "rejected"
  ELSE IF LineageLevel(row) = "inferred" THEN "candidate" ELSE "confirmed"

\* Weakened form: a decision gives way to a later authorised candidate.
KeepsLineageFromOthers(current, row) == current.status # "candidate" /\ ~row.authority
\* A decided relation is replaced by another decision only.
KeepsLineage(current, row) ==
  current.status # "candidate" /\ (~row.authority \/ LineageStatus(row) = "candidate")

ReplayLineage(current, row) ==
  LET claim == row.event.claim
      record == [link |-> claim.link, level |-> LineageLevel(row),
                 status |-> LineageStatus(row), evidence |-> {row.event.id}]
  IN IF current = None THEN record
     ELSE IF KeepsLineage(current, row) THEN current
     ELSE IF row.authority THEN record
     ELSE IF current.link = claim.link
          THEN [current EXCEPT !.evidence = @ \cup record.evidence]
     ELSE current

Holds(current, status) == current # None /\ current.status = status

\* Weakened form: what was proposed is carried into the confirmation.
CarriedOver(current, status) == current
\* A confirmation inherits nothing from proposals.
Inherited(current, status) == IF Holds(current, status) THEN current ELSE None

RolesOf(claim, inherited) ==
  LET named == Merged(claim.roles, IF inherited = None THEN << >> ELSE inherited.roles)
  IN IF claim.owner # None /\ Executor \notin DOMAIN named
     THEN Merged(named, [r \in {Executor} |-> claim.owner]) ELSE named

\* Claims and ends of a responsibility that is ended, or that is confirmed and
\* the event is not authorised, are dropped.
ReplayResponsibility(current, row) ==
  LET claim == row.event.claim
      confirms == row.authority /\ claim.type = "responsibility.confirmed"
      status == IF confirms THEN "confirmed" ELSE "proposed"
      inherited == Inherited(current, status)
  IN IF Holds(current, "ended") \/ (Holds(current, "confirmed") /\ ~row.authority) THEN current
     ELSE IF claim.type = "responsibility.ended"
     THEN IF row.authority /\ Holds(current, "confirmed")
          THEN [current EXCEPT !.status = "ended", !.evidence = @ \cup {row.event.id}]
          ELSE current
     ELSE [roles |-> RolesOf(claim, inherited), status |-> status,
           evidence |-> {row.event.id} \cup (IF inherited = None THEN {} ELSE inherited.evidence)]

Empty == [lineage |-> [s \in Subjects |-> None], responsibilities |-> [s \in Subjects |-> None]]

Replay(state, row) ==
  LET subject == row.event.claim.subject
  IN IF row.event.claim.type = "lineage.relation"
     THEN [state EXCEPT !.lineage[subject] = ReplayLineage(@, row)]
     ELSE [state EXCEPT !.responsibilities[subject] = ReplayResponsibility(@, row)]

\* project: the rows in the order of their ids.
Replays(rows) ==
  LET upTo[i \in 0 .. MaxId] ==
        IF i = 0 THEN Empty
        ELSE IF i \in DOMAIN rows THEN Replay(upTo[i - 1], rows[i])
        ELSE upTo[i - 1]
  IN upTo

Projection(rows) == Replays(rows)[MaxId]

-----------------------------------------------------------------------------
(* Properties                                                                *)

\* An event that was acknowledged, as new or as a repetition, is the one the
\* ledger holds, and the ledger holds nothing else: nothing of a batch that was
\* refused, and no other text in the place of a text with the same public form.
\* What readers are shown of it is the public form, under its own id.
LedgerHoldsAcknowledged ==
  /\ \A e \in acknowledged : \E i \in DOMAIN ledger : ledger[i].digest \in {e, Imported(e)}
  /\ \A i \in DOMAIN ledger :
       /\ \E e \in acknowledged : ledger[i].digest \in {e, Imported(e)}
       /\ ledger[i].digest.id = i /\ ledger[i].event = Public(ledger[i].digest)

Decided(record) == record # None /\ record.status \notin {"candidate", "proposed"}
Decisions(records) == [s \in {t \in Subjects : Decided(records[t])} |-> records[s]]
Authorized(rows) == [i \in {j \in DOMAIN rows : rows[j].authority} |-> rows[i]]

\* docs/v0.2/07-storage-migration.md: imported records "remain observations".
\* Whatever was observed or imported, with whatever place in the order, the
\* decided relations and responsibilities are those of the authorised events
\* alone, with their roles and their evidence.
DecisionsAreAuthorized ==
  LET all == Projection(ledger)
      trusted == Projection(Authorized(ledger))
  IN /\ Decisions(all.lineage) = Decisions(trusted.lineage)
     /\ Decisions(all.responsibilities) = Decisions(trusted.responsibilities)

\* Rows are never rewritten nor given authority later, and what was decided is
\* not undecided by anything that arrives later, even if it is replayed earlier.
DecisionsStand ==
  [][/\ \A i \in DOMAIN ledger : i \in DOMAIN ledger' /\ ledger'[i] = ledger[i]
     /\ \A s \in Subjects :
          LET before == Projection(ledger) after == Projection(ledger') IN
          /\ Decided(before.lineage[s]) => Decided(after.lineage[s])
          /\ Decided(before.responsibilities[s]) => Decided(after.responsibilities[s])
          /\ Holds(before.responsibilities[s], "ended") => Holds(after.responsibilities[s], "ended")]_ledgerVars

\* The ledger holds what was acknowledged, its decisions rest on authorised
\* events alone, and a decision that is shown is never undecided by a later event.
LedgerTrusted == [](LedgerHoldsAcknowledged /\ DecisionsAreAuthorized) /\ DecisionsStand
=============================================================================
