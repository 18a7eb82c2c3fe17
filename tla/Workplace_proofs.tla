--------------------------- MODULE Workplace_proofs ---------------------------
(* Tasks, their history and their decisions, for any number of tasks,        *)
(* sessions, events, clients and drafts: the history is the truth about the  *)
(* present, no edit is lost, new activity is reported, and what was decided  *)
(* stands; and the pages of a search are the slices of its result, in order. *)
(* And receipts, for any number of handoffs, requests, callers and           *)
(* attestations and whatever the clock is set to: one is shown as verified   *)
(* only when a verifier attested to it in time, a caller is given its own,   *)
(* and what a reader is shown never goes back.                               *)
EXTENDS Workbench, Receipts, FiniteSetTheorems, TLAPS

-----------------------------------------------------------------------------
(* What is assumed of the constants                                           *)

\* What the assumptions say of the constants the proofs need.
LEMMA Constants ==
  /\ projectOf \in [Tasks -> Projects] /\ sessionOf \in [Events -> Sessions]
  /\ BoundAtFirst \subseteq [Sessions -> Projects \cup {None}]
  /\ None \notin Tasks /\ None \notin Row
<1>1. None \notin Tasks \cup Projects \cup Events \cup Row
  BY StoreAssumption, Zenon
<1>2. /\ projectOf \in [Tasks -> Projects] /\ sessionOf \in [Events -> Sessions]
      /\ BoundAtFirst \subseteq [Sessions -> Projects \cup {None}]
  BY StoreAssumption, Zenon
<1> QED BY <1>1, <1>2

-----------------------------------------------------------------------------
(* Types of the store                                                         *)

Forms == [task : Tasks, revision : Nat \ {0}]
Calls ==
  [task : Tasks, row : Row, links : (SUBSET Sessions) \cup {None}, wants : Sessions \cup {None}]
Version == [task : Tasks, row : Row, sessions : SUBSET Sessions]

StoreTypes ==
  /\ task \in [Tasks -> Row \cup {None}]
  /\ \A t \in Tasks : task[t] # None => task[t].revision >= 1
  /\ revisions \subseteq Version
  /\ owner \in [Sessions -> Tasks \cup {None}]
  /\ bound \in [Sessions -> Projects \cup {None}]
  /\ events \subseteq Events
  /\ baseline \in [Tasks -> SUBSET Events]
  /\ form \in [Clients -> Forms \cup {None}]
  /\ call \in [Clients -> Calls \cup {None}]

\* The revision of a task is a number, and that of its row.
LEMMA RevisionType ==
  ASSUME StoreTypes, NEW t \in Tasks
  PROVE  /\ Revision(t) \in Nat
         /\ task[t] # None => task[t] \in Row /\ Revision(t) = task[t].revision /\ Revision(t) >= 1
         /\ Revision(t) # 0 => task[t] # None
  BY DEF StoreTypes, Revision, Row

Assertions ==
  [id : Nat, task : Tasks, version : Nat, taskRevision : Nat,
   topic : {d.topic : d \in Drafts}, text : {d.text : d \in Drafts},
   scope : {d.scope : d \in Drafts}, applies : {d.applies : d \in Drafts},
   state : States, disputed : SUBSET Nat, supersedes : SUBSET Nat]
Pages == [task : Tasks, entries : SUBSET Assertions, revision : Nat]
Preps ==
  [task : Tasks, workspace : Workspaces, revision : Nat, ready : BOOLEAN,
   decisions : SUBSET Assertions]

LedgerTypes ==
  /\ ledger \subseteq Assertions
  /\ page \in [Clients -> Pages \cup {None}]
  /\ prep \in [Clients -> Preps \cup {None}]
  /\ previews \subseteq Preps

\* A call on its way carries the row its author read, one revision on.
CallTrue(now) ==
  /\ now.row.revision - 1 \in Nat /\ now.row.revision - 1 <= Revision(now.task)
  /\ Revision(now.task) = now.row.revision - 1 =>
       /\ task[now.task] # None
       /\ \A f \in Fields : now.row.body[f] \in {task[now.task].body[f], now.row.revision}
CallsTrue == \A c \in Clients : call[c] # None => CallTrue(call[c]) /\ form[c] # None

-----------------------------------------------------------------------------
(* What a save does                                                           *)

\* Every save that goes through builds on the row that is there.
Builds(t, row, expected, links) ==
  /\ row \in Row /\ expected \in Nat /\ row.revision = expected + 1
  /\ links \in (SUBSET Sessions) \cup {None}
  /\ IF task[t] = None THEN expected = 0
     ELSE \A f \in Fields : row.body[f] \in {task[t].body[f], row.revision}

SaveStep(t) ==
  \E row, expected, links : Builds(t, row, expected, links) /\ SaveTask(t, row, expected, links)

\* The stored tasks change in such saves alone.
LEMMA Bumped ==
  ASSUME StoreTypes, NEW t \in Tasks, task[t] # None
  PROVE  LET row == [task[t] EXCEPT !.revision = @ + 1]
         IN Builds(t, row, Revision(t), Keep)
<1> DEFINE row == [task[t] EXCEPT !.revision = @ + 1]
<1>1. task[t] \in Row /\ Revision(t) = task[t].revision /\ Revision(t) \in Nat
  BY RevisionType
<1>2. row \in Row /\ row.revision = Revision(t) + 1 /\ row.body = task[t].body
  BY <1>1 DEF Row
<1> QED BY <1>1, <1>2 DEF Builds, Keep

\* A task that is created builds on no row.
LEMMA CreateBuilds ==
  LET row == [revision |-> 1, body |-> [f \in Fields |-> 1], lifecycle |-> "active"]
  IN row \in Row /\ row.revision = 1
  BY DEF Row, Lifecycles

\* update() moves the row it read on by one revision.
LEMMA PatchedRow ==
  ASSUME NEW row \in Row, NEW patch, NEW lifecycle \in Lifecycles
  PROVE  /\ Patched(row, patch, lifecycle) \in Row
         /\ Patched(row, patch, lifecycle).revision = row.revision + 1
         /\ \A f \in Fields : Patched(row, patch, lifecycle).body[f] \in {row.body[f], row.revision + 1}
<1> DEFINE body == [f \in Fields |-> IF f \in patch THEN row.revision + 1 ELSE row.body[f]]
<1>1. row.revision \in Nat /\ row.body \in [Fields -> Nat]
  BY DEF Row
<1>2. body \in [Fields -> Nat] /\ \A f \in Fields : body[f] \in {row.body[f], row.revision + 1}
  BY <1>1
<1>3. Patched(row, patch, lifecycle) = [revision |-> row.revision + 1, body |-> body, lifecycle |-> lifecycle]
  BY DEF Patched
<1> HIDE DEF body
<1> QED BY <1>1, <1>2, <1>3 DEF Row

\* A service call begins from the row its form shows.
LEMMA BeginTrue ==
  ASSUME StoreTypes, NEW c \in Clients, Current(c), NEW row, NEW links, NEW wants,
         row \in Row, row.revision = Revision(form[c].task) + 1,
         \A f \in Fields : row.body[f] \in {task[form[c].task].body[f], row.revision},
         links \in (SUBSET Sessions) \cup {None}, wants \in Sessions \cup {None}
  PROVE  LET now == [task |-> form[c].task, row |-> row, links |-> links, wants |-> wants]
         IN now \in Calls /\ CallTrue(now)
<1>1. form[c] \in Forms /\ form[c].task \in Tasks /\ form[c].revision \in Nat \ {0}
  BY DEF StoreTypes, Current, Forms
<1>2. Revision(form[c].task) \in Nat /\ task[form[c].task] # None
  BY <1>1, RevisionType DEF Current
<1> QED BY <1>1, <1>2 DEF Calls, CallTrue

\* An editor that is up to date has the revision of the row that is there.
LEMMA CurrentRow ==
  ASSUME StoreTypes, NEW c \in Clients, Current(c)
  PROVE  /\ form[c].task \in Tasks /\ task[form[c].task] \in Row /\ form[c] # None /\ call[c] = None
         /\ Revision(form[c].task) = task[form[c].task].revision
<1>1. form[c] \in Forms /\ form[c].task \in Tasks /\ form[c].revision \in Nat \ {0}
  BY DEF StoreTypes, Current, Forms
<1> QED BY <1>1, RevisionType DEF Current

-----------------------------------------------------------------------------
(* The steps                                                                  *)

\* What moves beside the tables: forms and calls.
StoreSteps ==
  \/ UNCHANGED <<task, revisions, owner, bound, baseline>>
  \/ \E t \in Tasks : SaveStep(t)

\* Every step is at most one save of one task.
LEMMA OneKindOfSave ==
  ASSUME StoreTypes, LedgerTypes, CallsTrue, [Next]_vars
  PROVE  StoreSteps
<1> USE DEF StoreSteps
<1>1. ASSUME NEW c \in Clients, NEW t \in Tasks, Open(c, t) PROVE StoreSteps
  BY <1>1 DEF Open, tables
<1>2. ASSUME NEW c \in Clients, NEW t \in Tasks, NEW links \in SUBSET Sessions, Create(c, t, links) PROVE StoreSteps
  <2> DEFINE row == [revision |-> 1, body |-> [f \in Fields |-> 1], lifecycle |-> "active"]
  <2>1. SaveTask(t, row, 0, links) /\ task[t] = None
    BY <1>2 DEF Create
  <2>2. row \in Row /\ row.revision = 1
    BY CreateBuilds
  <2> HIDE DEF row
  <2>3. Builds(t, row, 0, links)
    BY <2>1, <2>2 DEF Builds
  <2> QED BY <2>1, <2>3 DEF SaveStep
<1>3. ASSUME NEW c \in Clients, ReadLinks(c) \/ Leave(c) PROVE StoreSteps
  BY <1>3 DEF ReadLinks, Leave, tables
<1>4. ASSUME NEW c \in Clients, NEW s \in Sessions, BeginLink(c, s) PROVE StoreSteps
  BY <1>4 DEF BeginLink, tables
<1>5. ASSUME NEW c \in Clients, NEW patch, NEW lifecycle, BeginUpdate(c, patch, lifecycle) PROVE StoreSteps
  BY <1>5 DEF BeginUpdate, tables
<1>6. ASSUME NEW c \in Clients, Save(c) PROVE StoreSteps
  <2> DEFINE now == call[c]
  <2>1. now \in Calls /\ CallTrue(now)
    BY <1>6 DEF Save, Saving, StoreTypes, CallsTrue
  <2>2. /\ now.task \in Tasks /\ now.row \in Row /\ now.row.revision \in Nat
        /\ now.links \in (SUBSET Sessions) \cup {None}
    BY <2>1 DEF Calls, Row
  <2>3. CASE SaveTask(now.task, now.row, now.row.revision - 1, now.links)
    <3>1. Revision(now.task) = now.row.revision - 1
      BY <2>3 DEF SaveTask, UpToDate
    <3>2. Builds(now.task, now.row, now.row.revision - 1, now.links)
      BY <2>1, <2>2, <3>1 DEF Builds, CallTrue
    <3> QED BY <2>2, <2>3, <3>2 DEF SaveStep
  <2>4. CASE UNCHANGED tables
    BY <2>4 DEF tables
  <2> QED BY <1>6, <2>3, <2>4 DEF Save
<1>7. CASE EditNext
  BY <1>1, <1>2, <1>3, <1>4, <1>5, <1>6, <1>7 DEF EditNext
<1>8. ASSUME NEW c \in Clients, NEW versions, Mutate(c, versions), page[c].task \in Tasks PROVE StoreSteps
  <2> DEFINE t == page[c].task
             row == [task[t] EXCEPT !.revision = @ + 1]
  <2>1. SaveTask(t, row, Revision(t), Keep) /\ task[t] # None
    BY <1>8, RevisionType DEF Mutate
  <2>2. Builds(t, row, Revision(t), Keep)
    BY <1>8, <2>1, Bumped
  <2> HIDE DEF row
  <2> QED BY <1>8, <2>1, <2>2 DEF SaveStep
<1>9. ASSUME NEW c \in Clients, page[c] # None PROVE page[c].task \in Tasks
  BY <1>9 DEF LedgerTypes, Pages
<1>10. ASSUME NEW c \in Clients, page[c] # None, NEW id, NEW other, DeclareConflict(c, id, other) PROVE StoreSteps
  BY <1>8, <1>9, <1>10 DEF DeclareConflict
<1>11. ASSUME NEW c \in Clients, page[c] # None, NEW id, NEW state, Transition(c, id, state) PROVE StoreSteps
  BY <1>8, <1>9, <1>11 DEF Transition
<1>12. ASSUME NEW c \in Clients, page[c] # None, NEW d, NEW confirmed, NEW replaced,
              AppendEntry(c, d, confirmed, replaced)
       PROVE  StoreSteps
  BY <1>8, <1>9, <1>12 DEF AppendEntry
<1>13. ASSUME NEW c \in Clients, NEW t \in Tasks, ViewLedger(c, t) PROVE StoreSteps
  BY <1>13 DEF ViewLedger, storeVars, tables
<1>14. ASSUME NEW c \in Clients, NEW t \in Tasks, NEW w \in Workspaces, BeginPreview(c, t, w) PROVE StoreSteps
  BY <1>14 DEF BeginPreview, tables
<1>15. ASSUME NEW c \in Clients, ViewRevision(c) \/ CompileLedger(c) \/ SavePreview(c) PROVE StoreSteps
  BY <1>15 DEF ViewRevision, CompileLedger, SavePreview, storeVars, tables
<1>16. CASE LedgerNext
  BY <1>10, <1>11, <1>12, <1>13, <1>14, <1>15, <1>16 DEF LedgerNext
<1>17. ASSUME Index \/ Import \/ Clear PROVE StoreSteps
  BY <1>17 DEF Index, Import, Clear, IndexBatch, ImportEvent, ClearEvents
<1>18. CASE Searching
  BY <1>18 DEF Searching, TabNext, Look, Answer, NextPage, PreviousPage, ReloadPage, Restart, storeVars, tables
<1>19. CASE UNCHANGED vars
  BY <1>19 DEF vars, storeVars, tables
<1> QED BY <1>7, <1>16, <1>17, <1>18, <1>19 DEF Next, Editing, Deciding

\* What a save does to the revisions.
LEMMA SaveEffect ==
  ASSUME StoreTypes, NEW t \in Tasks, NEW row, NEW expected, NEW links,
         Builds(t, row, expected, links), SaveTask(t, row, expected, links)
  PROVE  /\ task' \in [Tasks -> Row \cup {None}] /\ task'[t] = row /\ task'[t] # None
         /\ \A u \in Tasks \ {t} : task'[u] = task[u]
         /\ expected = Revision(t) /\ Revision(t)' = Revision(t) + 1
         /\ \A u \in Tasks \ {t} : Revision(u)' = Revision(u)
<1>1. row \in Row /\ expected \in Nat /\ row.revision = expected + 1 /\ row # None
  BY Constants DEF Builds
<1>2. task' = [task EXCEPT ![t] = row] /\ expected = Revision(t)
  BY DEF SaveTask, UpToDate
<1> QED BY <1>1, <1>2 DEF StoreTypes, Revision

\* Revisions only grow, and a task changes with its revision alone.
LEMMA RevisionsGrow ==
  ASSUME StoreTypes, StoreSteps, NEW t \in Tasks
  PROVE  /\ Revision(t)' \in Nat
         /\ (task'[t] = task[t] /\ Revision(t)' = Revision(t)) \/ Revision(t)' = Revision(t) + 1
         /\ task[t] # None => task'[t] # None
<1>1. CASE UNCHANGED <<task, revisions, owner, bound, baseline>>
  BY <1>1, RevisionType DEF Revision
<1>2. ASSUME NEW u \in Tasks, SaveStep(u)
      PROVE  /\ (task'[t] = task[t] /\ Revision(t)' = Revision(t)) \/ Revision(t)' = Revision(t) + 1
             /\ task[t] # None => task'[t] # None
  <2>1. PICK row, expected, links : Builds(u, row, expected, links) /\ SaveTask(u, row, expected, links)
    BY <1>2 DEF SaveStep
  <2> QED BY <2>1, SaveEffect
<1> QED BY <1>1, <1>2, RevisionType DEF StoreSteps
-----------------------------------------------------------------------------
(* Types are kept                                                             *)

\* Links, bindings and baselines after a save keep their types.
LEMMA LinkTypes ==
  ASSUME StoreTypes, NEW t \in Tasks, NEW links
  PROVE  /\ LinksAfter(t, links) \in [Sessions -> Tasks \cup {None}]
         /\ BoundAfter(t, links) \in [Sessions -> Projects \cup {None}]
         /\ Recorded(t, links) \subseteq Sessions
         /\ \A row : BaselineAfter(t, row, links) \subseteq Events
<1>1. LinksAfter(t, links) \in [Sessions -> Tasks \cup {None}]
  BY DEF LinksAfter, StoreTypes
<1>2. BoundAfter(t, links) \in [Sessions -> Projects \cup {None}]
  BY Constants DEF BoundAfter, StoreTypes
<1> QED BY <1>1, <1>2 DEF Recorded, LinkedTo, BaselineAfter, StoreTypes

\* A save keeps the types of the tables.
LEMMA SaveTypes ==
  ASSUME StoreTypes, NEW t \in Tasks, SaveStep(t)
  PROVE  /\ task' \in [Tasks -> Row \cup {None}]
         /\ \A u \in Tasks : task'[u] # None => task'[u].revision >= 1
         /\ revisions' \subseteq Version
         /\ owner' \in [Sessions -> Tasks \cup {None}]
         /\ bound' \in [Sessions -> Projects \cup {None}]
         /\ baseline' \in [Tasks -> SUBSET Events] /\ events' \subseteq Events
<1>1. PICK row, expected, links : Builds(t, row, expected, links) /\ SaveTask(t, row, expected, links)
  BY DEF SaveStep
<1>2. task' \in [Tasks -> Row \cup {None}] /\ \A u \in Tasks : task'[u] # None => task'[u].revision >= 1
  <2>1. row.revision \in Nat /\ row.revision >= 1
    BY <1>1 DEF Builds
  <2> QED BY <1>1, <2>1, SaveEffect DEF StoreTypes
<1>3. revisions' \subseteq Version
  <2>1. [task |-> t, row |-> row, sessions |-> Recorded(t, links)] \in Version
    BY <1>1, LinkTypes DEF Version, Builds
  <2> QED BY <1>1, <2>1 DEF SaveTask, StoreTypes
<1>4. owner' = LinksAfter(t, links) /\ bound' = BoundAfter(t, links) /\ UNCHANGED events
  BY <1>1 DEF SaveTask
<1>5. baseline' = [baseline EXCEPT ![t] = BaselineAfter(t, row, links)]
  BY <1>1 DEF SaveTask
<1> QED BY <1>2, <1>3, <1>4, <1>5, LinkTypes DEF StoreTypes

\* Every step of the store keeps its types.
LEMMA TablesKept ==
  ASSUME StoreTypes, StoreSteps, events' \subseteq Events, form' \in [Clients -> Forms \cup {None}],
         call' \in [Clients -> Calls \cup {None}]
  PROVE  StoreTypes'
<1>1. CASE UNCHANGED <<task, revisions, owner, bound, baseline>>
  BY <1>1 DEF StoreTypes
<1>2. CASE \E t \in Tasks : SaveStep(t)
  BY <1>2, SaveTypes DEF StoreTypes
<1> QED BY <1>1, <1>2 DEF StoreSteps

\* A call that waits stays true: what is saved meanwhile only makes it stale.
LEMMA WaitingTrue ==
  ASSUME StoreTypes, StoreSteps, NEW now \in Calls, CallTrue(now)
  PROVE  CallTrue(now)'
<1>1. now.task \in Tasks /\ now.row \in Row /\ now.row.revision \in Nat
  BY DEF Calls, Row
<1>2. Revision(now.task) \in Nat /\ Revision(now.task)' \in Nat
  BY <1>1, RevisionType, RevisionsGrow
<1>3. \/ task'[now.task] = task[now.task] /\ Revision(now.task)' = Revision(now.task)
      \/ Revision(now.task)' = Revision(now.task) + 1
  BY <1>1, RevisionsGrow
<1> QED BY <1>1, <1>2, <1>3 DEF CallTrue

\* The steps of one client that has a call or leaves one: everyone else keeps
\* form and call.
LEMMA OneClient ==
  ASSUME StoreTypes, CallsTrue, StoreSteps, NEW c \in Clients,
         NEW f \in Forms \cup {None}, NEW now \in Calls \cup {None},
         form' = [form EXCEPT ![c] = f], call' = [call EXCEPT ![c] = now], events' \subseteq Events,
         now # None => CallTrue(now)' /\ f # None
  PROVE  StoreTypes' /\ CallsTrue'
<1>1. form \in [Clients -> Forms \cup {None}] /\ call \in [Clients -> Calls \cup {None}]
  BY DEF StoreTypes
<1>2. form' \in [Clients -> Forms \cup {None}] /\ call' \in [Clients -> Calls \cup {None}]
  BY <1>1
<1>3. StoreTypes'
  BY <1>2, TablesKept
<1>4. ASSUME NEW d \in Clients, call'[d] # None PROVE CallTrue(call[d])' /\ form'[d] # None
  <2>1. CASE d = c
    <3>1. call'[d] = now /\ form'[d] = f /\ now # None
      BY <1>1, <1>4, <2>1
    <3> QED BY <3>1 DEF CallTrue
  <2>2. CASE d # c
    <3>1. call'[d] = call[d] /\ form'[d] = form[d] /\ call[d] # None
      BY <1>1, <1>4, <2>2
    <3>2. call[d] \in Calls /\ CallTrue(call[d]) /\ form[d] # None
      BY <1>1, <3>1 DEF CallsTrue
    <3>3. PICK x \in Calls : x = call[d]
      BY <3>2
    <3>4. CallTrue(x)'
      <4>1. CallTrue(x)
        BY <3>2, <3>3
      <4> QED BY <4>1, WaitingTrue
    <3>5. x = call'[d]
      BY <3>1, <3>3
    <3> QED BY <3>1, <3>2, <3>4, <3>5 DEF CallTrue
  <2> QED BY <2>1, <2>2
<1> QED BY <1>3, <1>4 DEF CallsTrue

\* No client does anything.
LEMMA NoClient ==
  ASSUME StoreTypes, CallsTrue, StoreSteps, UNCHANGED <<form, call>>, events' \subseteq Events
  PROVE  StoreTypes' /\ CallsTrue'
<1>1. form' \in [Clients -> Forms \cup {None}] /\ call' \in [Clients -> Calls \cup {None}]
  BY DEF StoreTypes
<1>2. StoreTypes'
  BY <1>1, TablesKept
<1>3. ASSUME NEW d \in Clients, call'[d] # None PROVE CallTrue(call[d])' /\ form'[d] # None
  <2>1. call[d] \in Calls /\ CallTrue(call[d]) /\ form[d] # None
    BY <1>3 DEF CallsTrue, StoreTypes
  <2>2. PICK x \in Calls : x = call[d]
    BY <2>1
  <2>3. CallTrue(x)'
    <3>1. CallTrue(x)
      BY <2>1, <2>2
    <3> QED BY <3>1, WaitingTrue
  <2>4. x = call'[d]
    BY <2>2
  <2> QED BY <2>1, <2>3, <2>4 DEF CallTrue
<1> QED BY <1>2, <1>3 DEF CallsTrue

\* An edit keeps types and calls.
LEMMA EditKeepsTypes ==
  ASSUME StoreTypes, CallsTrue, EditNext, StoreSteps
  PROVE  StoreTypes' /\ CallsTrue'
<1>1. /\ form \in [Clients -> Forms \cup {None}] /\ call \in [Clients -> Calls \cup {None}]
      /\ events \subseteq Events /\ None \in Calls \cup {None} /\ None \in Forms \cup {None}
  BY DEF StoreTypes
<1>2. ASSUME NEW c \in Clients, UNCHANGED call PROVE call' = [call EXCEPT ![c] = call[c]]
  BY <1>1, <1>2
<1>3. ASSUME NEW c \in Clients, UNCHANGED form PROVE form' = [form EXCEPT ![c] = form[c]]
  BY <1>1, <1>3
<1>4. ASSUME NEW c \in Clients, NEW t \in Tasks, Open(c, t) PROVE StoreTypes' /\ CallsTrue'
  <2>1. [task |-> t, revision |-> Revision(t)] \in Forms
    BY <1>4, RevisionType DEF Open, Forms
  <2>2. call[c] = None /\ form' = [form EXCEPT ![c] = [task |-> t, revision |-> Revision(t)]]
        /\ UNCHANGED <<call, events>>
    BY <1>4 DEF Open, tables
  <2>3. call' = [call EXCEPT ![c] = None]
    BY <1>2, <2>2
  <2> QED BY <1>1, <2>1, <2>2, <2>3, OneClient
<1>5. ASSUME NEW c \in Clients, NEW t \in Tasks, NEW links, Create(c, t, links) PROVE StoreTypes' /\ CallsTrue'
  <2>1. [task |-> t, revision |-> 1] \in Forms
    BY DEF Forms
  <2>2. call[c] = None /\ form' = [form EXCEPT ![c] = [task |-> t, revision |-> 1]] /\ UNCHANGED <<call, events>>
    BY <1>5 DEF Create, SaveTask
  <2>3. call' = [call EXCEPT ![c] = None]
    BY <1>2, <2>2
  <2> QED BY <1>1, <2>1, <2>2, <2>3, OneClient
<1>6. ASSUME NEW c \in Clients, NEW row \in Row, NEW wants \in Sessions \cup {None}, Current(c),
             row.revision = Revision(form[c].task) + 1,
             \A f \in Fields : row.body[f] \in {task[form[c].task].body[f], row.revision},
             call' = [call EXCEPT ![c] = [task |-> form[c].task, row |-> row, links |-> Keep, wants |-> wants]],
             UNCHANGED <<tables, form>>
      PROVE  StoreTypes' /\ CallsTrue'
  <2> DEFINE now == [task |-> form[c].task, row |-> row, links |-> Keep, wants |-> wants]
  <2>1. now \in Calls /\ CallTrue(now)
    BY <1>6, BeginTrue DEF Keep
  <2>2. PICK x \in Calls : x = now /\ CallTrue(x)
    BY <2>1
  <2>3. CallTrue(x)'
    BY <2>2, <1>6 DEF CallTrue, Revision, tables
  <2>4. form[c] # None /\ form[c] \in Forms \cup {None} /\ UNCHANGED <<form, events>>
    BY <1>1, <1>6 DEF Current, tables
  <2>5. form' = [form EXCEPT ![c] = form[c]]
    BY <1>3, <2>4
  <2>6. call' = [call EXCEPT ![c] = x]
    BY <1>6, <2>2
  <2> HIDE DEF now
  <2> QED BY <1>1, <2>2, <2>3, <2>4, <2>5, <2>6, OneClient
<1>7. ASSUME NEW c \in Clients, NEW patch \in SUBSET Fields, NEW lifecycle \in Lifecycles,
             BeginUpdate(c, patch, lifecycle)
      PROVE  StoreTypes' /\ CallsTrue'
  <2> DEFINE row == Patched(task[form[c].task], patch, lifecycle)
  <2>1. /\ Current(c) /\ UNCHANGED <<tables, form>>
        /\ call' = [call EXCEPT ![c] = [task |-> form[c].task, row |-> row, links |-> Keep, wants |-> None]]
    BY <1>7 DEF BeginUpdate
  <2>2. /\ row \in Row /\ row.revision = Revision(form[c].task) + 1
        /\ \A f \in Fields : row.body[f] \in {task[form[c].task].body[f], row.revision}
    BY <2>1, CurrentRow, PatchedRow
  <2> HIDE DEF row
  <2> QED BY <1>6, <2>1, <2>2
<1>8. ASSUME NEW c \in Clients, NEW s \in Sessions, BeginLink(c, s) PROVE StoreTypes' /\ CallsTrue'
  <2> DEFINE old == task[form[c].task]
             row == Patched(old, {}, old.lifecycle)
  <2>1. /\ Current(c) /\ UNCHANGED <<tables, form>>
        /\ call' = [call EXCEPT ![c] = [task |-> form[c].task, row |-> row, links |-> Keep, wants |-> s]]
    BY <1>8 DEF BeginLink
  <2>2. old \in Row /\ old.lifecycle \in Lifecycles /\ Revision(form[c].task) = old.revision
    BY <2>1, CurrentRow DEF Row
  <2>3. /\ row \in Row /\ row.revision = Revision(form[c].task) + 1
        /\ \A f \in Fields : row.body[f] \in {task[form[c].task].body[f], row.revision}
    BY <2>2, PatchedRow
  <2> HIDE DEF row, old
  <2> QED BY <1>6, <2>1, <2>3
<1>9. ASSUME NEW c \in Clients, ReadLinks(c) PROVE StoreTypes' /\ CallsTrue'
  <2>1. PICK links \in SUBSET Sessions : call' = [call EXCEPT ![c].links = links]
    <3>1. call[c] \in Calls /\ call[c].wants \in Sessions
      BY <1>1, <1>9 DEF ReadLinks, Calls
    <3> QED BY <1>9, <3>1 DEF ReadLinks, LinkedTo
  <2>2. call[c] \in Calls /\ CallTrue(call[c]) /\ form[c] # None /\ form[c] \in Forms \cup {None}
        /\ UNCHANGED <<tables, form>>
    BY <1>1, <1>9 DEF ReadLinks, CallsTrue
  <2> DEFINE now == [call[c] EXCEPT !.links = links]
  <2>3. now \in Calls /\ now.row = call[c].row /\ now.task = call[c].task
    BY <2>2 DEF Calls
  <2>4. call' = [call EXCEPT ![c] = now]
    BY <1>1, <2>1
  <2> HIDE DEF now
  <2>5. PICK x \in Calls : x = now /\ CallTrue(x)
    BY <2>2, <2>3 DEF CallTrue
  <2>6. CallTrue(x)'
    BY <2>2, <2>5 DEF CallTrue, Revision, tables
  <2>7. form' = [form EXCEPT ![c] = form[c]] /\ UNCHANGED events
    BY <1>3, <2>2 DEF tables
  <2>8. call' = [call EXCEPT ![c] = x]
    BY <2>4, <2>5
  <2> QED BY <1>1, <2>2, <2>6, <2>7, <2>8, OneClient
<1>10. ASSUME NEW c \in Clients, Save(c) PROVE StoreTypes' /\ CallsTrue'
  <2>1. call[c] \in Calls /\ form[c] \in Forms /\ call' = [call EXCEPT ![c] = None] /\ CallTrue(call[c])
    BY <1>1, <1>10 DEF Save, Saving, CallsTrue
  <2>2. PICK f \in Forms : form' = [form EXCEPT ![c] = f]
    <3>1. CASE UNCHANGED form
      BY <1>3, <2>1, <3>1
    <3>2. CASE form' = [form EXCEPT ![c].revision = call[c].row.revision]
      <4>1. call[c].row.revision \in Nat \ {0}
        BY <2>1 DEF Calls, Row, CallTrue
      <4>2. [form[c] EXCEPT !.revision = call[c].row.revision] \in Forms
        BY <2>1, <4>1 DEF Forms
      <4> QED BY <1>1, <3>2, <4>2
    <3> QED BY <1>10, <3>1, <3>2 DEF Save
  <2>3. UNCHANGED events
    BY <1>10 DEF Save, SaveTask, tables
  <2> QED BY <1>1, <2>1, <2>2, <2>3, OneClient
<1>11. ASSUME NEW c \in Clients, Leave(c) PROVE StoreTypes' /\ CallsTrue'
  BY <1>1, <1>11, OneClient DEF Leave, tables
<1> QED BY <1>4, <1>5, <1>7, <1>8, <1>9, <1>10, <1>11 DEF EditNext
-----------------------------------------------------------------------------
(* What a mutation of the ledger adds                                         *)

Ids == {v.id : v \in ledger}
FreshId == Cardinality(Ids) + 1

\* The stored form of an added version.
Later(v, revision) == [v EXCEPT !.version = @ + 1, !.taskRevision = revision]

\* The version that is added differs in its number and revision alone.
LEMMA LaterFields ==
  ASSUME NEW v \in Assertions, NEW r \in Nat
  PROVE  /\ Later(v, r) \in Assertions
         /\ Later(v, r).version = v.version + 1 /\ Later(v, r).taskRevision = r
         /\ Later(v, r).id = v.id /\ Later(v, r).task = v.task /\ Later(v, r).topic = v.topic
         /\ Later(v, r).scope = v.scope /\ Later(v, r).state = v.state
         /\ Later(v, r).disputed = v.disputed /\ Later(v, r).supersedes = v.supersedes
<1> DEFINE n == v.version + 1
<1>1. n \in Nat /\ Later(v, r) = [v EXCEPT !.version = n, !.taskRevision = r]
  BY DEF Later, Assertions
<1> HIDE DEF n
<1>2. /\ Later(v, r) \in Assertions /\ Later(v, r).version = n /\ Later(v, r).taskRevision = r
      /\ Later(v, r).id = v.id /\ Later(v, r).task = v.task /\ Later(v, r).topic = v.topic
      /\ Later(v, r).scope = v.scope /\ Later(v, r).state = v.state
      /\ Later(v, r).disputed = v.disputed /\ Later(v, r).supersedes = v.supersedes
  BY <1>1 DEF Assertions
<1> QED BY <1>2 DEF n

\* A new entry begins without versions and without disputes.
FirstVersion(t, v) ==
  /\ v.id = FreshId /\ v.task = t /\ v.version = 0 /\ v.disputed = {}
  /\ v.state \in {"candidate", "confirmed"}

\* The replacement that goes with a superseded entry.
Replaces(r, u) ==
  /\ r.id = FreshId /\ r.version = 0 /\ r.state = "confirmed"
  /\ u.id \in r.supersedes /\ r.topic = u.topic /\ r.scope = u.scope

\* A new version of an entry that is in force: disputes are only added.
NextVersion(t, u, v, versions) ==
  /\ u \in Latest(t) /\ ~Retired(u)
  /\ v.id = u.id /\ v.task = t /\ v.version = u.version /\ v.scope = u.scope
  /\ u.disputed \subseteq v.disputed
  /\ \A x \in v.disputed \ u.disputed :
       x # v.id /\ \E y \in Latest(t) : y.id = x /\ Overlaps(v.scope, y.scope)
  /\ v.state = "superseded" => \E r \in versions : Replaces(r, u)

Changes(t, versions) ==
  /\ versions \subseteq Assertions
  /\ \A v, w \in versions : v.id = w.id => v = w
  /\ \A v \in versions : FirstVersion(t, v) \/ \E u \in Latest(t) : NextVersion(t, u, v, versions)

Mutation(t, versions) ==
  /\ Changes(t, versions)
  /\ SaveStep(t) /\ task[t] # None /\ UNCHANGED <<prep, previews>>
  /\ ledger' = ledger \cup {Later(v, Revision(t) + 1) : v \in versions}

-----------------------------------------------------------------------------
(* The ledger                                                                 *)

\* The table of versions: every entry has one task, one scope and one version
\* per number, disputes are only added and are between overlapping scopes.
Versions ==
  /\ IsFiniteSet(Ids) /\ \A n \in Ids : n <= Cardinality(Ids)
  /\ \A v \in ledger : /\ v.taskRevision <= Revision(v.task) /\ v.taskRevision >= 1 /\ v.version >= 1
                       /\ \A x \in v.disputed : /\ x # v.id
                                                /\ \E y \in ledger : y.id = x /\ Overlaps(v.scope, y.scope)
  /\ \A v, w \in ledger : v.id = w.id =>
       /\ v.task = w.task /\ v.scope = w.scope
       /\ v.version = w.version => v = w
       /\ v.version <= w.version => v.disputed \subseteq w.disputed

\* The latest versions are those no other one follows.
LEMMA LatestAre ==
  ASSUME LedgerTypes, Versions, NEW t \in Tasks
  PROVE  Latest(t) = {v \in ledger : v.task = t /\ \A w \in ledger : w.id = v.id => w.version <= v.version}
<1>1. \A v \in ledger : v.task = t => v.taskRevision <= Revision(t)
  BY DEF Versions
<1>2. \A v, w \in ledger : v.id = w.id => v.task = w.task
  BY DEF Versions
<1> QED BY <1>1, <1>2 DEF Latest, AsOf

\* The same of the versions after a step.
LEMMA LatestNext ==
  ASSUME LedgerTypes', Versions', NEW t \in Tasks
  PROVE  Latest(t)' = {v \in ledger' : v.task = t /\ \A w \in ledger' : w.id = v.id => w.version <= v.version}
<1>1. \A v \in ledger' : v.task = t => v.taskRevision <= Revision(t)'
  BY DEF Versions
<1>2. \A v, w \in ledger' : v.id = w.id => v.task = w.task
  BY DEF Versions
<1> QED BY <1>1, <1>2 DEF Latest, AsOf

\* An entry has one latest version.
LEMMA OneLatest ==
  ASSUME LedgerTypes, Versions, NEW t \in Tasks, NEW v \in Latest(t), NEW w \in Latest(t), v.id = w.id
  PROVE  v = w
<1>1. v \in ledger /\ w \in ledger /\ v.version <= w.version /\ w.version <= v.version
  BY LatestAre
<1>2. v.version \in Nat /\ w.version \in Nat
  BY <1>1 DEF LedgerTypes, Assertions
<1> QED BY <1>1, <1>2 DEF Versions

\* The transactions of the ledger are mutations.
LEMMA MutateIs ==
  ASSUME StoreTypes, LedgerTypes, Versions, NEW c \in Clients, page[c] # None, NEW versions, Mutate(c, versions),
         Changes(page[c].task, versions)
  PROVE  Mutation(page[c].task, versions)
<1> DEFINE t == page[c].task
           row == [task[t] EXCEPT !.revision = @ + 1]
<1>1. t \in Tasks /\ page[c].revision = Revision(t)
  BY DEF Mutate, LedgerTypes, Pages
<1>2. task[t] # None
  BY <1>1, RevisionType DEF Mutate
<1>3. SaveTask(t, row, Revision(t), Keep)
  BY <1>1 DEF Mutate
<1>4. Builds(t, row, Revision(t), Keep)
  BY <1>1, <1>2, Bumped
<1>5. SaveStep(t)
  <2> HIDE DEF row
  <2> QED BY <1>3, <1>4 DEF SaveStep
<1>6. ledger' = ledger \cup {Later(v, Revision(t) + 1) : v \in versions}
  BY <1>1 DEF Mutate, Later
<1> QED BY <1>2, <1>5, <1>6 DEF Mutation, Mutate

\* The id of a new entry is that of no other.
LEMMA FreshIsNew ==
  ASSUME Versions
  PROVE  FreshId \in Nat /\ FreshId \notin Ids
<1>1. Cardinality(Ids) \in Nat
  BY FS_CardinalityType DEF Versions
<1> QED BY <1>1 DEF Versions, FreshId

\* A new entry begins a history and retires those it replaces.
LEMMA AppendChanges ==
  ASSUME StoreTypes, LedgerTypes, Versions, NEW c \in Clients, page[c] # None, NEW d \in Drafts,
         NEW confirmed \in BOOLEAN, NEW replaced \in SUBSET Ids, AppendEntry(c, d, confirmed, replaced)
  PROVE  \E versions : Mutation(page[c].task, versions)
<1> DEFINE t == page[c].task
           state == IF confirmed THEN "confirmed" ELSE "candidate"
           new == Entry(t, d, state, replaced)
           old == {v \in Latest(t) : v.id \in replaced}
           versions == {new} \cup {[v EXCEPT !.state = "superseded"] : v \in old}
<1>1. t \in Tasks
  BY DEF LedgerTypes, Pages
<1>2. /\ Mutate(c, versions) /\ (replaced # {} => confirmed)
      /\ \A v \in old : Replaceable(v, d)
  BY DEF AppendEntry
<1>3. FreshId \in Nat /\ FreshId \notin Ids
  BY FreshIsNew
<1>4. state \in {"candidate", "confirmed"} /\ (confirmed => state = "confirmed")
  OBVIOUS
<1>5. Ids \subseteq Nat /\ \A v \in Latest(t) : v \in ledger /\ v \in Assertions /\ v.id \in Ids
  BY <1>1, LatestAre DEF LedgerTypes, Assertions, Ids
<1> HIDE DEF state
<1>6. new = [id |-> FreshId, task |-> t, version |-> 0, taskRevision |-> 0, topic |-> d.topic, text |-> d.text,
             scope |-> d.scope, applies |-> d.applies, state |-> state, disputed |-> {}, supersedes |-> replaced]
  BY DEF Entry, FreshId, Ids
<1>7. new \in Assertions
  <2>1. replaced \in SUBSET Nat /\ state \in States
    BY <1>4, <1>5 DEF States
  <2> QED BY <1>1, <1>3, <1>6, <2>1 DEF Assertions
<1>8. FirstVersion(t, new) /\ new.topic = d.topic /\ new.scope = d.scope /\ new.supersedes = replaced /\ new.state = state
  BY <1>4, <1>6 DEF FirstVersion
<1> HIDE DEF new
<1>9. ASSUME NEW v \in old
      PROVE  LET w == [v EXCEPT !.state = "superseded"] IN
             /\ w \in Assertions /\ w.id = v.id /\ w.id # FreshId /\ NextVersion(t, v, w, versions)
  <2> DEFINE w == [v EXCEPT !.state = "superseded"]
  <2>1. v \in Assertions /\ v \in Latest(t) /\ v.id \in Ids /\ v.id \in replaced /\ Replaceable(v, d)
    BY <1>2, <1>5
  <2>2. /\ w \in Assertions /\ w.id = v.id /\ w.version = v.version /\ w.scope = v.scope
        /\ w.disputed = v.disputed /\ w.task = v.task
    BY <2>1 DEF Assertions, States
  <2>3. v.task = t
    BY <2>1, <1>1, LatestAre
  <2>4. Replaces(new, v)
    BY <1>2, <1>4, <1>8, <2>1 DEF FirstVersion, Replaces, Replaceable
  <2> HIDE DEF w
  <2>5. NextVersion(t, v, w, versions)
    BY <2>1, <2>2, <2>3, <2>4 DEF NextVersion, Replaceable
  <2> QED BY <1>3, <2>1, <2>2, <2>5 DEF w
<1>10. Changes(t, versions)
  <2>1. versions \subseteq Assertions
    BY <1>7, <1>9
  <2>2. ASSUME NEW v \in versions, NEW w \in versions, v.id = w.id PROVE v = w
    <3>1. new.id = FreshId
      BY <1>8 DEF FirstVersion
    <3>2. ASSUME NEW x \in old, NEW y \in old, x.id = y.id PROVE x = y
      BY <1>1, <3>2, OneLatest
    <3>3. \A x \in old : [x EXCEPT !.state = "superseded"].id = x.id /\ x.id # FreshId
      BY <1>9
    <3>4. CASE v = new \/ w = new
      BY <2>2, <3>1, <3>3, <3>4
    <3>5. CASE v # new /\ w # new
      <4>1. PICK x \in old : v = [x EXCEPT !.state = "superseded"]
        BY <3>5
      <4>2. PICK y \in old : w = [y EXCEPT !.state = "superseded"]
        BY <3>5
      <4>3. x.id = y.id
        BY <2>2, <3>3, <4>1, <4>2
      <4> HIDE DEF old
      <4> QED BY <3>2, <4>1, <4>2, <4>3
    <3> QED BY <3>4, <3>5
  <2>3. \A v \in versions : FirstVersion(t, v) \/ \E u \in Latest(t) : NextVersion(t, u, v, versions)
    BY <1>8, <1>9
  <2> QED BY <2>1, <2>2, <2>3 DEF Changes
<1> QED BY <1>2, <1>10, MutateIs

\* Overlapping does not depend on the order.
LEMMA OverlapsBoth == \A a, b : Overlaps(a, b) => Overlaps(b, a)
  BY DEF Overlaps

\* A declared conflict continues the histories of two entries.
LEMMA ConflictChanges ==
  ASSUME StoreTypes, LedgerTypes, Versions, NEW c \in Clients, page[c] # None, NEW a \in Ids, NEW b \in Ids,
         DeclareConflict(c, a, b)
  PROVE  \E versions : Mutation(page[c].task, versions)
<1> DEFINE t == page[c].task
           known(id) == {v \in Latest(t) : v.id = id /\ v.state = "confirmed"}
           versions == {Against(v, b) : v \in known(a)} \cup {Against(v, a) : v \in known(b)}
<1>1. t \in Tasks
  BY DEF LedgerTypes, Pages
<1>2. /\ Mutate(c, versions) /\ a # b /\ known(a) # {} /\ known(b) # {}
      /\ \A v \in known(a), w \in known(b) : Overlaps(v.scope, w.scope)
  BY DEF DeclareConflict
<1>3. Ids \subseteq Nat /\ \A v \in Latest(t) : v \in ledger /\ v \in Assertions /\ v.task = t
  BY <1>1, LatestAre DEF LedgerTypes, Assertions, Ids
<1>4. ASSUME NEW v \in Latest(t), NEW other \in Ids, v.state = "confirmed", v.id # other,
             \E y \in Latest(t) : y.id = other /\ Overlaps(v.scope, y.scope)
      PROVE  /\ Against(v, other) \in Assertions /\ Against(v, other).id = v.id
             /\ NextVersion(t, v, Against(v, other), versions)
  <2> DEFINE both == v.disputed \cup {other}
             w == [v EXCEPT !.disputed = both]
  <2>1. v \in Assertions /\ both \in SUBSET Nat /\ Against(v, other) = w
    BY <1>3 DEF Assertions, Against
  <2> HIDE DEF both
  <2>2. /\ w \in Assertions /\ w.id = v.id /\ w.version = v.version /\ w.scope = v.scope
        /\ w.disputed = both /\ w.task = v.task /\ w.state = v.state
    BY <2>1 DEF Assertions
  <2> HIDE DEF w
  <2>3. NextVersion(t, v, w, versions)
    BY <1>3, <1>4, <2>2 DEF NextVersion, Retired, both
  <2> QED BY <2>1, <2>2, <2>3
<1>5. \A v \in known(a) : /\ Against(v, b) \in Assertions /\ Against(v, b).id = a
                          /\ \E u \in Latest(t) : NextVersion(t, u, Against(v, b), versions)
  <2> HIDE DEF versions
  <2> QED BY <1>2, <1>4
<1>6. \A v \in known(b) : /\ Against(v, a) \in Assertions /\ Against(v, a).id = b
                          /\ \E u \in Latest(t) : NextVersion(t, u, Against(v, a), versions)
  <2> HIDE DEF versions
  <2> QED BY <1>2, <1>4, OverlapsBoth
<1>7. \A v, w \in known(a) : v = w
  BY <1>1, OneLatest
<1>8. \A v, w \in known(b) : v = w
  BY <1>1, OneLatest
<1>9. Changes(t, versions)
  <2> HIDE DEF known
  <2>1. versions \subseteq Assertions
    BY <1>5, <1>6
  <2>2. ASSUME NEW v \in versions, NEW w \in versions, v.id = w.id PROVE v = w
    BY <1>2, <1>5, <1>6, <1>7, <1>8, <2>2
  <2>3. \A v \in versions : \E u \in Latest(t) : NextVersion(t, u, v, versions)
    <3>1. ASSUME NEW v \in versions PROVE v \in {Against(x, b) : x \in known(a)} \/ v \in {Against(x, a) : x \in known(b)}
      OBVIOUS
    <3> HIDE DEF versions
    <3> QED BY <1>5, <1>6, <3>1
  <2> QED BY <2>1, <2>2, <2>3 DEF Changes
<1> QED BY <1>2, <1>9, MutateIs

\* A transition continues the history of one entry.
LEMMA TransitionChanges ==
  ASSUME StoreTypes, LedgerTypes, Versions, NEW c \in Clients, page[c] # None, NEW id \in Ids,
         NEW state \in {"confirmed", "rejected"}, Transition(c, id, state)
  PROVE  \E versions : Mutation(page[c].task, versions)
<1> DEFINE t == page[c].task
<1>1. t \in Tasks
  BY DEF LedgerTypes, Pages
<1>2. PICK v \in Latest(t) : MayTransition(v, state) /\ Mutate(c, {[v EXCEPT !.state = state]})
  BY DEF Transition
<1> DEFINE w == [v EXCEPT !.state = state]
<1>3. v \in Assertions /\ v.task = t
  BY <1>1, LatestAre DEF LedgerTypes
<1>4. /\ w \in Assertions /\ w.id = v.id /\ w.version = v.version /\ w.scope = v.scope
      /\ w.disputed = v.disputed /\ w.task = v.task /\ w.state = state
  BY <1>3 DEF Assertions, States
<1>5. ~Retired(v)
  BY <1>2 DEF MayTransition, Retired
<1> HIDE DEF w
<1>6. NextVersion(t, v, w, {w})
  BY <1>3, <1>4, <1>5 DEF NextVersion
<1>7. Changes(t, {w})
  BY <1>4, <1>6 DEF Changes
<1> QED BY <1>2, <1>7, MutateIs DEF w

\* What happens to the ledger: nothing, a mutation, or a reader's step.
LedgerReading ==
  \/ \E c \in Clients : ViewRevision(c) \/ CompileLedger(c) \/ SavePreview(c)
  \/ \E c \in Clients, t \in Tasks : ViewLedger(c, t)
  \/ \E c \in Clients, t \in Tasks, w \in Workspaces : BeginPreview(c, t, w)

\* Every step is a mutation, a reading, or leaves the ledger alone.
LEMMA LedgerSteps ==
  ASSUME StoreTypes, LedgerTypes, Versions, [Next]_vars
  PROVE  \/ UNCHANGED ledgerVars
         \/ LedgerReading
         \/ /\ \E t \in Tasks : \E versions : Mutation(t, versions)
            /\ \E c \in Clients : page' = [page EXCEPT ![c] = None]
<1>1. ASSUME NEW c \in Clients, page[c] # None, NEW a \in Ids, NEW b \in Ids, DeclareConflict(c, a, b)
      PROVE  /\ \E t \in Tasks : \E versions : Mutation(t, versions)
             /\ page' = [page EXCEPT ![c] = None]
  <2>1. \E versions : Mutation(page[c].task, versions)
    BY <1>1, ConflictChanges
  <2>2. page[c].task \in Tasks
    BY <1>1 DEF LedgerTypes, Pages
  <2>3. page' = [page EXCEPT ![c] = None]
    BY <1>1 DEF DeclareConflict, Mutate
  <2> QED BY <2>1, <2>2, <2>3
<1>2. ASSUME NEW c \in Clients, page[c] # None, NEW id \in Ids, NEW state \in {"confirmed", "rejected"},
             Transition(c, id, state)
      PROVE  /\ \E t \in Tasks : \E versions : Mutation(t, versions)
             /\ page' = [page EXCEPT ![c] = None]
  BY <1>2, TransitionChanges DEF LedgerTypes, Pages, Transition, Mutate
<1>3. ASSUME NEW c \in Clients, page[c] # None, NEW d \in Drafts, NEW confirmed \in BOOLEAN,
             NEW replaced \in SUBSET Ids, AppendEntry(c, d, confirmed, replaced)
      PROVE  /\ \E t \in Tasks : \E versions : Mutation(t, versions)
             /\ page' = [page EXCEPT ![c] = None]
  BY <1>3, AppendChanges DEF LedgerTypes, Pages, AppendEntry, Mutate
<1>4. CASE LedgerNext
  BY <1>1, <1>2, <1>3, <1>4 DEF LedgerNext, LedgerReading, Ids
<1>5. CASE ~LedgerNext
  BY <1>5 DEF Next, Editing, Deciding, Index, Import, Clear, Searching, vars
<1> QED BY <1>4, <1>5
-----------------------------------------------------------------------------
(* The ledger is kept                                                         *)

\* Types of what readers hold.
LEMMA LedgerTypesKept ==
  ASSUME StoreTypes, LedgerTypes, Versions, [Next]_vars
  PROVE  LedgerTypes'
<1>1. /\ page \in [Clients -> Pages \cup {None}] /\ prep \in [Clients -> Preps \cup {None}]
      /\ previews \subseteq Preps /\ ledger \subseteq Assertions
  BY DEF LedgerTypes
<1>2. \A t \in Tasks : Latest(t) \in SUBSET Assertions /\ Revision(t) \in Nat
  BY <1>1, LatestAre, RevisionType
<1>3. CASE UNCHANGED ledgerVars
  BY <1>3 DEF ledgerVars, LedgerTypes
<1>4. ASSUME NEW t \in Tasks, NEW versions, NEW c \in Clients, Mutation(t, versions), page' = [page EXCEPT ![c] = None]
      PROVE  LedgerTypes'
  <2>1. Revision(t) + 1 \in Nat /\ versions \subseteq Assertions
    BY <1>2, <1>4 DEF Mutation, Changes
  <2>2. ledger' \subseteq Assertions
    BY <1>1, <1>4, <2>1, LaterFields DEF Mutation
  <2>3. page' \in [Clients -> Pages \cup {None}] /\ UNCHANGED <<prep, previews>>
    BY <1>1, <1>4 DEF Mutation
  <2> QED BY <1>1, <2>2, <2>3 DEF LedgerTypes
<1>5. ASSUME NEW c \in Clients, NEW t \in Tasks, ViewLedger(c, t) PROVE LedgerTypes'
  <2>1. [task |-> t, entries |-> Latest(t), revision |-> 0] \in Pages
    BY <1>2 DEF Pages
  <2> QED BY <1>1, <1>5, <2>1 DEF ViewLedger, LedgerTypes
<1>6. ASSUME NEW c \in Clients, ViewRevision(c) PROVE LedgerTypes'
  <2>1. page[c] \in Pages /\ Revision(page[c].task) \in Nat
    BY <1>1, <1>2, <1>6 DEF ViewRevision, Pages
  <2>2. [page[c] EXCEPT !.revision = Revision(page[c].task)] \in Pages
    BY <2>1 DEF Pages
  <2>3. page' = [page EXCEPT ![c] = [page[c] EXCEPT !.revision = Revision(page[c].task)]]
    BY <1>1, <1>6 DEF ViewRevision
  <2> QED BY <1>1, <1>6, <2>2, <2>3 DEF ViewRevision, LedgerTypes
<1>7. ASSUME NEW c \in Clients, NEW t \in Tasks, NEW w \in Workspaces, BeginPreview(c, t, w) PROVE LedgerTypes'
  <2>1. [task |-> t, workspace |-> w, revision |-> Revision(t), ready |-> FALSE, decisions |-> {}] \in Preps
    BY <1>2 DEF Preps
  <2> QED BY <1>1, <1>7, <2>1 DEF BeginPreview, LedgerTypes
<1>8. ASSUME NEW c \in Clients, CompileLedger(c) PROVE LedgerTypes'
  <2>1. prep[c] \in Preps /\ Latest(prep[c].task) \in SUBSET Assertions
    BY <1>1, <1>2, <1>8 DEF CompileLedger, Preps
  <2> DEFINE decisions == Effective(Latest(prep[c].task), prep[c].workspace)
             ready == [prep[c] EXCEPT !.ready = TRUE, !.decisions = decisions]
  <2>2. decisions \in SUBSET Assertions
    BY <2>1 DEF Effective, Confirmed, InScope
  <2>3. ready \in Preps
    <3> HIDE DEF decisions
    <3> QED BY <2>1, <2>2 DEF Preps
  <2>4. prep' = [prep EXCEPT ![c] = None] \/ prep' = [prep EXCEPT ![c] = ready]
    BY <1>8 DEF CompileLedger
  <2> HIDE DEF ready
  <2>5. prep' \in [Clients -> Preps \cup {None}]
    BY <1>1, <2>3, <2>4
  <2> QED BY <1>1, <1>8, <2>5 DEF CompileLedger, LedgerTypes
<1>9. ASSUME NEW c \in Clients, SavePreview(c) PROVE LedgerTypes'
  <2>1. prep[c] \in Preps
    BY <1>1, <1>9 DEF SavePreview
  <2> QED BY <1>1, <1>9, <2>1 DEF SavePreview, LedgerTypes
<1> QED BY <1>3, <1>4, <1>5, <1>6, <1>7, <1>8, <1>9, LedgerSteps DEF LedgerReading

\* Every version added by a mutation follows the last one of its entry, or
\* begins an entry of its own.
LEMMA AddedVersions ==
  ASSUME StoreTypes, LedgerTypes, Versions, NEW t \in Tasks, NEW versions, Mutation(t, versions),
         NEW v \in ledger' \ ledger
  PROVE  \E a \in versions : /\ v = Later(a, Revision(t) + 1) /\ v \in Assertions
                             /\ v.id = a.id /\ v.task = t /\ v.version = a.version + 1
                             /\ v.taskRevision = Revision(t) + 1 /\ v.scope = a.scope /\ v.disputed = a.disputed
                             /\ v.state = a.state /\ v.topic = a.topic /\ v.supersedes = a.supersedes
                             /\ FirstVersion(t, a) \/ \E u \in Latest(t) : NextVersion(t, u, a, versions)
<1>1. Revision(t) + 1 \in Nat /\ versions \subseteq Assertions
  BY RevisionType DEF Mutation, Changes
<1>2. PICK a \in versions : v = Later(a, Revision(t) + 1)
  BY DEF Mutation
<1>3. /\ a \in Assertions
      /\ FirstVersion(t, a) \/ \E u \in Latest(t) : NextVersion(t, u, a, versions)
  BY <1>1 DEF Mutation, Changes
<1>4. a.task = t
  BY <1>3 DEF FirstVersion, NextVersion
<1> QED BY <1>1, <1>2, <1>3, <1>4, LaterFields

\* An added version comes after every stored one of its entry.
LEMMA AddedFollows ==
  ASSUME StoreTypes, LedgerTypes, Versions, NEW t \in Tasks, NEW versions, Mutation(t, versions),
         NEW v \in ledger' \ ledger, NEW w \in ledger, v.id = w.id
  PROVE  /\ v.task = w.task /\ v.scope = w.scope /\ w.version < v.version
         /\ w.disputed \subseteq v.disputed
<1>1. PICK a \in versions : /\ v.id = a.id /\ v.task = t /\ v.version = a.version + 1 /\ v \in Assertions
                            /\ v.scope = a.scope /\ v.disputed = a.disputed
                            /\ FirstVersion(t, a) \/ \E u \in Latest(t) : NextVersion(t, u, a, versions)
  BY AddedVersions
<1>2. w.id \in Ids /\ w \in Assertions /\ w.version \in Nat
  BY DEF Ids, LedgerTypes, Assertions
<1>3. ~FirstVersion(t, a)
  BY <1>1, <1>2, FreshIsNew DEF FirstVersion
<1>4. PICK u \in Latest(t) : NextVersion(t, u, a, versions)
  BY <1>1, <1>3
<1>5. /\ u \in ledger /\ u.task = t /\ u.id = w.id /\ w.version <= u.version /\ u.version \in Nat
      /\ a.version = u.version /\ a.scope = u.scope /\ u.disputed \subseteq a.disputed
  <2>1. /\ u.id = w.id /\ a.version = u.version /\ a.scope = u.scope /\ u.disputed \subseteq a.disputed
    BY <1>1, <1>4 DEF NextVersion
  <2>2. t \in Tasks /\ u \in ledger /\ u.task = t /\ \A x \in ledger : x.id = u.id => x.version <= u.version
    BY LatestAre
  <2>3. u.version \in Nat
    BY <2>2 DEF LedgerTypes, Assertions
  <2> QED BY <2>1, <2>2, <2>3
<1>6. w.task = u.task /\ w.scope = u.scope /\ w.disputed \subseteq u.disputed
  BY <1>2, <1>5 DEF Versions
<1> QED BY <1>1, <1>2, <1>5, <1>6

\* A mutation keeps the table of versions in order.
LEMMA MutationKeepsVersions ==
  ASSUME StoreTypes, LedgerTypes, Versions, NEW t \in Tasks, NEW versions, Mutation(t, versions), LedgerTypes'
  PROVE  Versions'
<1>1. /\ ledger \subseteq ledger' /\ Revision(t)' = Revision(t) + 1 /\ Revision(t) \in Nat
      /\ \A u \in Tasks : Revision(u)' >= Revision(u) /\ Revision(u) \in Nat
  <2>1. PICK row, expected, links : Builds(t, row, expected, links) /\ SaveTask(t, row, expected, links)
    BY DEF Mutation, SaveStep
  <2>2. \A u \in Tasks : Revision(u) \in Nat
    BY RevisionType
  <2> QED BY <2>1, <2>2, SaveEffect DEF Mutation
<1>2. IsFiniteSet(Ids)' /\ \A n \in Ids' : n <= Cardinality(Ids)'
  <2>1. Ids \subseteq Ids' /\ Ids' \subseteq Ids \cup {FreshId}
    <3>1. Ids \subseteq Ids'
      BY <1>1 DEF Ids
    <3>2. ASSUME NEW v \in ledger' PROVE v.id \in Ids \cup {FreshId}
      <4>1. CASE v \in ledger
        BY <4>1 DEF Ids
      <4>2. CASE v \notin ledger
        <5>1. PICK a \in versions : /\ v.id = a.id
                                    /\ FirstVersion(t, a) \/ \E u \in Latest(t) : NextVersion(t, u, a, versions)
          BY <4>2, AddedVersions
        <5> QED BY <5>1, LatestAre DEF FirstVersion, NextVersion, Ids
      <4> QED BY <4>1, <4>2
    <3> QED BY <3>1, <3>2 DEF Ids
  <2>2. IsFiniteSet(Ids) /\ Cardinality(Ids) \in Nat /\ (\A n \in Ids : n <= Cardinality(Ids)) /\ FreshId \notin Ids
    BY FS_CardinalityType, FreshIsNew DEF Versions
  <2>3. CASE Ids' = Ids
    BY <2>2, <2>3
  <2>4. CASE Ids' = Ids \cup {FreshId}
    <3>1. IsFiniteSet(Ids \cup {FreshId}) /\ Cardinality(Ids \cup {FreshId}) = Cardinality(Ids) + 1
      BY <2>2, FS_AddElement
    <3>2. \A n \in Ids : n \in Nat
      BY DEF Ids, LedgerTypes, Assertions
    <3> QED BY <2>2, <2>4, <3>1, <3>2 DEF FreshId
  <2> QED BY <2>1, <2>3, <2>4
<1>3. ASSUME NEW v \in ledger'
      PROVE  /\ v.taskRevision <= Revision(v.task)' /\ v.taskRevision >= 1 /\ v.version >= 1
             /\ \A x \in v.disputed : /\ x # v.id
                                      /\ \E y \in ledger' : y.id = x /\ Overlaps(v.scope, y.scope)
  <2>1. CASE v \in ledger
    <3>1. v.task \in Tasks /\ v.taskRevision \in Nat
      BY <2>1 DEF LedgerTypes, Assertions
    <3>2. /\ v.taskRevision <= Revision(v.task) /\ v.taskRevision >= 1 /\ v.version >= 1
          /\ \A x \in v.disputed : x # v.id /\ \E y \in ledger : y.id = x /\ Overlaps(v.scope, y.scope)
      BY <2>1 DEF Versions
    <3>3. Revision(v.task)' >= Revision(v.task) /\ Revision(v.task) \in Nat
      BY <1>1, <3>1
    <3>4. Revision(v.task)' \in Nat
      <4>1. \A u \in Tasks : Revision(u)' \in Nat
        BY RevisionsGrow DEF Mutation, StoreSteps
      <4> QED BY <3>1, <4>1
    <3>5. v.taskRevision <= Revision(v.task)'
      BY <3>1, <3>2, <3>3, <3>4
    <3> QED BY <1>1, <3>2, <3>5
  <2>2. CASE v \notin ledger
    <3>1. PICK a \in versions : /\ v.id = a.id /\ v.task = t /\ v.version = a.version + 1
                                /\ v.taskRevision = Revision(t) + 1 /\ v.scope = a.scope /\ v.disputed = a.disputed
                                /\ FirstVersion(t, a) \/ \E u \in Latest(t) : NextVersion(t, u, a, versions)
      BY <2>2, AddedVersions
    <3>2. a.version \in Nat
      BY DEF Mutation, Changes, Assertions
    <3>3. CASE FirstVersion(t, a)
      BY <1>1, <3>1, <3>2, <3>3 DEF FirstVersion
    <3>4. CASE \E u \in Latest(t) : NextVersion(t, u, a, versions)
      <4>1. PICK u \in Latest(t) : NextVersion(t, u, a, versions)
        BY <3>4
      <4>2. u \in ledger /\ \A y \in Latest(t) : y \in ledger'
        BY <1>1, LatestAre
      <4>3. \A x \in u.disputed : x # u.id /\ \E y \in ledger' : y.id = x /\ Overlaps(u.scope, y.scope)
        BY <1>1, <4>2 DEF Versions
      <4>4. \A x \in v.disputed : x # v.id /\ \E y \in ledger' : y.id = x /\ Overlaps(v.scope, y.scope)
        BY <3>1, <4>1, <4>2, <4>3 DEF NextVersion
      <4>5. v.taskRevision <= Revision(v.task)' /\ v.taskRevision >= 1 /\ v.version >= 1
        BY <1>1, <3>1, <3>2
      <4> QED BY <4>4, <4>5
    <3> QED BY <3>1, <3>3, <3>4
  <2> QED BY <2>1, <2>2
<1>4. ASSUME NEW v \in ledger', NEW w \in ledger', v.id = w.id
      PROVE  /\ v.task = w.task /\ v.scope = w.scope
             /\ v.version = w.version => v = w
             /\ v.version <= w.version => v.disputed \subseteq w.disputed
  <2>1. v.version \in Nat /\ w.version \in Nat
    BY DEF LedgerTypes, Assertions
  <2>2. CASE v \in ledger /\ w \in ledger
    BY <1>4, <2>2 DEF Versions
  <2>3. CASE v \in ledger /\ w \notin ledger
    <3>1. w.task = v.task /\ w.scope = v.scope /\ v.version < w.version /\ v.disputed \subseteq w.disputed
      BY <1>4, <2>3, AddedFollows
    <3> QED BY <2>1, <3>1
  <2>4. CASE v \notin ledger /\ w \in ledger
    <3>1. v.task = w.task /\ v.scope = w.scope /\ w.version < v.version
      BY <1>4, <2>4, AddedFollows
    <3> QED BY <2>1, <3>1
  <2>5. CASE v \notin ledger /\ w \notin ledger
    <3>1. PICK a \in versions : v = Later(a, Revision(t) + 1) /\ v.id = a.id
      BY <2>5, AddedVersions
    <3>2. PICK b \in versions : w = Later(b, Revision(t) + 1) /\ w.id = b.id
      BY <2>5, AddedVersions
    <3>3. a = b
      BY <1>4, <3>1, <3>2 DEF Mutation, Changes
    <3> QED BY <3>1, <3>2, <3>3
  <2> QED BY <2>2, <2>3, <2>4, <2>5
<1> QED BY <1>2, <1>3, <1>4 DEF Versions

\* Every step keeps the table of versions in order.
LEMMA VersionsKept ==
  ASSUME StoreTypes, LedgerTypes, Versions, CallsTrue, [Next]_vars, StoreSteps
  PROVE  Versions'
<1>1. CASE UNCHANGED ledger
  <2>1. \A t \in Tasks : Revision(t)' >= Revision(t) /\ Revision(t) \in Nat /\ Revision(t)' \in Nat
    BY RevisionsGrow, RevisionType
  <2>2. \A v \in ledger : v.task \in Tasks /\ v.taskRevision \in Nat
    BY DEF LedgerTypes, Assertions
  <2>3. UNCHANGED Ids
    BY <1>1 DEF Ids
  <2>4. ASSUME NEW v \in ledger PROVE v.taskRevision <= Revision(v.task)'
    <3>1. v.taskRevision <= Revision(v.task)
      BY DEF Versions
    <3> QED BY <2>1, <2>2, <3>1
  <2> QED BY <1>1, <2>3, <2>4 DEF Versions
<1>2. CASE \E t \in Tasks : \E versions : Mutation(t, versions)
  BY <1>2, MutationKeepsVersions, LedgerTypesKept
<1>3. LedgerReading => UNCHANGED ledger
  BY DEF LedgerReading, ViewRevision, CompileLedger, SavePreview, ViewLedger, BeginPreview
<1> QED BY <1>1, <1>2, <1>3, LedgerSteps DEF ledgerVars
-----------------------------------------------------------------------------
(* Previews                                                                   *)

\* What was in force at a task revision, for one workspace.
InForce(decisions, t, revision, w) ==
  /\ decisions = Effective(AsOf(t, revision), w)
  /\ Disputed(AsOf(t, revision), w) = {}

\* A preview on its way holds the decisions of the revision it began with,
\* unless the task has moved on since.
PrepsTrue ==
  \A c \in Clients : prep[c] # None =>
    /\ prep[c].revision <= Revision(prep[c].task)
    /\ prep[c].ready /\ prep[c].revision = Revision(prep[c].task)
         => InForce(prep[c].decisions, prep[c].task, prep[c].revision, prep[c].workspace)
PreviewsTrue ==
  \A p \in previews : p.revision <= Revision(p.task) /\ InForce(p.decisions, p.task, p.revision, p.workspace)

\* The past of the ledger does not change.
LEMMA PastStands ==
  ASSUME StoreTypes, LedgerTypes, Versions, NEW t \in Tasks, NEW versions, Mutation(t, versions),
         NEW u \in Tasks, NEW r \in Nat, r <= Revision(u)
  PROVE  AsOf(u, r)' = AsOf(u, r)
<1>1. ledger \subseteq ledger'
  BY DEF Mutation
<1>2. ASSUME NEW v \in ledger' \ ledger PROVE ~(v.task = u /\ v.taskRevision <= r)
  <2>1. v.task = t /\ v.taskRevision = Revision(t) + 1 /\ Revision(t) \in Nat
    BY AddedVersions, RevisionType
  <2> QED BY <2>1
<1>3. \A v \in ledger' : v.task = u /\ v.taskRevision <= r => v \in ledger
  BY <1>2
<1> QED BY <1>1, <1>3 DEF AsOf

\* What was in force at a past revision does not change.
LEMMA PastKept ==
  ASSUME StoreTypes, LedgerTypes, Versions, [Next]_vars, NEW u \in Tasks, NEW r \in Nat, r <= Revision(u),
         NEW decisions, NEW w, InForce(decisions, u, r, w)
  PROVE  InForce(decisions, u, r, w)'
<1>1. CASE UNCHANGED ledger
  BY <1>1 DEF InForce, AsOf
<1>2. CASE \E t \in Tasks : \E versions : Mutation(t, versions)
  <2>1. AsOf(u, r)' = AsOf(u, r)
    BY <1>2, PastStands
  <2> QED BY <2>1 DEF InForce, Effective, Disputed
<1>3. LedgerReading => UNCHANGED ledger
  BY DEF LedgerReading, ViewRevision, CompileLedger, SavePreview, ViewLedger, BeginPreview
<1> QED BY <1>1, <1>2, <1>3, LedgerSteps DEF ledgerVars

PrepTrue(p) ==
  /\ p.revision <= Revision(p.task)
  /\ p.ready /\ p.revision = Revision(p.task) => InForce(p.decisions, p.task, p.revision, p.workspace)

\* A preview that is being prepared stays true.
LEMMA PrepWaits ==
  ASSUME StoreTypes, LedgerTypes, Versions, [Next]_vars, StoreSteps, NEW p \in Preps, PrepTrue(p)
  PROVE  PrepTrue(p)'
<1>1. p.task \in Tasks /\ p.revision \in Nat
  BY DEF Preps
<1>2. /\ Revision(p.task) \in Nat /\ Revision(p.task)' \in Nat
      /\ Revision(p.task)' = Revision(p.task) \/ Revision(p.task)' = Revision(p.task) + 1
  BY <1>1, RevisionType, RevisionsGrow
<1>3. p.revision <= Revision(p.task)
  BY DEF PrepTrue
<1>4. ASSUME p.ready, p.revision = Revision(p.task)'
      PROVE  InForce(p.decisions, p.task, p.revision, p.workspace)'
  <2>1. p.revision = Revision(p.task)
    BY <1>1, <1>2, <1>3, <1>4
  <2>2. InForce(p.decisions, p.task, p.revision, p.workspace)
    BY <1>4, <2>1 DEF PrepTrue
  <2> QED BY <1>1, <1>3, <2>2, PastKept
<1> QED BY <1>1, <1>2, <1>3, <1>4 DEF PrepTrue

\* Every step keeps the previews under preparation true.
LEMMA PrepsKept ==
  ASSUME StoreTypes, LedgerTypes, Versions, [Next]_vars, StoreSteps, PrepsTrue
  PROVE  PrepsTrue'
<1>1. prep \in [Clients -> Preps \cup {None}]
  BY DEF LedgerTypes
<1>2. ASSUME NEW c \in Clients, prep[c] # None PROVE prep[c] \in Preps /\ PrepTrue(prep[c])
  BY <1>1, <1>2 DEF PrepsTrue, PrepTrue

\* Whoever is not moving waits.
<1>3. ASSUME NEW d \in Clients, prep'[d] = prep[d], prep'[d] # None PROVE PrepTrue(prep[d])'
  <2>1. PICK p \in Preps : p = prep[d] /\ PrepTrue(p)
    BY <1>2, <1>3
  <2>2. PrepTrue(p)'
    BY <2>1, PrepWaits
  <2>3. p = prep'[d]
    BY <1>3, <2>1
  <2> QED BY <2>2, <2>3 DEF PrepTrue
<1>4. ASSUME NEW c \in Clients, NEW p \in Preps \cup {None}, prep' = [prep EXCEPT ![c] = p],
             p # None => PrepTrue(p)'
      PROVE  PrepsTrue'
  <2>1. ASSUME NEW d \in Clients, prep'[d] # None PROVE PrepTrue(prep[d])'
    <3>1. CASE d = c
      <4>1. prep'[d] = p /\ p # None
        BY <1>1, <1>4, <2>1, <3>1
      <4> QED BY <1>4, <4>1 DEF PrepTrue
    <3>2. CASE d # c
      BY <1>1, <1>3, <1>4, <2>1, <3>2
    <3> QED BY <3>1, <3>2
  <2> QED BY <2>1 DEF PrepsTrue, PrepTrue
<1>5. CASE UNCHANGED prep
  BY <1>3, <1>5 DEF PrepsTrue, PrepTrue
<1>6. ASSUME NEW c \in Clients, NEW t \in Tasks, NEW w \in Workspaces, BeginPreview(c, t, w) PROVE PrepsTrue'
  <2>1. PICK p : p = [task |-> t, workspace |-> w, revision |-> Revision(t), ready |-> FALSE, decisions |-> {}]
    OBVIOUS
  <2>2. p \in Preps /\ p.task = t /\ p.revision = Revision(t) /\ ~p.ready
    BY <2>1, RevisionType DEF Preps
  <2>3. Revision(t)' = Revision(t)
    BY <1>6 DEF BeginPreview, Revision, tables
  <2>4. PrepTrue(p)'
    <3>1. Revision(p.task)' = Revision(t)
      BY <2>2, <2>3 DEF Revision
    <3>2. p.revision \in Nat
      BY <2>2 DEF Preps
    <3> QED BY <2>2, <3>1, <3>2 DEF PrepTrue
  <2>5. prep' = [prep EXCEPT ![c] = p]
    BY <1>6, <2>1 DEF BeginPreview
  <2> QED BY <1>4, <2>2, <2>4, <2>5
<1>7. ASSUME NEW c \in Clients, CompileLedger(c) PROVE PrepsTrue'
  <2> DEFINE decisions == Effective(Latest(prep[c].task), prep[c].workspace)
             ready == [prep[c] EXCEPT !.ready = TRUE, !.decisions = decisions]
  <2>1. prep[c] \in Preps /\ PrepTrue(prep[c]) /\ UNCHANGED <<ledger, task>>
    BY <1>2, <1>7 DEF CompileLedger, storeVars, tables
  <2>2. CASE prep' = [prep EXCEPT ![c] = None]
    BY <1>4, <2>2
  <2>3. CASE prep' = [prep EXCEPT ![c] = ready] /\ Disputed(Latest(prep[c].task), prep[c].workspace) = {}
    <3>1. prep[c].task \in Tasks
      BY <2>1 DEF Preps
    <3>2. Latest(prep[c].task) \in SUBSET Assertions
      BY <3>1, LatestAre DEF LedgerTypes
    <3>3. decisions \in SUBSET Assertions
      BY <3>2 DEF Effective, Confirmed, InScope
    <3>4. /\ ready \in Preps /\ ready.task = prep[c].task /\ ready.workspace = prep[c].workspace
          /\ ready.revision = prep[c].revision /\ ready.decisions = decisions
      <4> HIDE DEF decisions
      <4> QED BY <2>1, <3>3 DEF Preps
    <3> HIDE DEF ready
    <3>5. PICK p \in Preps : p = ready
      BY <3>4
    <3>6. p.revision <= Revision(p.task)
      BY <2>1, <3>4, <3>5 DEF PrepTrue
    <3>7. p.revision = Revision(p.task) => InForce(p.decisions, p.task, p.revision, p.workspace)
      BY <2>3, <3>4, <3>5 DEF InForce, Latest
    <3>8. PrepTrue(p)'
      BY <2>1, <3>6, <3>7 DEF PrepTrue, InForce, AsOf, Revision
    <3>9. prep' = [prep EXCEPT ![c] = p]
      BY <2>3, <3>5
    <3> QED BY <1>4, <3>8, <3>9
  <2> QED BY <1>7, <2>2, <2>3 DEF CompileLedger
<1>8. ASSUME NEW c \in Clients, SavePreview(c) PROVE PrepsTrue'
  BY <1>4, <1>8 DEF SavePreview
<1>9. ASSUME NEW c \in Clients, ViewRevision(c) PROVE UNCHANGED prep
  BY <1>9 DEF ViewRevision
<1>10. ASSUME NEW c \in Clients, NEW t \in Tasks, ViewLedger(c, t) PROVE UNCHANGED prep
  BY <1>10 DEF ViewLedger
<1>11. ASSUME NEW t \in Tasks, NEW versions, Mutation(t, versions) PROVE UNCHANGED prep
  BY <1>11 DEF Mutation
<1> QED BY <1>5, <1>6, <1>7, <1>8, <1>9, <1>10, <1>11, LedgerSteps DEF LedgerReading, ledgerVars

\* Every step keeps the stored previews true.
LEMMA PreviewsKept ==
  ASSUME StoreTypes, LedgerTypes, Versions, [Next]_vars, StoreSteps, PrepsTrue, PreviewsTrue
  PROVE  PreviewsTrue'
<1>1. ASSUME NEW p \in previews
      PROVE  p.revision <= Revision(p.task)' /\ InForce(p.decisions, p.task, p.revision, p.workspace)'
  <2>1. p.task \in Tasks /\ p.revision \in Nat /\ p.revision <= Revision(p.task)
        /\ InForce(p.decisions, p.task, p.revision, p.workspace)
    BY DEF PreviewsTrue, LedgerTypes, Preps
  <2>2. /\ Revision(p.task) \in Nat /\ Revision(p.task)' \in Nat
        /\ Revision(p.task)' = Revision(p.task) \/ Revision(p.task)' = Revision(p.task) + 1
    BY <2>1, RevisionType, RevisionsGrow
  <2> QED BY <2>1, <2>2, PastKept
<1>2. ASSUME NEW p \in previews' \ previews
      PROVE  p.revision <= Revision(p.task)' /\ InForce(p.decisions, p.task, p.revision, p.workspace)'
  <2>1. PICK c \in Clients : SavePreview(c)
    <3>1. ASSUME NEW t \in Tasks, NEW versions, Mutation(t, versions) PROVE FALSE
      BY <1>2, <3>1 DEF Mutation
    <3>2. ASSUME NEW c \in Clients, ViewRevision(c) \/ CompileLedger(c) PROVE FALSE
      BY <1>2, <3>2 DEF ViewRevision, CompileLedger
    <3>3. ASSUME NEW c \in Clients, NEW t \in Tasks, ViewLedger(c, t) PROVE FALSE
      BY <1>2, <3>3 DEF ViewLedger
    <3>4. ASSUME NEW c \in Clients, NEW t \in Tasks, NEW w, BeginPreview(c, t, w) PROVE FALSE
      BY <1>2, <3>4 DEF BeginPreview
    <3> QED BY <1>2, <3>1, <3>2, <3>3, <3>4, LedgerSteps DEF LedgerReading, ledgerVars
  <2>2. p = prep[c] /\ prep[c] # None /\ prep[c].ready /\ StillCurrent(prep[c]) /\ UNCHANGED <<task, ledger>>
    BY <1>2, <2>1 DEF SavePreview, storeVars, tables
  <2>3. p \in Preps /\ p.ready /\ p.revision = Revision(p.task)
    BY <2>2 DEF LedgerTypes, StillCurrent
  <2>4. InForce(p.decisions, p.task, p.revision, p.workspace)
    BY <2>2, <2>3 DEF PrepsTrue
  <2>5. p.task \in Tasks /\ p.revision \in Nat
    BY <2>3 DEF Preps
  <2>6. p.revision <= Revision(p.task)'
    BY <2>2, <2>3, <2>5 DEF Revision
  <2> QED BY <2>3, <2>4, <2>5, <2>6, PastKept
<1>3. \A p \in previews' : p \in previews \/ p \in previews' \ previews
  OBVIOUS
<1> QED BY <1>1, <1>2, <1>3 DEF PreviewsTrue
-----------------------------------------------------------------------------
(* The history                                                                *)

\* No version of a task carries a number it does not have yet.
NumbersTrue == \A r \in revisions : r.row.revision >= 1 /\ r.row.revision <= Revision(r.task)

\* The sessions of a task after a save of it, and those of the others.
LEMMA LinksMove ==
  ASSUME StoreTypes, NEW t \in Tasks, NEW links, MayLink(t, links), owner' = LinksAfter(t, links),
         bound' = BoundAfter(t, links), NEW u \in Tasks
  PROVE  /\ u # t => LinkedTo(u, owner') = LinkedTo(u, owner)
         /\ \A s \in LinkedTo(u, owner') :
              bound'[s] = projectOf[u] \/ (s \in LinkedTo(u, owner) /\ bound'[s] = bound[s])
<1>1. None \notin Tasks
  BY Constants
<1>2. CASE links = Keep
  BY <1>2 DEF LinkedTo, LinksAfter, BoundAfter
<1>3. CASE links # Keep
  <2>1. \A s \in Sessions : owner'[s] = IF s \in links THEN t ELSE IF owner[s] = t THEN None ELSE owner[s]
    BY <1>3 DEF LinksAfter
  <2>2. \A s \in Sessions : bound'[s] = IF s \in links THEN projectOf[t] ELSE bound[s]
    BY <1>3 DEF BoundAfter
  <2>3. \A s \in links : owner[s] \in {None, t}
    BY <1>3 DEF MayLink
  <2>4. u # t => LinkedTo(u, owner') = LinkedTo(u, owner)
    BY <1>1, <2>1, <2>3 DEF LinkedTo
  <2>5. \A s \in LinkedTo(u, owner') :
          bound'[s] = projectOf[u] \/ (s \in LinkedTo(u, owner) /\ bound'[s] = bound[s])
    BY <1>1, <2>1, <2>2, <2>3 DEF LinkedTo
  <2> QED BY <2>4, <2>5
<1> QED BY <1>2, <1>3

\* Every step keeps the history exact.
LEMMA HistoryKept ==
  ASSUME StoreTypes, StoreSteps, NumbersTrue, HistoryExact
  PROVE  NumbersTrue' /\ HistoryExact'
<1>1. CASE UNCHANGED <<task, revisions, owner, bound, baseline>>
  BY <1>1 DEF NumbersTrue, HistoryExact, Revision, LinkedTo
<1>2. ASSUME NEW t \in Tasks, SaveStep(t) PROVE NumbersTrue' /\ HistoryExact'
  <2>1. PICK row, expected, links : Builds(t, row, expected, links) /\ SaveTask(t, row, expected, links)
    BY <1>2 DEF SaveStep
  <2>0. PICK new : new = [task |-> t, row |-> row, sessions |-> Recorded(t, links)]
    OBVIOUS
  <2>2. /\ task'[t] = row /\ expected = Revision(t) /\ Revision(t)' = Revision(t) + 1
        /\ row.revision = Revision(t) + 1 /\ Revision(t) \in Nat
        /\ \A u \in Tasks \ {t} : Revision(u)' = Revision(u) /\ task'[u] = task[u]
    BY <2>1, SaveEffect, RevisionType DEF Builds
  <2>3. /\ revisions' = revisions \cup {new} /\ owner' = LinksAfter(t, links)
        /\ bound' = BoundAfter(t, links) /\ MayLink(t, links)
    BY <2>0, <2>1 DEF SaveTask
  <2>4. new.task = t /\ new.row = row /\ new.sessions = LinkedTo(t, owner')
    BY <2>0, <2>3 DEF Recorded
  <2>5. \A r \in revisions : r.task \in Tasks /\ r.row.revision \in Nat
    BY DEF StoreTypes, Version, Row
  <2>6. \A u \in Tasks : Revision(u)' >= Revision(u) /\ Revision(u) \in Nat /\ Revision(u)' \in Nat
    <3>1. \A u \in Tasks : Revision(u) \in Nat
      BY RevisionType
    <3> QED BY <2>2, <3>1
  <2>7. \A r \in revisions : r.row.revision >= 1 /\ r.row.revision <= Revision(r.task)'
    <3>1. ASSUME NEW r \in revisions PROVE r.row.revision >= 1 /\ r.row.revision <= Revision(r.task)'
      <4>1. r.row.revision >= 1 /\ r.row.revision <= Revision(r.task)
        BY DEF NumbersTrue
      <4>2. Revision(r.task)' >= Revision(r.task) /\ Revision(r.task) \in Nat /\ Revision(r.task)' \in Nat
        BY <2>5, <2>6
      <4> QED BY <2>5, <4>1, <4>2
    <3> QED BY <3>1
  <2>8. new.row.revision = Revision(new.task)' /\ new.row.revision >= 1
    <3>1. new.row.revision = Revision(t)' /\ new.row.revision >= 1
      BY <2>2, <2>4
    <3> QED BY <2>4, <3>1
  <2>9. NumbersTrue'
    BY <2>3, <2>6, <2>7, <2>8, <2>4, <2>2 DEF NumbersTrue
  <2>10. ASSUME NEW u \in Tasks, NEW n \in 1..Revision(u)'
         PROVE  Cardinality({r \in revisions' : r.task = u /\ r.row.revision = n}) = 1
    <3>1. CASE u = t /\ n = Revision(t) + 1
      <4>1. \A r \in revisions : r.task = t => r.row.revision <= Revision(t)
        BY DEF NumbersTrue
      <4>2. {r \in revisions' : r.task = u /\ r.row.revision = n} = {new}
        BY <2>2, <2>3, <2>4, <2>5, <3>1, <4>1
      <4> QED BY <4>2, FS_Singleton
    <3>2. CASE ~(u = t /\ n = Revision(t) + 1)
      <4>1. n \in 1..Revision(u)
        BY <2>2, <2>6, <3>2
      <4>2. ~(new.task = u /\ new.row.revision = n)
        BY <2>2, <2>4, <3>2
      <4>3. {r \in revisions' : r.task = u /\ r.row.revision = n} = {r \in revisions : r.task = u /\ r.row.revision = n}
        BY <2>3, <4>2
      <4> QED BY <4>1, <4>3 DEF HistoryExact
    <3> QED BY <3>1, <3>2
  <2>11. ASSUME NEW u \in Tasks, NEW r \in revisions', r.task = u
         PROVE  /\ r.row.revision <= Revision(u)'
                /\ r.row.revision = Revision(u)' => r.row = task'[u] /\ r.sessions = LinkedTo(u, owner')
    <3>1. CASE r = new
      BY <2>2, <2>4, <2>8, <2>11, <3>1
    <3>2. CASE r \in revisions
      <4>1. r.row.revision <= Revision(u) /\ r.row.revision \in Nat
        BY <2>5, <2>11, <3>2 DEF NumbersTrue
      <4>2. CASE u = t
        BY <2>2, <4>1, <4>2
      <4>3. CASE u # t
        <5>1. /\ Revision(u)' = Revision(u) /\ task'[u] = task[u] /\ LinkedTo(u, owner') = LinkedTo(u, owner)
          BY <2>2, <2>3, <4>3, LinksMove
        <5>2. r.row.revision = Revision(u) => r.row = task[u] /\ r.sessions = LinkedTo(u, owner)
          BY <2>11, <3>2 DEF HistoryExact
        <5> QED BY <4>1, <5>1, <5>2
      <4> QED BY <4>2, <4>3
    <3> QED BY <2>3, <3>1, <3>2
  <2>12. ASSUME NEW u \in Tasks, NEW s \in LinkedTo(u, owner') PROVE bound'[s] = projectOf[u]
    BY <2>3, LinksMove DEF HistoryExact
  <2>13. HistoryExact'
    BY <2>10, <2>11, <2>12 DEF HistoryExact
  <2> QED BY <2>9, <2>13
<1> QED BY <1>1, <1>2 DEF StoreSteps

-----------------------------------------------------------------------------
(* The invariant                                                              *)

WorkbenchInv ==
  /\ StoreTypes /\ LedgerTypes        \* every table, form, page and call holds what it may hold
  /\ CallsTrue                        \* a call carries the row its author read
  /\ NumbersTrue /\ HistoryExact      \* the history
  /\ Versions                         \* the table of decisions
  /\ PrepsTrue /\ PreviewsTrue        \* previews name what was in force

\* Every step keeps the tables and the calls.
LEMMA StoreKept ==
  ASSUME StoreTypes, LedgerTypes, CallsTrue, [Next]_vars, StoreSteps
  PROVE  StoreTypes' /\ CallsTrue'
<1>1. events \subseteq Events
  BY DEF StoreTypes
<1>2. CASE EditNext
  BY <1>2, EditKeepsTypes
<1>3. UNCHANGED <<form, call>> /\ events' \subseteq Events => StoreTypes' /\ CallsTrue'
  BY NoClient
<1>4. CASE LedgerNext
  <2>1. ASSUME NEW c \in Clients, NEW versions, Mutate(c, versions) PROVE UNCHANGED <<form, call, events>>
    BY <2>1 DEF Mutate, SaveTask
  <2>2. \A c \in Clients : /\ \A a, b : DeclareConflict(c, a, b) => UNCHANGED <<form, call, events>>
                           /\ \A a, b : Transition(c, a, b) => UNCHANGED <<form, call, events>>
                           /\ \A d, e, f : AppendEntry(c, d, e, f) => UNCHANGED <<form, call, events>>
    BY <2>1 DEF DeclareConflict, Transition, AppendEntry
  <2>3. \A c \in Clients : ViewRevision(c) \/ CompileLedger(c) \/ SavePreview(c) => UNCHANGED <<form, call, events>>
    BY DEF ViewRevision, CompileLedger, SavePreview, storeVars, tables
  <2>4. \A c \in Clients, t \in Tasks : /\ ViewLedger(c, t) => UNCHANGED <<form, call, events>>
                                       /\ \A w : BeginPreview(c, t, w) => UNCHANGED <<form, call, events>>
    BY DEF ViewLedger, BeginPreview, storeVars, tables
  <2>5. UNCHANGED <<form, call, events>>
    BY <1>4, <2>2, <2>3, <2>4 DEF LedgerNext
  <2> QED BY <1>1, <1>3, <2>5
<1>5. CASE Index \/ Import \/ Clear
  <2>1. UNCHANGED <<form, call>> /\ events' \subseteq Events
    BY <1>1, <1>5 DEF Index, Import, Clear, IndexBatch, ImportEvent, ClearEvents
  <2> QED BY <1>3, <2>1
<1>6. CASE Searching \/ UNCHANGED vars
  <2>1. UNCHANGED <<form, call, events>>
    BY <1>6 DEF Searching, TabNext, Look, Answer, NextPage, PreviousPage, ReloadPage, Restart,
                vars, storeVars, tables
  <2> QED BY <1>1, <1>3, <2>1
<1> QED BY <1>2, <1>4, <1>5, <1>6 DEF Next, Editing, Deciding

\* The invariant holds before the first task.
LEMMA InitHolds == Init => WorkbenchInv
<1> SUFFICES ASSUME Init PROVE WorkbenchInv
  OBVIOUS
<1>1. StoreTypes /\ CallsTrue /\ NumbersTrue
  BY Constants DEF Init, StoreInit, StoreTypes, CallsTrue, NumbersTrue
<1>2. HistoryExact
  <2>1. \A t \in Tasks : Revision(t) = 0 /\ LinkedTo(t, owner) = {}
    BY Constants DEF Init, StoreInit, Revision, LinkedTo
  <2> QED BY <2>1 DEF Init, StoreInit, HistoryExact
<1>3. LedgerTypes /\ PrepsTrue /\ PreviewsTrue
  BY DEF Init, LedgerInit, LedgerTypes, PrepsTrue, PreviewsTrue
<1>4. Versions
  <2>1. Ids = {}
    BY DEF Init, LedgerInit, Ids
  <2> QED BY <2>1, FS_EmptySet DEF Init, LedgerInit, Versions
<1> QED BY <1>1, <1>2, <1>3, <1>4 DEF WorkbenchInv

\* Every step keeps the invariant.
LEMMA InvKept == WorkbenchInv /\ [Next]_vars => WorkbenchInv'
<1> SUFFICES ASSUME WorkbenchInv, [Next]_vars PROVE WorkbenchInv'
  OBVIOUS
<1> USE DEF WorkbenchInv
<1>1. StoreSteps
  BY OneKindOfSave
<1>2. StoreTypes' /\ CallsTrue'
  BY <1>1, StoreKept
<1>3. LedgerTypes' /\ Versions'
  BY <1>1, LedgerTypesKept, VersionsKept
<1>4. NumbersTrue' /\ HistoryExact'
  BY <1>1, HistoryKept
<1>5. PrepsTrue' /\ PreviewsTrue'
  BY <1>1, PrepsKept, PreviewsKept
<1> QED BY <1>2, <1>3, <1>4, <1>5

\* The inductive invariant of the Workbench, for any number of tasks, sessions,
\* clients, events and drafts.
THEOREM Invariance == Spec => []WorkbenchInv
  BY InitHolds, InvKept, PTL DEF Spec

\* The history is the truth about the present, whoever saves, links and indexes.
THEOREM HistoryIsExact == Spec => []HistoryExact
<1>1. WorkbenchInv => HistoryExact
  BY DEF WorkbenchInv
<1> QED BY <1>1, Invariance, PTL
-----------------------------------------------------------------------------
(* What a step may not do                                                     *)

\* No edit is lost: a save builds on the row that is there, whoever saved in
\* between the read of its author and its own transaction.
THEOREM NoLostUpdate == Spec => EditsBuildOnLatest
<1> DEFINE OnLatest(t) == task[t] # None /\ task'[t] # task[t] =>
             /\ task'[t].revision = task[t].revision + 1
             /\ \A f \in Fields : task'[t].body[f] \in {task[t].body[f], task'[t].revision}
<1>1. WorkbenchInv /\ [Next]_vars => \A t \in Tasks : OnLatest(t)
  <2> SUFFICES ASSUME WorkbenchInv, [Next]_vars, NEW t \in Tasks, task[t] # None, task'[t] # task[t]
               PROVE  OnLatest(t)
    OBVIOUS
  <2>1. StoreSteps /\ StoreTypes
    BY OneKindOfSave DEF WorkbenchInv
  <2>2. PICK u \in Tasks : SaveStep(u)
    BY <2>1 DEF StoreSteps
  <2>3. PICK row, expected, links : Builds(u, row, expected, links) /\ SaveTask(u, row, expected, links)
    BY <2>2 DEF SaveStep
  <2>4. u = t /\ task'[t] = row /\ expected = Revision(t)
    BY <2>1, <2>3, SaveEffect
  <2>5. Revision(t) = task[t].revision
    BY <2>1, RevisionType
  <2> QED BY <2>3, <2>4, <2>5 DEF Builds
<1>2. (\A t \in Tasks : OnLatest(t)) => [\A t \in Tasks : OnLatest(t)]_task
  OBVIOUS
<1> QED BY <1>1, <1>2, Invariance, PTL DEF Spec, EditsBuildOnLatest

\* What came after the completion of a task is reported until the task is open
\* again or the evidence itself is gone.
THEOREM ActivityIsReported == Spec => ActivityReported
<1> DEFINE Reported(t) == Completed(t)' =>
             /\ ~Completed(t) => ~NewActivity(t)'
             /\ Completed(t) /\ NewActivity(t) /\ Evidence(t) \subseteq Evidence(t)' => NewActivity(t)'
<1>1. WorkbenchInv /\ [Next]_vars => \A t \in Tasks : Reported(t)
  <2> SUFFICES ASSUME WorkbenchInv, [Next]_vars, NEW t \in Tasks, Completed(t)' PROVE Reported(t)
    OBVIOUS
  <2>1. StoreSteps /\ StoreTypes
    BY OneKindOfSave DEF WorkbenchInv
  <2>2. ASSUME UNCHANGED <<task, baseline>> \/ (task'[t] = task[t] /\ baseline'[t] = baseline[t]) PROVE Reported(t)
    BY <2>2 DEF Completed, NewActivity
  <2>3. ASSUME SaveStep(t) PROVE Reported(t)
    <3>1. PICK row, expected, links : Builds(t, row, expected, links) /\ SaveTask(t, row, expected, links)
      BY <2>3 DEF SaveStep
    <3>2. task'[t] = row /\ row.lifecycle = "completed"
      BY <2>1, <3>1, SaveEffect DEF Completed
    <3>3. /\ owner' = LinksAfter(t, links) /\ UNCHANGED events
          /\ baseline'[t] = BaselineAfter(t, row, links)
      BY <2>1, <3>1 DEF SaveTask, StoreTypes
    <3>4. CASE Completed(t)
      <4>1. baseline'[t] = baseline[t]
        BY <3>2, <3>3, <3>4 DEF Completed, BaselineAfter
      <4> QED BY <3>4, <4>1 DEF NewActivity, Completed
    <3>5. CASE ~Completed(t)
      <4>1. baseline'[t] = Evidence(t)'
        BY <3>2, <3>3, <3>5 DEF Completed, BaselineAfter, Evidence
      <4> QED BY <3>5, <4>1 DEF NewActivity
    <3> QED BY <3>4, <3>5
  <2>4. ASSUME NEW u \in Tasks \ {t}, SaveStep(u) PROVE task'[t] = task[t] /\ baseline'[t] = baseline[t]
    <3>1. PICK row, expected, links : Builds(u, row, expected, links) /\ SaveTask(u, row, expected, links)
      BY <2>4 DEF SaveStep
    <3> QED BY <2>1, <3>1, SaveEffect DEF SaveTask, StoreTypes
  <2> QED BY <2>1, <2>2, <2>3, <2>4 DEF StoreSteps
<1>2. (\A t \in Tasks : Reported(t)) => [\A t \in Tasks : Reported(t)]_<<task, owner, events, baseline>>
  OBVIOUS
<1> QED BY <1>1, <1>2, Invariance, PTL DEF Spec, ActivityReported

\* Two entries in force are never disputed: the dispute is in the latest
\* version of the one it was declared on, and their scopes still overlap.
LEMMA Disputes == WorkbenchInv => DisputesStand
<1> SUFFICES ASSUME WorkbenchInv, NEW t \in Tasks, NEW w \in Workspaces \cup {None},
                    NEW a \in Effective(Latest(t), w), NEW b \in Effective(Latest(t), w),
                    NEW v \in ledger, v.id = a.id, b.id \in v.disputed
             PROVE  FALSE
  BY DEF DisputesStand
<1>1. LedgerTypes /\ Versions
  BY DEF WorkbenchInv
<1>2. /\ a \in Latest(t) /\ b \in Latest(t)
      /\ a \in Confirmed(InScope(Latest(t), w)) /\ b \in Confirmed(InScope(Latest(t), w))
      /\ a \notin Disputed(Latest(t), w)
  BY DEF Effective, Confirmed, InScope
<1>3. /\ a \in ledger /\ b \in ledger /\ v.version <= a.version
  BY <1>1, <1>2, LatestAre
<1>4. v.disputed \subseteq a.disputed
  BY <1>1, <1>3 DEF Versions
<1>5. b.id # a.id /\ \E y \in ledger : y.id = b.id /\ Overlaps(a.scope, y.scope)
  BY <1>1, <1>3, <1>4 DEF Versions
<1>6. Overlaps(a.scope, b.scope)
  BY <1>1, <1>3, <1>5 DEF Versions
<1>7. Contradict(a, b)
  BY <1>4, <1>5, <1>6 DEF Contradict
<1> QED BY <1>2, <1>7 DEF Disputed

\* A preview names the revision at which its entries were in force.
LEMMA Previews == WorkbenchInv => PreviewsNameTheirRevision
  BY DEF WorkbenchInv, PreviewsTrue, InForce, PreviewsNameTheirRevision

\* An entry that was retired stays as it is, and one is superseded only
\* together with the one that takes its place.
LEMMA RetiredStands ==
  ASSUME WorkbenchInv, [Next]_vars, NEW t \in Tasks, NEW v \in Latest(t), NEW w \in Latest(t)', w.id = v.id
  PROVE  /\ Retired(v) => w = v
         /\ w.state = "superseded" /\ ~Retired(v) =>
              \E r \in Latest(t)' : /\ r.taskRevision = w.taskRevision /\ r.version = 1
                                    /\ r.state = "confirmed" /\ v.id \in r.supersedes
                                    /\ r.topic = v.topic /\ r.scope = v.scope
<1>1. StoreTypes /\ LedgerTypes /\ Versions /\ LedgerTypes' /\ Versions'
  BY InvKept DEF WorkbenchInv
<1>2. /\ v \in ledger /\ v.task = t /\ \A x \in ledger : x.id = v.id => x.version <= v.version
      /\ w \in ledger' /\ w.task = t /\ \A x \in ledger' : x.id = w.id => x.version <= w.version
  <2>1. Latest(t) = {x \in ledger : x.task = t /\ \A y \in ledger : y.id = x.id => y.version <= x.version}
    BY <1>1, LatestAre
  <2>2. Latest(t)' = {x \in ledger' : x.task = t /\ \A y \in ledger' : y.id = x.id => y.version <= x.version}
    BY <1>1, LatestNext
  <2> QED BY <2>1, <2>2
<1>3. CASE w \in ledger
  <2>1. w \in Latest(t)
    <3>1. ledger \subseteq ledger'
      BY LedgerSteps, <1>1 DEF Mutation, LedgerReading, ViewRevision, CompileLedger, SavePreview, ViewLedger, BeginPreview, ledgerVars
    <3> QED BY <1>1, <1>2, <1>3, <3>1, LatestAre
  <2>2. w = v
    BY <1>1, <2>1, OneLatest
  <2> QED BY <2>2 DEF Retired
<1>4. CASE w \notin ledger
  <2>0. PICK u \in Tasks : \E versions : Mutation(u, versions)
    BY LedgerSteps, <1>1, <1>2, <1>4 DEF LedgerReading, ViewRevision, CompileLedger, SavePreview, ViewLedger, BeginPreview, ledgerVars
  <2>1. PICK versions : Mutation(u, versions)
    BY <2>0
  <2>2. PICK a \in versions : /\ w.id = a.id /\ w.task = u /\ w.taskRevision = Revision(u) + 1 /\ w.state = a.state
                              /\ FirstVersion(u, a) \/ \E x \in Latest(u) : NextVersion(u, x, a, versions)
    BY <1>1, <1>2, <1>4, <2>1, AddedVersions
  <2>3. u = t
    BY <1>2, <2>2
  <2>4. ~FirstVersion(u, a)
    BY <1>1, <1>2, <2>2, FreshIsNew DEF FirstVersion, Ids
  <2>5. PICK x \in Latest(t) : NextVersion(t, x, a, versions)
    BY <2>2, <2>3, <2>4
  <2>6. x = v
    <3>1. x \in Latest(t) /\ x.id = v.id
      BY <2>2, <2>5 DEF NextVersion
    <3> QED BY <1>1, <3>1, OneLatest
  <2>7. ~Retired(v)
    BY <2>5, <2>6 DEF NextVersion
  <2>8. ASSUME w.state = "superseded"
        PROVE  \E r \in Latest(t)' : /\ r.taskRevision = w.taskRevision /\ r.version = 1
                                     /\ r.state = "confirmed" /\ v.id \in r.supersedes
                                     /\ r.topic = v.topic /\ r.scope = v.scope
    <3>1. PICK b \in versions : Replaces(b, v)
      BY <2>2, <2>5, <2>6, <2>8 DEF NextVersion
    <3>2. Revision(t) + 1 \in Nat /\ b \in Assertions
      BY <1>1, <2>1, <2>3, RevisionType DEF Mutation, Changes
    <3> DEFINE r == Later(b, Revision(t) + 1)
    <3>3. /\ r.id = FreshId /\ r.version = 1 /\ r.taskRevision = w.taskRevision /\ r.state = "confirmed"
          /\ v.id \in r.supersedes /\ r.topic = v.topic /\ r.scope = v.scope /\ r.task = b.task
      <4>1. /\ b.id = FreshId /\ b.version = 0 /\ b.state = "confirmed"
            /\ v.id \in b.supersedes /\ b.topic = v.topic /\ b.scope = v.scope
        BY <3>1 DEF Replaces
      <4>2. /\ r.version = b.version + 1 /\ r.taskRevision = Revision(t) + 1
            /\ r.id = b.id /\ r.task = b.task /\ r.topic = b.topic /\ r.scope = b.scope
            /\ r.state = b.state /\ r.supersedes = b.supersedes
        BY <3>2, LaterFields
      <4>3. w.taskRevision = Revision(t) + 1
        BY <2>2, <2>3
      <4> QED BY <4>1, <4>2, <4>3
    <3>4. r \in ledger'
      BY <2>1, <2>3 DEF Mutation
    <3>5. b.task = t
      BY <2>1, <2>3 DEF Mutation, Changes, FirstVersion, NextVersion
    <3>6. \A y \in ledger' : y.id = r.id => y.version <= r.version
      <4>1. ASSUME NEW y \in ledger', y.id = r.id PROVE y = r
        <5>1. y \notin ledger
          BY <1>1, <3>3, <4>1, FreshIsNew DEF Ids
        <5>2. PICK e \in versions : y = Later(e, Revision(t) + 1) /\ y.id = e.id
          BY <1>1, <2>1, <2>3, <5>1, AddedVersions
        <5>3. b.id = e.id
          BY <3>1, <3>3, <4>1, <5>2 DEF Replaces
        <5>4. b = e
          BY <2>1, <5>3 DEF Mutation, Changes
        <5> QED BY <5>2, <5>4
      <4>2. r.version \in Nat
        BY <3>3
      <4> QED BY <4>1, <4>2
    <3> HIDE DEF r
    <3>7. r \in Latest(t)'
      <4>1. Latest(t)' = {z \in ledger' : z.task = t /\ \A y \in ledger' : y.id = z.id => y.version <= z.version}
        BY <1>1, LatestNext
      <4> QED BY <3>3, <3>4, <3>5, <3>6, <4>1
    <3> QED BY <3>3, <3>7
  <2> QED BY <2>7, <2>8
<1> QED BY <1>3, <1>4

\* Decisions stand: what is disputed stays out of what a handoff is told, what
\* was retired is not revived, and a preview carries what was in force at the
\* task revision it names, whatever is recorded while it is prepared.
THEOREM DecisionsHold == Spec => DecisionsInForce
<1> DEFINE Stands ==
      /\ ledger \subseteq ledger'
      /\ \A t \in Tasks : \A v \in Latest(t), w \in Latest(t)' : w.id = v.id =>
           /\ Retired(v) => w = v
           /\ w.state = "superseded" /\ ~Retired(v) =>
                \E r \in Latest(t)' : /\ r.taskRevision = w.taskRevision /\ r.version = 1
                                      /\ r.state = "confirmed" /\ v.id \in r.supersedes
                                      /\ r.topic = v.topic /\ r.scope = v.scope
<1>1. WorkbenchInv /\ [Next]_vars => Stands
  <2> SUFFICES ASSUME WorkbenchInv, [Next]_vars PROVE Stands
    OBVIOUS
  <2>1. ledger \subseteq ledger'
    BY LedgerSteps DEF WorkbenchInv, Mutation, LedgerReading, ViewRevision, CompileLedger, SavePreview, ViewLedger,
                       BeginPreview, ledgerVars
  <2> QED BY <2>1, RetiredStands
<1>2. Stands => [Stands]_<<task, ledger>>
  OBVIOUS
<1>3. Spec => RetirementStands
  BY <1>1, <1>2, Invariance, PTL DEF Spec, RetirementStands
<1>4. Spec => []DisputesStand /\ []PreviewsNameTheirRevision
  BY Disputes, Previews, Invariance, PTL
<1> QED BY <1>3, <1>4 DEF DecisionsInForce

-----------------------------------------------------------------------------
(* The order of the documents                                                 *)

\* What the assumptions say of the searched data.
LEMMA SearchConstants ==
  /\ Times \subseteq Nat /\ 0 \in Times /\ PageSize \in Nat /\ PageSize >= 1
  /\ IsFiniteSet(Sessions) /\ IsFiniteSet(Tasks)
  /\ Rank \in [Sessions \cup Tasks -> Nat]
  /\ \A d, e \in Sessions \cup Tasks : Rank[d] = Rank[e] => d = e
  BY SearchAssumption

ActivityTypes == activity \in [Sessions -> Times]

\* The documents are finitely many, and each has a place in the order.
LEMMA DocumentTypes ==
  ASSUME ActivityTypes
  PROVE  /\ IsFiniteSet(Documents) /\ Documents \subseteq Sessions \cup Tasks
         /\ \A d \in Documents : ActivityOf(d) \in Nat /\ Rank[d] \in Nat
<1>1. Documents \in SUBSET (Sessions \cup Tasks)
  BY DEF Documents
<1>2. IsFiniteSet(Sessions \cup Tasks)
  BY SearchConstants, FS_Union
<1>3. IsFiniteSet(Documents)
  BY <1>1, <1>2, FS_Subset
<1>4. \A d \in Documents : ActivityOf(d) \in Nat /\ Rank[d] \in Nat
  BY <1>1, SearchConstants DEF ActivityTypes, ActivityOf
<1> QED BY <1>1, <1>3, <1>4

\* The most recent first, then by identifier, is a strict total order.
LEMMA BeforeOrders ==
  ASSUME ActivityTypes
  PROVE  /\ \A d \in Documents : ~Before(d, d)
         /\ \A d, e \in Documents : d # e => Before(d, e) \/ Before(e, d)
         /\ \A d, e, f \in Documents : Before(d, e) /\ Before(e, f) => Before(d, f)
<1>1. Documents \subseteq Sessions \cup Tasks /\ \A d \in Documents : ActivityOf(d) \in Nat /\ Rank[d] \in Nat
  BY DocumentTypes
<1>2. \A d, e \in Documents : Rank[d] = Rank[e] => d = e
  BY <1>1, SearchConstants
<1> QED BY <1>1, <1>2 DEF Before

Preceding(S, d) == {e \in S : Before(e, d)}
Place(S, d) == Cardinality(Preceding(S, d))

\* Of two documents the later one has more documents before it.
LEMMA PlacesRise ==
  ASSUME ActivityTypes, NEW S \in SUBSET Documents
  PROVE  /\ IsFiniteSet(S) /\ Cardinality(S) \in Nat
         /\ \A d \in S : Place(S, d) \in 0..Cardinality(S) - 1
         /\ \A d, e \in S : Before(d, e) => Place(S, d) < Place(S, e)
<1>1. IsFiniteSet(S) /\ Cardinality(S) \in Nat
  BY DocumentTypes, FS_Subset, FS_CardinalityType
<1>2. \A d \in S : IsFiniteSet(Preceding(S, d)) /\ Place(S, d) \in Nat
  <2> SUFFICES ASSUME NEW d \in S PROVE IsFiniteSet(Preceding(S, d)) /\ Place(S, d) \in Nat
    OBVIOUS
  <2>1. Preceding(S, d) \in SUBSET S
    BY DEF Preceding
  <2> QED BY <1>1, <2>1, FS_Subset, FS_CardinalityType DEF Place
<1>3. ASSUME NEW d \in S, NEW U \in SUBSET S, Preceding(S, d) \subseteq U, d \in U
      PROVE  Place(S, d) < Cardinality(U)
  <2>1. IsFiniteSet(U) /\ Cardinality(U) \in Nat
    BY <1>1, FS_Subset, FS_CardinalityType
  <2>2. Preceding(S, d) \in SUBSET U /\ d \notin Preceding(S, d)
    BY <1>3, BeforeOrders DEF Preceding
  <2>3. Cardinality(Preceding(S, d)) <= Cardinality(U)
    BY <2>1, <2>2, FS_Subset
  <2>4. Cardinality(U) # Cardinality(Preceding(S, d))
    BY <1>3, <2>1, <2>2, FS_Subset
  <2> QED BY <1>2, <2>1, <2>3, <2>4 DEF Place
<1>4. \A d \in S : Place(S, d) < Cardinality(S)
  BY <1>3 DEF Preceding
<1>5. ASSUME NEW d \in S, NEW e \in S, Before(d, e) PROVE Place(S, d) < Place(S, e)
  <2>1. Preceding(S, d) \subseteq Preceding(S, e) /\ d \in Preceding(S, e)
    BY <1>5, BeforeOrders DEF Preceding
  <2>2. Preceding(S, e) \in SUBSET S
    BY DEF Preceding
  <2> QED BY <1>3, <2>1, <2>2 DEF Place
<1> QED BY <1>1, <1>2, <1>4, <1>5

\* No two documents have the same place, and every place is taken.
LEMMA PlacesTaken ==
  ASSUME ActivityTypes, NEW S \in SUBSET Documents
  PROVE  /\ \A d, e \in S : Place(S, d) = Place(S, e) => d = e
         /\ \A n \in 1..Cardinality(S) : \E d \in S : Place(S, d) = n - 1
<1>1. \A d, e \in S : Place(S, d) = Place(S, e) => d = e
  <2> SUFFICES ASSUME NEW d \in S, NEW e \in S, d # e PROVE Place(S, d) # Place(S, e)
    OBVIOUS
  <2>1. Before(d, e) \/ Before(e, d)
    BY BeforeOrders
  <2> QED BY <2>1, PlacesRise
<1> DEFINE size == Cardinality(S)
           at == [d \in S |-> Place(S, d) + 1]
<1>2. size \in Nat /\ IsFiniteSet(S) /\ \A d \in S : Place(S, d) \in 0..size - 1
  BY PlacesRise
<1>3. at \in Injection(S, 1..size)
  <2>1. \A d \in S : at[d] = Place(S, d) + 1
    OBVIOUS
  <2>2. at \in [S -> 1..size]
    BY <1>2
  <2>3. \A d, e \in S : at[d] = at[e] => d = e
    BY <1>1, <1>2, <2>1
  <2> QED BY <2>2, <2>3, Zenon DEF Injection, IsInjective
<1>4. IsFiniteSet(1..size) /\ Cardinality(1..size) = size
  BY <1>2, FS_Interval
<1>5. at \in Surjection(S, 1..size)
  BY <1>3, <1>4, FS_Injection
<1>6. \A n \in 1..size : \E d \in S : at[d] = n
  BY <1>5 DEF Surjection
<1> QED BY <1>1, <1>2, <1>6

\* The sequence of a set has every document at its place.
LEMMA InOrderPlaces ==
  ASSUME ActivityTypes, NEW S \in SUBSET Documents
  PROVE  /\ InOrder(S) \in Seq(S) /\ Len(InOrder(S)) = Cardinality(S)
         /\ \A n \in 1..Cardinality(S) : InOrder(S)[n] \in S /\ Place(S, InOrder(S)[n]) = n - 1
         /\ \A n \in 1..Cardinality(S), d \in S : Place(S, d) = n - 1 => InOrder(S)[n] = d
<1> DEFINE size == Cardinality(S)
           nth(n) == CHOOSE d \in S : Place(S, d) = n - 1
<1>1. size \in Nat
  BY PlacesRise
<1>2. InOrder(S) = [n \in 1..size |-> nth(n)]
  BY DEF InOrder, Place, Preceding
<1>3. \A n \in 1..size : nth(n) \in S /\ Place(S, nth(n)) = n - 1
  BY PlacesTaken
<1> HIDE DEF nth
<1>4. InOrder(S) \in [1..size -> S]
  BY <1>2, <1>3
<1>5. InOrder(S) \in Seq(S) /\ Len(InOrder(S)) = size
  BY <1>1, <1>4
<1>6. \A n \in 1..size, d \in S : Place(S, d) = n - 1 => InOrder(S)[n] = d
  BY <1>2, <1>3, PlacesTaken
<1> QED BY <1>2, <1>3, <1>5, <1>6

-----------------------------------------------------------------------------
(* Cursors                                                                    *)

\* A cursor names a place in the order, whether or not a document is there.
PlaceNamed(cursor) == cursor = None \/ (cursor.activity \in Nat /\ cursor.rank \in Nat)

\* What comes before an answered document has been answered.
LEMMA AnsweredFirst ==
  ASSUME ActivityTypes, NEW cursor, PlaceNamed(cursor)
  PROVE  /\ After(cursor) \subseteq Documents
         /\ cursor = None => After(cursor) = Documents
         /\ \A d, e \in Documents : e \in After(cursor) /\ Before(e, d) => d \in After(cursor)
<1>1. After(cursor) \subseteq Documents /\ (cursor = None => After(cursor) = Documents)
  BY DEF After
<1>2. ASSUME NEW d \in Documents, NEW e \in Documents, e \in After(cursor), Before(e, d)
      PROVE  d \in After(cursor)
  <2>1. ActivityOf(d) \in Nat /\ Rank[d] \in Nat /\ ActivityOf(e) \in Nat /\ Rank[e] \in Nat
    BY DocumentTypes
  <2>2. CASE cursor = None
    BY <2>2 DEF After
  <2>3. CASE cursor # None
    <3>1. cursor.activity \in Nat /\ cursor.rank \in Nat
      BY <2>3 DEF PlaceNamed
    <3>2. ActivityOf(e) < cursor.activity \/ (ActivityOf(e) = cursor.activity /\ Rank[e] > cursor.rank)
      BY <1>2, <2>3 DEF After
    <3>3. ActivityOf(d) < cursor.activity \/ (ActivityOf(d) = cursor.activity /\ Rank[d] > cursor.rank)
      BY <1>2, <2>1, <3>1, <3>2 DEF Before
    <3> QED BY <3>3 DEF After
  <2> QED BY <2>2, <2>3
<1> QED BY <1>1, <1>2

\* What remains after a cursor is the rest of the sequence.
LEMMA RestInOrder ==
  ASSUME ActivityTypes, NEW S \in SUBSET Documents, NEW cursor, PlaceNamed(cursor)
  PROVE  LET rest == S \cap After(cursor)
             answered == Cardinality(S \ After(cursor))
         IN /\ answered \in Nat /\ Cardinality(S) = answered + Cardinality(rest)
            /\ \A n \in 1..Cardinality(rest) : InOrder(rest)[n] = InOrder(S)[answered + n]
<1> DEFINE rest == S \cap After(cursor)
           gone == S \ After(cursor)
           answered == Cardinality(gone)
<1>1. IsFiniteSet(S) /\ rest \in SUBSET Documents
  BY PlacesRise
<1>2. /\ gone \in SUBSET S /\ gone \cap rest = {} /\ gone \cup rest = S /\ rest \in SUBSET S
  OBVIOUS
<1>3. IsFiniteSet(gone) /\ IsFiniteSet(rest)
  BY <1>1, <1>2, FS_Subset
<1>4. answered \in Nat /\ Cardinality(rest) \in Nat
  BY <1>3, FS_CardinalityType
<1>5. Cardinality(S) = answered + Cardinality(rest)
  <2>1. Cardinality(gone \cap rest) = 0
    BY <1>2, FS_EmptySet
  <2>2. Cardinality(gone \cup rest) = Cardinality(gone) + Cardinality(rest) - Cardinality(gone \cap rest)
    BY <1>3, FS_Union
  <2> QED BY <1>2, <1>4, <2>1, <2>2
<1>6. ASSUME NEW d \in rest PROVE Place(S, d) = answered + Place(rest, d)
  <2>1. Preceding(S, d) = gone \cup Preceding(rest, d) /\ gone \cap Preceding(rest, d) = {}
    <3>1. \A e \in gone : Before(e, d)
      <4> SUFFICES ASSUME NEW e \in gone PROVE Before(e, d)
        OBVIOUS
      <4>1. e # d /\ ~Before(d, e)
        BY AnsweredFirst
      <4> QED BY <4>1, BeforeOrders
    <3> QED BY <3>1, <1>2 DEF Preceding
  <2>2. Preceding(rest, d) \in SUBSET S
    BY DEF Preceding
  <2>3. IsFiniteSet(Preceding(rest, d)) /\ Place(rest, d) \in Nat
    BY <1>1, <2>2, FS_Subset, FS_CardinalityType DEF Place
  <2>4. Cardinality(gone \cap Preceding(rest, d)) = 0
    BY <2>1, FS_EmptySet
  <2>5. Cardinality(gone \cup Preceding(rest, d))
          = Cardinality(gone) + Cardinality(Preceding(rest, d)) - Cardinality(gone \cap Preceding(rest, d))
    BY <1>3, <2>3, FS_Union
  <2> QED BY <1>4, <2>1, <2>3, <2>4, <2>5 DEF Place
<1>7. ASSUME NEW n \in 1..Cardinality(rest) PROVE InOrder(rest)[n] = InOrder(S)[answered + n]
  <2>1. InOrder(rest)[n] \in rest /\ Place(rest, InOrder(rest)[n]) = n - 1
    BY <1>1, InOrderPlaces
  <2>2. Place(S, InOrder(rest)[n]) = answered + n - 1
    BY <1>4, <1>6, <2>1
  <2>3. answered + n \in 1..Cardinality(S)
    BY <1>4, <1>5
  <2> QED BY <2>1, <2>2, <2>3, InOrderPlaces
<1> QED BY <1>4, <1>5, <1>7

\* The cursor that names the n-th document has n documents answered.
LEMMA AnsweredUpTo ==
  ASSUME ActivityTypes, NEW S \in SUBSET Documents, NEW n \in 1..Cardinality(S), NEW cursor,
         cursor # None,
         cursor.activity = ActivityOf(InOrder(S)[n]), cursor.rank = Rank[InOrder(S)[n]]
  PROVE  PlaceNamed(cursor) /\ Cardinality(S \ After(cursor)) = n
<1> DEFINE d == InOrder(S)[n]
<1>1. d \in S /\ Place(S, d) = n - 1
  BY InOrderPlaces
<1> HIDE DEF d
<1>2. cursor.activity = ActivityOf(d) /\ cursor.rank = Rank[d] /\ ActivityOf(d) \in Nat /\ Rank[d] \in Nat
  BY <1>1, DocumentTypes DEF d
<1>3. PlaceNamed(cursor)
  BY <1>2 DEF PlaceNamed
<1>4. \A e \in Documents : e \in After(cursor) <=> Before(d, e)
  <2> SUFFICES ASSUME NEW e \in Documents PROVE e \in After(cursor) <=> Before(d, e)
    OBVIOUS
  <2>1. ActivityOf(e) \in Nat /\ Rank[e] \in Nat
    BY DocumentTypes
  <2> QED BY <1>2, <2>1 DEF After, Before
<1>5. S \ After(cursor) = Preceding(S, d) \cup {d} /\ d \notin Preceding(S, d)
  <2>1. \A e \in S : ~Before(d, e) <=> Before(e, d) \/ e = d
    BY <1>1, BeforeOrders
  <2>2. ~Before(d, d)
    BY <1>1, BeforeOrders
  <2> QED BY <1>1, <1>4, <2>1, <2>2 DEF Preceding
<1>6. IsFiniteSet(Preceding(S, d))
  <2>1. Preceding(S, d) \in SUBSET S
    BY DEF Preceding
  <2> QED BY <2>1, PlacesRise, FS_Subset
<1>7. Cardinality(Preceding(S, d) \cup {d}) = Place(S, d) + 1
  BY <1>5, <1>6, FS_AddElement DEF Place
<1>8. Cardinality(S \ After(cursor)) = Place(S, d) + 1
  BY <1>5, <1>7, Zenon
<1>9. n - 1 + 1 = n
  OBVIOUS
<1> QED BY <1>1, <1>3, <1>8, <1>9

-----------------------------------------------------------------------------
(* The invariant of the search                                                *)

Cursors == [generation : Nat, activity : Nat, rank : Nat]
SearchAnswers == [items : Seq(Sessions \cup Tasks), refused : BOOLEAN, next : Cursors \cup {None}]
SearchTabs ==
  [cursors : Seq(Cursors \cup {None}), index : Nat \ {0}, shown : SearchAnswers \cup {None}, asked : BOOLEAN]

\* The whole result, from the events themselves.
Found == {d \in Documents : TrueMatches(d)}

\* The cursors that are refused or have n whole pages of the result answered.
TrueCursors ==
  {answered \in (Cursors \cup {None}) \X Nat :
     LET cursor == answered[1] n == answered[2]
     IN /\ cursor # None => cursor.generation <= generation
        /\ Fresh(cursor) => Cardinality(Found \ After(cursor)) = n * PageSize}

\* A projection that is not dirty holds the events of its session.
ProjectionTrue == \A s \in Sessions : ~dirty[s] => projection[s] = EventsOf(s, events)

DataTrue ==
  /\ ActivityTypes /\ generation \in Nat
  /\ projection \in [Sessions -> SUBSET Events] /\ dirty \in [Sessions -> BOOLEAN]
  /\ ProjectionTrue

TabTrue ==
  /\ tab \in SearchTabs /\ tab.index \in 1..Len(tab.cursors)
  /\ \A n \in 1..Len(tab.cursors) : <<tab.cursors[n], n - 1>> \in TrueCursors
  /\ tab.shown # None /\ tab.shown.next # None => <<tab.shown.next, tab.index>> \in TrueCursors

SearchInv == DataTrue /\ TabTrue

-----------------------------------------------------------------------------
(* SearchAnswers                                                                    *)

\* A search finds what the events themselves hold.
LEMMA MatchesTrue ==
  ASSUME DataTrue
  PROVE  \A d \in Documents : Matches(d) <=> TrueMatches(d)
<1> SUFFICES ASSUME NEW d \in Documents, d \in Sessions PROVE TextOf(d) = EventsOf(d, events)
  BY DEF Matches, TrueMatches
<1> QED BY DEF DataTrue, ProjectionTrue, TextOf

\* The first items of what is left of a sequence are its next page.
LEMMA NextSlice ==
  ASSUME NEW all, NEW found, all \in Seq(Sessions \cup Tasks), found \in Seq(Sessions \cup Tasks),
         NEW k \in Nat, NEW end \in Nat, end = k + PageSize,
         Len(all) = k + Len(found), \A i \in 1..Len(found) : found[i] = all[k + i]
  PROVE  /\ Slice(found, PageSize)
              = SubSeq(all, end - PageSize + 1, IF Len(all) < end THEN Len(all) ELSE end)
         /\ Slice(found, PageSize) \in Seq(Sessions \cup Tasks)
         /\ Len(found) > PageSize => Last(Slice(found, PageSize)) = all[end]
<1> DEFINE last == IF Len(found) < PageSize THEN Len(found) ELSE PageSize
<1>1. PageSize \in Nat /\ PageSize >= 1
  BY SearchConstants
<1>2. end = k + PageSize
  OBVIOUS
<1>3. Len(found) \in Nat /\ last \in 0..Len(found)
  BY <1>1
<1>4. end - PageSize + 1 = k + 1
  BY <1>1, <1>2
<1>5. (IF Len(all) < end THEN Len(all) ELSE end) = k + last
  BY <1>1, <1>2, <1>3
<1> HIDE DEF last
<1>6. SubSeq(found, 1, last) = [i \in 1..last |-> found[i]]
  BY <1>3
<1>7. SubSeq(all, k + 1, k + last) = [i \in 1..last |-> all[k + i]]
  BY <1>3
<1>8. Slice(found, PageSize) = SubSeq(found, 1, last)
  BY DEF Slice, last
<1>9. SubSeq(found, 1, last) = SubSeq(all, k + 1, k + last)
  <2>1. \A i \in 1..last : found[i] = all[k + i]
    BY <1>3
  <2>2. [i \in 1..last |-> found[i]] = [i \in 1..last |-> all[k + i]]
    BY <2>1
  <2> QED BY <1>6, <1>7, <2>2, Zenon
<1>10. SubSeq(found, 1, last) \in Seq(Sessions \cup Tasks) /\ Len(SubSeq(found, 1, last)) = last
  BY <1>3, <1>6
<1>11. Len(found) > PageSize => Last(SubSeq(found, 1, last)) = all[end]
  <2> SUFFICES ASSUME Len(found) > PageSize PROVE Last(SubSeq(found, 1, last)) = all[end]
    OBVIOUS
  <2>1. last = PageSize
    BY <1>1, <1>3 DEF last
  <2> QED BY <1>1, <1>2, <1>3, <1>6, <1>10, <2>1 DEF Last
<1> QED BY <1>4, <1>5, <1>8, <1>9, <1>10, <1>11

\* A search from a cursor that has n - 1 pages answered gives the n-th page,
\* and the cursor to the next one.
LEMMA NextPageAnswered ==
  ASSUME DataTrue, NEW cursor, NEW n \in Nat \ {0}, <<cursor, n - 1>> \in TrueCursors, Fresh(cursor)
  PROVE  /\ Search(cursor) \in SearchAnswers /\ Search(cursor).items = TrueSlice(n)
         /\ Search(cursor).next # None => <<Search(cursor).next, n>> \in TrueCursors
<1> DEFINE rest == Found \cap After(cursor)
           k == (n - 1) * PageSize
           all == InOrder(Found)
           found == InOrder(rest)
           items == Slice(found, PageSize)
           next == [generation |-> generation, activity |-> ActivityOf(Last(items)), rank |-> Rank[Last(items)]]
<1>1. PageSize \in Nat /\ PageSize >= 1 /\ k \in Nat /\ n * PageSize = k + PageSize
  BY SearchConstants
<1>2. ActivityTypes /\ generation \in Nat /\ Found \in SUBSET Documents /\ rest \in SUBSET Documents
  BY DEF DataTrue, Found
<1>3. cursor \in Cursors \cup {None} /\ Cardinality(Found \ After(cursor)) = k
  BY DEF TrueCursors
<1>4. PlaceNamed(cursor)
  BY <1>3 DEF PlaceNamed, Cursors
<1>5. Cardinality(Found) = k + Cardinality(rest) /\ \A i \in 1..Cardinality(rest) : found[i] = all[k + i]
  <2>1. LET gone == Cardinality(Found \ After(cursor))
            left1 == Found \cap After(cursor)
        IN /\ Cardinality(Found) = gone + Cardinality(left1)
           /\ \A i \in 1..Cardinality(left1) : InOrder(left1)[i] = InOrder(Found)[gone + i]
    BY <1>2, <1>4, RestInOrder
  <2> QED BY <1>3, <2>1
<1>6. /\ all \in Seq(Sessions \cup Tasks) /\ found \in Seq(Sessions \cup Tasks)
      /\ Len(all) = Cardinality(Found) /\ Len(found) = Cardinality(rest)
  <2>1. all \in Seq(Found) /\ found \in Seq(rest) /\ Len(all) = Cardinality(Found) /\ Len(found) = Cardinality(rest)
    BY <1>2, InOrderPlaces
  <2>2. Found \subseteq Sessions \cup Tasks /\ rest \subseteq Sessions \cup Tasks
    BY <1>2, DocumentTypes
  <2> HIDE DEF all, found, rest
  <2> QED BY <2>1, <2>2
<1>7. {d \in After(cursor) : Matches(d)} = rest
  <2>1. After(cursor) \subseteq Documents
    BY DEF After
  <2> QED BY <2>1, MatchesTrue DEF Found
<1>8. Search(cursor) = [items |-> items, refused |-> FALSE,
                        next |-> IF Len(found) <= PageSize THEN None ELSE next]
  BY <1>7 DEF Search
<1>9. TrueSlice(n) = SubSeq(all, n * PageSize - PageSize + 1,
                            IF Len(all) < n * PageSize THEN Len(all) ELSE n * PageSize)
  BY DEF TrueSlice, Found
<1> HIDE DEF rest, k, all, found, next
<1>10. /\ items = TrueSlice(n) /\ items \in Seq(Sessions \cup Tasks)
       /\ Len(found) > PageSize => Last(items) = all[n * PageSize]
  <2>1. n * PageSize \in Nat
    BY <1>1
  <2>2. Len(all) = k + Len(found) /\ \A i \in 1..Len(found) : found[i] = all[k + i]
    BY <1>5, <1>6
  <2> QED BY <1>1, <1>6, <1>9, <2>1, <2>2, NextSlice DEF items
<1> HIDE DEF items
<1>11. ASSUME Len(found) > PageSize
       PROVE  next \in Cursors /\ (next # None => <<next, n>> \in TrueCursors)
  <2>1. n * PageSize \in 1..Cardinality(Found)
    <3>1. Cardinality(rest) \in Nat
      BY <1>2, PlacesRise
    <3> QED BY <1>1, <1>5, <1>6, <1>11, <3>1
  <2>2. next.activity = ActivityOf(all[n * PageSize]) /\ next.rank = Rank[all[n * PageSize]]
    BY <1>10, <1>11 DEF next
  <2>3. all[n * PageSize] \in Documents
    BY <1>2, <2>1, InOrderPlaces DEF all
  <2>4. next \in Cursors
    BY <1>2, <2>2, <2>3, DocumentTypes DEF next, Cursors
  <2>5. ASSUME next # None PROVE <<next, n>> \in TrueCursors
    <3>1. Cardinality(Found \ After(next)) = n * PageSize
      BY <1>2, <2>1, <2>2, <2>5, AnsweredUpTo DEF all
    <3>2. next.generation <= generation
      BY <1>2 DEF next
    <3> QED BY <2>4, <3>1, <3>2 DEF TrueCursors
  <2> QED BY <2>4, <2>5
<1>12. Len(found) \in Nat
  BY <1>6
<1>13. CASE Len(found) <= PageSize
  BY <1>8, <1>10, <1>13 DEF SearchAnswers
<1>14. CASE ~(Len(found) <= PageSize)
  <2>1. Search(cursor) = [items |-> items, refused |-> FALSE, next |-> next]
    BY <1>8, <1>14
  <2>2. Len(found) > PageSize
    BY <1>1, <1>12, <1>14
  <2> QED BY <1>10, <1>11, <2>1, <2>2 DEF SearchAnswers
<1> QED BY <1>13, <1>14

-----------------------------------------------------------------------------
(* The steps of the others                                                    *)

\* What is searched stays, or its generation moves on.
SearchedMoves ==
  \/ generation' = generation /\ UNCHANGED <<task, owner, events, activity>>
  \/ generation' > generation

\* No step but that of the index, an import or a clearing touches the events.
LEMMA EventsStay == EditNext \/ LedgerNext => UNCHANGED events
<1>1. ASSUME NEW c \in Clients, NEW versions, Mutate(c, versions) PROVE UNCHANGED events
  BY <1>1 DEF Mutate, SaveTask
<1>2. \A c \in Clients : /\ \A a, b : DeclareConflict(c, a, b) => UNCHANGED events
                         /\ \A a, b : Transition(c, a, b) => UNCHANGED events
                         /\ \A d, e, f : AppendEntry(c, d, e, f) => UNCHANGED events
  BY <1>1 DEF DeclareConflict, Transition, AppendEntry
<1>3. \A c \in Clients : ViewRevision(c) \/ CompileLedger(c) \/ SavePreview(c) => UNCHANGED events
  BY DEF ViewRevision, CompileLedger, SavePreview, storeVars, tables
<1>4. \A c \in Clients, t \in Tasks : /\ ViewLedger(c, t) => UNCHANGED events
                                     /\ \A w : BeginPreview(c, t, w) => UNCHANGED events
  BY DEF ViewLedger, BeginPreview, storeVars, tables
<1>5. LedgerNext => UNCHANGED events
  BY <1>2, <1>3, <1>4 DEF LedgerNext
<1>6. \A c \in Clients : /\ \A t \in Tasks : Open(c, t) => UNCHANGED events
                         /\ \A t \in Tasks : \A links : Create(c, t, links) => UNCHANGED events
                         /\ \A patch, lifecycle : BeginUpdate(c, patch, lifecycle) => UNCHANGED events
                         /\ \A s : BeginLink(c, s) => UNCHANGED events
                         /\ ReadLinks(c) \/ Save(c) \/ Leave(c) => UNCHANGED events
  BY DEF Open, Create, BeginUpdate, BeginLink, ReadLinks, Save, Leave, SaveTask, tables
<1>7. EditNext => UNCHANGED events
  BY <1>6 DEF EditNext
<1> QED BY <1>5, <1>7

\* Whatever changes the searched data, the projection stays true or is dirty.
LEMMA DataKept ==
  ASSUME DataTrue, events' \subseteq Events, [Next]_vars
  PROVE  DataTrue' /\ SearchedMoves
<1>1. generation \in Nat /\ activity \in [Sessions -> Times] /\ projection \in [Sessions -> SUBSET Events]
      /\ dirty \in [Sessions -> BOOLEAN] /\ \A s \in Sessions : ~dirty[s] => projection[s] = EventsOf(s, events)
  BY DEF DataTrue, ActivityTypes, ProjectionTrue
<1>2. Bump => generation' \in Nat /\ SearchedMoves
  BY <1>1 DEF Bump, SearchedMoves
<1>3. CASE Editing \/ Deciding
  <2>1. UNCHANGED <<activity, projection, dirty, events>> /\ Bump
    BY <1>3, EventsStay DEF Editing, Deciding
  <2> QED BY <1>1, <1>2, <2>1 DEF DataTrue, ActivityTypes, ProjectionTrue, EventsOf
<1>4. CASE Index
  <2>1. PICK s \in Sessions, at \in Times, batch \in SUBSET Events, reset \in BOOLEAN :
          IndexBatch(s, batch, reset) /\ Indexed(s, at) /\ Bump
    BY <1>4 DEF Index
  <2>2. /\ activity' = [activity EXCEPT ![s] = at]
        /\ projection' = [projection EXCEPT ![s] = EventsOf(s, events')]
        /\ dirty' = [dirty EXCEPT ![s] = FALSE]
    BY <2>1 DEF Indexed
  <2>3. \A other \in Sessions : other # s => EventsOf(other, events') = EventsOf(other, events)
    BY <2>1 DEF IndexBatch, EventsOf
  <2>4. ActivityTypes' /\ dirty' \in [Sessions -> BOOLEAN]
    BY <1>1, <2>2 DEF ActivityTypes
  <2>5. EventsOf(s, events') \in SUBSET Events
    BY DEF EventsOf
  <2>6. projection' \in [Sessions -> SUBSET Events]
    BY <1>1, <2>2, <2>5
  <2>7. ASSUME NEW other \in Sessions, ~dirty'[other] PROVE projection'[other] = EventsOf(other, events')
    BY <1>1, <2>2, <2>3, <2>7
  <2>8. ProjectionTrue'
    BY <2>7 DEF ProjectionTrue, EventsOf
  <2> QED BY <1>2, <2>1, <2>4, <2>6, <2>8 DEF DataTrue
<1>5. CASE Import \/ Clear
  <2>1. UNCHANGED projection /\ dirty' = [s \in Sessions |-> MarkDirty(s)]
    BY <1>5 DEF Import, Clear, Marked
  <2>2. activity' \in [Sessions -> Times]
    BY <1>1, <1>5, SearchConstants DEF Import, Clear
  <2>3. generation' \in Nat /\ SearchedMoves
    BY <1>1, <1>2, <1>5 DEF Import, Clear, SearchedMoves
  <2>4. ASSUME NEW s \in Sessions, ~dirty'[s] PROVE projection'[s] = EventsOf(s, events')
    BY <1>1, <2>1, <2>4 DEF MarkDirty
  <2>5. dirty' \in [Sessions -> BOOLEAN]
    BY <1>1, <2>1 DEF MarkDirty
  <2>6. ProjectionTrue'
    BY <2>4 DEF ProjectionTrue, EventsOf
  <2> QED BY <1>1, <2>1, <2>2, <2>3, <2>5, <2>6 DEF DataTrue, ActivityTypes
<1>6. CASE Searching \/ UNCHANGED vars
  <2>1. UNCHANGED <<task, owner, events, searchTables>>
    BY <1>6 DEF Searching, TabNext, Look, Answer, NextPage, PreviousPage, ReloadPage, Restart,
                vars, storeVars, tables, searchVars
  <2> QED BY <1>1, <2>1 DEF searchTables, SearchedMoves, DataTrue, ActivityTypes, ProjectionTrue, EventsOf
<1> QED BY <1>3, <1>4, <1>5, <1>6 DEF Next

\* A cursor is refused once what it was made from has changed.
LEMMA CursorsStay ==
  ASSUME DataTrue, DataTrue', SearchedMoves
  PROVE  TrueCursors \subseteq TrueCursors'
<1>1. generation \in Nat /\ generation' \in Nat
  BY DEF DataTrue
<1>2. CASE generation' > generation
  <2>1. Found \ After(None) = {} /\ (Found \ After(None))' = {}
    BY DEF Found, After
  <2>2. ASSUME NEW cursor, NEW n, <<cursor, n>> \in TrueCursors PROVE <<cursor, n>> \in TrueCursors'
    <3>1. /\ <<cursor, n>> \in (Cursors \cup {None}) \X Nat
          /\ cursor # None => cursor.generation <= generation
          /\ Fresh(cursor) => Cardinality(Found \ After(cursor)) = n * PageSize
      BY <2>2 DEF TrueCursors
    <3>2. CASE cursor = None
      <4>1. Cardinality((Found \ After(None))') = n * PageSize
        BY <2>1, <3>1, <3>2 DEF Fresh
      <4> QED BY <3>1, <3>2, <4>1 DEF TrueCursors
    <3>3. CASE cursor # None
      <4>1. cursor.generation \in Nat
        BY <3>1, <3>3 DEF Cursors
      <4>2. cursor.generation < generation'
        BY <1>1, <1>2, <3>1, <3>3, <4>1
      <4> QED BY <1>1, <3>1, <3>3, <4>1, <4>2 DEF TrueCursors, Fresh
    <3> QED BY <3>2, <3>3
  <2>3. \A answered \in TrueCursors : answered = <<answered[1], answered[2]>>
    BY DEF TrueCursors
  <2> QED BY <2>2, <2>3
<1>3. CASE generation' = generation /\ UNCHANGED <<task, owner, events, activity>>
  <2>1. Documents' = Documents /\ \A d : ActivityOf(d)' = ActivityOf(d)
    BY <1>3 DEF Documents, LinkedTo, ActivityOf
  <2>2. Found' = Found
    <3>1. \A d : TrueMatches(d)' <=> TrueMatches(d)
      BY <1>3 DEF TrueMatches, TitleHit, TaskOf, EventsOf
    <3> QED BY <2>1, <3>1 DEF Found
  <2>3. ASSUME NEW cursor, NEW n, <<cursor, n>> \in TrueCursors PROVE <<cursor, n>> \in TrueCursors'
    <3>1. /\ <<cursor, n>> \in (Cursors \cup {None}) \X Nat
          /\ cursor # None => cursor.generation <= generation
          /\ Fresh(cursor) => Cardinality(Found \ After(cursor)) = n * PageSize
      BY <2>3 DEF TrueCursors
    <3>2. After(cursor)' = After(cursor)
      BY <2>1 DEF After
    <3>3. Fresh(cursor)' <=> Fresh(cursor)
      BY <1>3 DEF Fresh
    <3>4. Cardinality(Found \ After(cursor))' = Cardinality(Found \ After(cursor))
      BY <2>2, <3>2
    <3> QED BY <1>3, <3>1, <3>3, <3>4 DEF TrueCursors
  <2>4. \A answered \in TrueCursors : answered = <<answered[1], answered[2]>>
    BY DEF TrueCursors
  <2> QED BY <2>3, <2>4
<1> QED BY <1>2, <1>3 DEF SearchedMoves

-----------------------------------------------------------------------------
(* The steps of the search page                                               *)

\* Nothing is answered before the first page.
LEMMA NoneAnswered == <<None, 0>> \in TrueCursors /\ <<None, 0>> \in TrueCursors'
<1>1. Found \ After(None) = {} /\ (Found \ After(None))' = {}
  BY DEF Found, After
<1>2. Cardinality({}) = 0 /\ 0 * PageSize = 0
  BY FS_EmptySet, SearchConstants
<1>3. /\ Cardinality(Found \ After(None)) = 0 * PageSize
      /\ Cardinality((Found \ After(None))') = 0 * PageSize
  BY <1>1, <1>2
<1>4. <<None, 0>> \in (Cursors \cup {None}) \X Nat
  OBVIOUS
<1>5. <<None, 0>> \in TrueCursors
  BY <1>3, <1>4 DEF TrueCursors
<1>6. <<None, 0>> \in TrueCursors'
  BY <1>3, <1>4 DEF TrueCursors
<1> QED BY <1>5, <1>6

\* A page's cursor has the pages before it answered, whichever way one came.
LEMMA TabKept ==
  ASSUME SearchInv, TrueCursors \subseteq TrueCursors', [Next]_vars
  PROVE  TabTrue'
<1>1. /\ tab \in SearchTabs /\ tab.index \in 1..Len(tab.cursors)
      /\ \A n \in 1..Len(tab.cursors) : <<tab.cursors[n], n - 1>> \in TrueCursors'
      /\ tab.shown # None /\ tab.shown.next # None => <<tab.shown.next, tab.index>> \in TrueCursors'
  BY DEF SearchInv, TabTrue
<1>2. /\ tab.cursors \in Seq(Cursors \cup {None}) /\ tab.index \in Nat \ {0}
      /\ tab.shown \in SearchAnswers \cup {None} /\ tab.asked \in BOOLEAN
  BY <1>1 DEF SearchTabs
<1>3. CASE UNCHANGED tab
  BY <1>1, <1>3 DEF TabTrue
<1>4. tab = [cursors |-> tab.cursors, index |-> tab.index, shown |-> tab.shown, asked |-> tab.asked]
  BY <1>1 DEF SearchTabs
<1>5. CASE Look \/ ReloadPage
  <2>1. tab' = [tab EXCEPT !.asked = TRUE]
    BY <1>5 DEF Look, ReloadPage, Ask
  <2>2. tab' = [cursors |-> tab.cursors, index |-> tab.index, shown |-> tab.shown, asked |-> TRUE]
    BY <1>4, <2>1
  <2> QED BY <1>1, <1>2, <2>2 DEF TabTrue, SearchTabs
<1>6. CASE PreviousPage
  <2>1. tab' = [[tab EXCEPT !.index = tab.index - 1, !.shown = None] EXCEPT !.asked = TRUE] /\ tab.index > 1
    BY <1>6 DEF PreviousPage, Ask
  <2>2. tab' = [cursors |-> tab.cursors, index |-> tab.index - 1, shown |-> None, asked |-> TRUE]
    BY <1>4, <2>1
  <2>3. tab.index - 1 \in Nat \ {0} /\ tab.index - 1 \in 1..Len(tab.cursors)
    BY <1>1, <1>2, <2>1
  <2>4. tab' \in SearchTabs /\ tab'.shown = None /\ tab'.index = tab.index - 1 /\ tab'.cursors = tab.cursors
    BY <1>2, <2>2, <2>3 DEF SearchTabs
  <2> QED BY <1>1, <2>3, <2>4 DEF TabTrue
<1>7. CASE Restart
  <2>1. tab' = [cursors |-> <<None>>, index |-> 1, shown |-> None, asked |-> TRUE]
    BY <1>7 DEF Restart, Ask, FirstPage
  <2> QED BY <2>1, NoneAnswered DEF TabTrue, SearchTabs
<1>8. CASE NextPage
  <2> DEFINE kept == SubSeq(tab.cursors, 1, tab.index)
             next == tab.shown.next
  <2>1. /\ tab' = [[tab EXCEPT !.cursors = Append(kept, next), !.index = tab.index + 1, !.shown = None]
                     EXCEPT !.asked = TRUE]
        /\ tab.shown # None /\ next # None
    BY <1>8 DEF NextPage, Ask, Kept
  <2>2. tab' = [cursors |-> Append(kept, next), index |-> tab.index + 1, shown |-> None, asked |-> TRUE]
    BY <1>4, <2>1
  <2>3. next \in Cursors /\ <<next, tab.index>> \in TrueCursors'
    BY <1>1, <1>2, <2>1 DEF SearchAnswers
  <2>4. /\ kept \in Seq(Cursors \cup {None}) /\ Len(kept) = tab.index
        /\ \A n \in 1..tab.index : kept[n] = tab.cursors[n]
    BY <1>1, <1>2
  <2> HIDE DEF kept, next
  <2>5. /\ Append(kept, next) \in Seq(Cursors \cup {None}) /\ Len(Append(kept, next)) = tab.index + 1
        /\ \A n \in 1..tab.index : Append(kept, next)[n] = tab.cursors[n]
        /\ Append(kept, next)[tab.index + 1] = next
    BY <1>2, <2>3, <2>4
  <2> DEFINE cursors == Append(kept, next)
  <2> HIDE DEF cursors
  <2>6. \A n \in 1..tab.index + 1 : <<cursors[n], n - 1>> \in TrueCursors'
    <3>1. \A n \in 1..tab.index : <<cursors[n], n - 1>> \in TrueCursors'
      BY <1>1, <1>2, <2>5 DEF cursors
    <3>4. \A n \in 1..tab.index + 1 : n \in 1..tab.index \/ n = tab.index + 1
      BY <1>2
    <3> SUFFICES ASSUME NEW n \in 1..tab.index + 1 PROVE <<cursors[n], n - 1>> \in TrueCursors'
      OBVIOUS
    <3>5. CASE n \in 1..tab.index
      BY <3>1, <3>5
    <3>6. CASE n = tab.index + 1
      <4>1. cursors[n] = next /\ n - 1 = tab.index
        BY <1>2, <2>5, <3>6 DEF cursors
      <4> QED BY <2>3, <4>1
    <3> QED BY <3>4, <3>5, <3>6
  <2>7. cursors \in Seq(Cursors \cup {None}) /\ Len(cursors) = tab.index + 1
    BY <2>5 DEF cursors
  <2>8. tab'.cursors = cursors /\ tab'.index = tab.index + 1 /\ tab'.shown = None /\ tab' \in SearchTabs
    BY <1>2, <2>2, <2>7 DEF cursors, SearchTabs
  <2> QED BY <1>2, <2>6, <2>7, <2>8 DEF TabTrue
<1>9. CASE Answer
  <2> DEFINE cursor == tab.cursors[tab.index]
  <2>1. tab' = [tab EXCEPT !.asked = FALSE, !.shown = IF Fresh(cursor) THEN Search(cursor)
                              ELSE [items |-> <<>>, refused |-> TRUE, next |-> None]]
    BY <1>9 DEF Answer
  <2>2. <<cursor, tab.index - 1>> \in TrueCursors
    BY <1>1 DEF SearchInv, TabTrue
  <2> HIDE DEF cursor
  <2>3. CASE Fresh(cursor)
    <3>1. tab' = [cursors |-> tab.cursors, index |-> tab.index, shown |-> Search(cursor), asked |-> FALSE]
      BY <1>4, <2>1, <2>3
    <3>2. /\ Search(cursor) \in SearchAnswers
          /\ Search(cursor).next # None => <<Search(cursor).next, tab.index>> \in TrueCursors'
      BY <1>2, <2>2, <2>3, NextPageAnswered DEF SearchInv
    <3> QED BY <1>1, <1>2, <3>1, <3>2 DEF TabTrue, SearchTabs
  <2>4. CASE ~Fresh(cursor)
    <3>1. tab' = [cursors |-> tab.cursors, index |-> tab.index, asked |-> FALSE,
                  shown |-> [items |-> <<>>, refused |-> TRUE, next |-> None]]
      BY <1>4, <2>1, <2>4
    <3>2. [items |-> <<>>, refused |-> TRUE, next |-> None] \in SearchAnswers
      BY DEF SearchAnswers
    <3> QED BY <1>1, <1>2, <3>1, <3>2 DEF TabTrue, SearchTabs
  <2> QED BY <2>3, <2>4
<1>10. Editing \/ Deciding \/ Index \/ Import \/ Clear \/ UNCHANGED vars => UNCHANGED tab
  BY DEF Editing, Deciding, Index, Import, Clear, vars, searchVars
<1> QED BY <1>3, <1>5, <1>6, <1>7, <1>8, <1>9, <1>10 DEF Next, Searching, TabNext

-----------------------------------------------------------------------------
(* The pages of a search                                                      *)

\* The invariant holds when the page is opened.
LEMMA SearchInitHolds == Init => SearchInv
<1> SUFFICES ASSUME Init PROVE SearchInv
  OBVIOUS
<1>1. DataTrue
  BY SearchConstants DEF Init, SearchInit, DataTrue, ActivityTypes, ProjectionTrue
<1>2. tab = [cursors |-> <<None>>, index |-> 1, shown |-> None, asked |-> FALSE]
  BY DEF Init, SearchInit, FirstPage
<1>3. TabTrue
  BY <1>2, NoneAnswered DEF TabTrue, SearchTabs
<1> QED BY <1>1, <1>3 DEF SearchInv

\* The inductive invariant of the search: a projection that counts as clean is
\* true, and every cursor that is still accepted has just the pages before it
\* answered.
THEOREM SearchInvariance == Spec => []SearchInv
<1>1. WorkbenchInv' => events' \subseteq Events
  BY DEF WorkbenchInv, StoreTypes
<1>2. SearchInv /\ events' \subseteq Events /\ [Next]_vars => SearchInv'
  <2> SUFFICES ASSUME SearchInv, events' \subseteq Events, [Next]_vars PROVE SearchInv'
    OBVIOUS
  <2>1. DataTrue' /\ SearchedMoves
    BY DataKept DEF SearchInv
  <2>2. TabTrue'
    BY <2>1, CursorsStay, TabKept DEF SearchInv
  <2> QED BY <2>1, <2>2 DEF SearchInv
<1> QED BY <1>1, <1>2, SearchInitHolds, Invariance, PTL DEF Spec

\* Whatever is indexed, imported, saved or linked between two pages, an answer
\* is the slice of the result its place calls for, or a refusal: walking
\* through a search neither skips nor repeats a document.
THEOREM SlicesArePages == Spec => PagesAreSlices
<1> DEFINE Slices == tab.asked /\ ~tab'.asked /\ ~tab'.shown.refused
                       => tab'.shown.items = TrueSlice(tab.index)
<1>1. SearchInv /\ [Next]_vars => Slices
  <2> SUFFICES ASSUME SearchInv, [Next]_vars, tab.asked, ~tab'.asked, ~tab'.shown.refused
               PROVE  tab'.shown.items = TrueSlice(tab.index)
    OBVIOUS
  <2> DEFINE cursor == tab.cursors[tab.index]
  <2>1. tab \in SearchTabs /\ tab.index \in Nat \ {0} /\ <<cursor, tab.index - 1>> \in TrueCursors
    BY DEF SearchInv, TabTrue, SearchTabs
  <2>2. Answer
    <3>1. tab' # tab
      OBVIOUS
    <3>2. Look \/ Answer \/ NextPage \/ PreviousPage \/ ReloadPage \/ Restart
      BY <3>1 DEF Next, Editing, Deciding, Index, Import, Clear, vars, searchVars, Searching, TabNext
    <3> QED BY <3>2 DEF Look, NextPage, PreviousPage, ReloadPage, Restart
  <2>3. tab'.shown = IF Fresh(cursor) THEN Search(cursor)
                     ELSE [items |-> <<>>, refused |-> TRUE, next |-> None]
    BY <2>1, <2>2 DEF Answer, SearchTabs
  <2> HIDE DEF cursor
  <2>4. Fresh(cursor) /\ tab'.shown = Search(cursor)
    BY <2>3
  <2> QED BY <2>1, <2>4, NextPageAnswered DEF SearchInv
<1>2. Slices => [Slices]_tab
  OBVIOUS
<1> QED BY <1>1, <1>2, SearchInvariance, PTL DEF Spec, PagesAreSlices

-----------------------------------------------------------------------------
(* Receipts                                                                  *)

\* A caller that waits has asked for a request it may make, and holds the time
\* it asked.
CallsOK ==
  /\ DOMAIN handing = Callers
  /\ \A c \in Callers :
       /\ handing[c].state = "waiting" =>
            handing[c].request \in Requests /\ InputAllowed(handing[c].request) /\ handing[c].at \in Moments
       /\ handing[c].state = "answered" => handing[c].receipt = handing[c].request

\* Of the rows only the types are needed: a reading trusts none of them.
Inv == ReceiptsTypes /\ CallsOK

\* A request is a record of known fields.
LEMMA RequestFields ==
  ASSUME ReceiptsAssumption, NEW q \in Requests
  PROVE  /\ q.handoff \in Handoffs /\ q.manifest \in Manifests /\ q.target \in Targets
         /\ q.stage \in Stages /\ q.expires \in Moments /\ q.manifest # NoValue
<1>1. /\ q.handoff \in Handoffs /\ q.manifest \in Manifests /\ q.target \in Targets
      /\ q.stage \in InputStages /\ q.expires \in Expiries
  BY DEF Requests
<1> QED BY <1>1 DEF ReceiptsAssumption

\* Moments are numbers, and so are the places of stages in their order.
LEMMA Numbers ==
  ReceiptsAssumption => /\ Moments \subseteq Nat /\ NoValue \notin Moments
                        /\ Stages = {"prepared", "received", "reported", "verified"}
                        /\ \A stage \in Stages : StageOrder[stage] \in Nat
  BY DEF ReceiptsAssumption, Moments, Stages, StageOrder

\* The members of a sequence of members of S are members of S.
LEMMA Element ==
  ASSUME NEW S, NEW s \in Seq(S), NEW i \in DOMAIN s
  PROVE  s[i] \in S
  OBVIOUS

-----------------------------------------------------------------------------
(* The invariant                                                             *)

\* The invariant holds with legacy rows of any kind.
LEMMA InitInv == ReceiptsAssumption /\ ReceiptsInit => Inv
<1> SUFFICES ASSUME ReceiptsAssumption, ReceiptsInit PROVE Inv
  OBVIOUS
<1>1. clock \in Moments /\ attestations \in Seq([receipt : Requests, stage : AttestedStages, at : Moments])
  BY DEF ReceiptsInit, Moments, ReceiptsAssumption
<1>2. CallsOK
  BY DEF ReceiptsInit, CallsOK, NoCall
<1>3. CASE manifest = [h \in Handoffs |-> NoValue] /\ receipts = << >>
  BY <1>1, <1>2, <1>3, FS_EmptySet DEF Inv, ReceiptsTypes
<1>4. ASSUME NEW q \in Requests, NEW stage \in {"received", "verified"},
             manifest = [h \in Handoffs |-> IF h = q.handoff THEN q.manifest ELSE NoValue],
             receipts = Legacy(q, stage)
      PROVE  Inv
  <2>1. DOMAIN receipts = {q} /\ IsFiniteSet({q})
    BY <1>4, FS_Singleton DEF Legacy
  <2>2. receipts[q] \in Rows /\ receipts[q].status = "confirmed"
    BY <1>4 DEF Legacy, Rows, Stages, StageOrder, Moments, ReceiptsAssumption
  <2>3. manifest \in [Handoffs -> Manifests \cup {NoValue}]
    BY <1>4, RequestFields
  <2> QED BY <1>1, <1>2, <2>1, <2>2, <2>3 DEF Inv, ReceiptsTypes
<1> QED BY <1>3, <1>4 DEF ReceiptsInit

\* Every step keeps the invariant.
LEMMA NextInv == ReceiptsAssumption /\ Inv /\ [ReceiptsNext]_receiptVars => Inv'
<1> SUFFICES ASSUME ReceiptsAssumption, Inv, [ReceiptsNext]_receiptVars PROVE Inv'
  OBVIOUS
<1> USE DEF Inv
<1>1. CASE UNCHANGED receiptVars
  BY <1>1 DEF receiptVars, ReceiptsTypes, CallsOK
<1>2. ASSUME NEW t \in Moments, SetClock(t) PROVE Inv'
  BY <1>2 DEF SetClock, ReceiptsTypes, CallsOK
<1>3. ASSUME NEW h \in Handoffs, NEW m \in Manifests, SaveManifest(h, m) PROVE Inv'
  BY <1>3 DEF SaveManifest, ReceiptsTypes, CallsOK
<1>4. ASSUME NEW c \in Callers, NEW q \in Requests, AskReceipt(c, q) PROVE Inv'
  BY <1>4 DEF AskReceipt, ReceiptsTypes, CallsOK
<1>5. ASSUME NEW c \in Callers, InsertReceipt(c) PROVE Inv'
  <2> DEFINE q == handing[c].request
             row == [stage |-> q.stage, status |-> IF q.expires <= clock THEN "expired" ELSE "pending",
                     created |-> handing[c].at, confirmed |-> NoValue, evidence |-> {}]
  <2>1. q \in Requests /\ handing[c].at \in Moments
    BY <1>5 DEF InsertReceipt, CallsOK
  <2>2. row \in Rows /\ row.stage # "verified"
    BY <1>5, <2>1, RequestFields DEF InsertReceipt, CallsOK, InputAllowed, Rows
  <2>3. DOMAIN receipts' = DOMAIN receipts \cup {q} /\ IsFiniteSet(DOMAIN receipts \cup {q})
    BY <1>5, FS_AddElement DEF InsertReceipt, ReceiptsTypes
  <2>4. \A r \in DOMAIN receipts' : receipts'[r] = IF r \in DOMAIN receipts THEN receipts[r] ELSE row
    BY <1>5 DEF InsertReceipt
  <2>5. ReceiptsTypes'
    BY <1>5, <2>1, <2>2, <2>3, <2>4 DEF InsertReceipt, ReceiptsTypes
  <2>6. CallsOK'
    BY <1>5 DEF InsertReceipt, Give, CallsOK
  <2> QED BY <2>5, <2>6
<1>6. ASSUME NEW c \in Callers, RepeatReceipt(c) PROVE Inv'
  BY <1>6 DEF RepeatReceipt, Give, SameRequest, ReceiptsTypes, CallsOK
<1>7. ASSUME NEW c \in Callers, RefuseReceipt(c) PROVE Inv'
  BY <1>7 DEF RefuseReceipt, NoCall, ReceiptsTypes, CallsOK
<1>8. ASSUME NEW q \in DOMAIN receipts, NEW stage \in AttestedStages, Attest(q, stage) PROVE Inv'
  BY <1>8 DEF Attest, ReceiptsTypes, CallsOK
<1>9. ASSUME NEW q \in DOMAIN receipts, NEW stage \in AttestedStages,
             NEW ids \in SUBSET DOMAIN attestations, Confirm(q, stage, ids)
      PROVE  Inv'
  <2> DEFINE row == [receipts[q] EXCEPT !.stage = stage, !.status = "confirmed",
                                        !.confirmed = clock, !.evidence = ids]
  <2>1. receipts' = [receipts EXCEPT ![q] = row]
    BY <1>9 DEF Confirm
  <2>2. ids \subseteq Nat
    BY DEF ReceiptsTypes
  <2>3. row \in Rows /\ row.status = "confirmed"
    BY <2>2, Numbers DEF ReceiptsTypes, Rows, AttestedStages
  <2> QED BY <1>9, <2>1, <2>3 DEF Confirm, ReceiptsTypes, CallsOK
<1> QED BY <1>1, <1>2, <1>3, <1>4, <1>5, <1>6, <1>7, <1>8, <1>9 DEF ReceiptsNext

\* Rows, calls and attestations keep their types.
THEOREM ReceiptsTypeCorrect ==
  ASSUME ReceiptsAssumption PROVE ReceiptsSpec => []ReceiptsTypes
<1>1. ReceiptsInit => Inv
  BY InitInv
<1>2. Inv /\ [ReceiptsNext]_receiptVars => Inv'
  BY NextInv
<1>3. Inv => ReceiptsTypes
  BY DEF Inv
<1> QED BY <1>1, <1>2, <1>3, PTL DEF ReceiptsSpec

-----------------------------------------------------------------------------
(* What is shown and what is answered                                        *)

\* What a reading shows follows from whether the confirmation of its row holds.
LEMMA ReadingCases ==
  ASSUME ReceiptsAssumption, ReceiptsTypes, NEW q \in DOMAIN receipts
  PROVE  /\ ConfirmationHolds(q) /\ receipts[q].status = "confirmed"
              => Reading(q) = [stage |-> receipts[q].stage, status |-> "confirmed"]
         /\ ~ConfirmationHolds(q) \/ receipts[q].status # "confirmed"
              => Reading(q).status # "confirmed" /\ Reading(q).stage # "verified"
         /\ Reading(q).stage = IF receipts[q].stage = "verified" /\ ~ConfirmationHolds(q)
                               THEN "reported" ELSE receipts[q].stage
  BY DEF ReceiptsTypes, Rows, Reading

\* control-plane-store.ts refuses a confirmation without stored attestations;
\* the attestations that carry a reading were made before the receipt expired.
LEMMA AttestedReadings == ReceiptsAssumption /\ ReceiptsTypes => VerifiedMeansAttested
<1> SUFFICES ASSUME ReceiptsAssumption, ReceiptsTypes, NEW q \in DOMAIN receipts,
                    Reading(q).status = "confirmed" \/ Reading(q).stage = "verified"
             PROVE  \E i \in DOMAIN attestations :
                      attestations[i].receipt = q /\ attestations[i].stage = Reading(q).stage
                      /\ attestations[i].at < q.expires
  BY DEF VerifiedMeansAttested
<1>1. ConfirmationHolds(q) /\ Reading(q).stage = receipts[q].stage
  BY ReadingCases
<1>2. PICK i \in receipts[q].evidence : TRUE
  BY <1>1 DEF ConfirmationHolds, Attested
<1>3. /\ i \in DOMAIN attestations /\ attestations[i].receipt = q /\ attestations[i].stage = receipts[q].stage
      /\ attestations[i].at <= receipts[q].confirmed /\ receipts[q].confirmed < q.expires
  BY <1>1, <1>2 DEF ConfirmationHolds, Attested, AttestationFor
<1>4. attestations[i].at \in Nat /\ receipts[q].confirmed \in Nat /\ q.expires \in Nat
  <2>1. attestations[i].at \in Moments
    <3>1. attestations \in Seq([receipt : Requests, stage : AttestedStages, at : Moments])
      BY DEF ReceiptsTypes
    <3>2. attestations[i] \in [receipt : Requests, stage : AttestedStages, at : Moments]
      BY <1>3, <3>1, Element
    <3> QED BY <3>2
  <2>2. receipts[q].confirmed \in Moments
    BY <1>1 DEF ReceiptsTypes, Rows, ConfirmationHolds
  <2>3. q.expires \in Moments
    BY RequestFields DEF ReceiptsTypes
  <2> QED BY <2>1, <2>2, <2>3, Numbers
<1> QED BY <1>1, <1>3, <1>4

\* No sequence of receipts, attestations, legacy rows and clock changes yields a
\* confirmed or verified reading that nobody attested to in time, and a caller
\* is given the receipt of its own request.
THEOREM Trusted ==
  ASSUME ReceiptsAssumption PROVE ReceiptsSpec => []ReceiptsTrusted
<1>1. ReceiptsInit => Inv
  BY InitInv
<1>2. Inv /\ [ReceiptsNext]_receiptVars => Inv'
  BY NextInv
<1>3. Inv => ReceiptsTrusted
  BY AttestedReadings DEF Inv, CallsOK, ReceiptsTrusted, AnswerFitsRequest
<1> QED BY <1>1, <1>2, <1>3, PTL DEF ReceiptsSpec

-----------------------------------------------------------------------------
(* What is shown only advances                                               *)

Advances(q) ==
  /\ ReadAsConfirmed(q) => ReadAsConfirmed(q)'
  /\ StageOrder[Reading(q).stage] <= StageOrder[Reading(q).stage']

\* A step that leaves a row as it is, and takes neither its manifest nor one of
\* the attestations away, lets what is shown of it stand or advance.
LEMMA RowsAdvance ==
  ASSUME ReceiptsAssumption, ReceiptsTypes, ReceiptsTypes', NEW q \in DOMAIN receipts,
         q \in DOMAIN receipts', receipts'[q] = receipts[q],
         manifest[q.handoff] = q.manifest => manifest'[q.handoff] = q.manifest,
         \A i \in DOMAIN attestations : i \in DOMAIN attestations' /\ attestations'[i] = attestations[i]
  PROVE  Advances(q)
<1>1. ConfirmationHolds(q) => ConfirmationHolds(q)'
  BY DEF ConfirmationHolds, Attested, AttestationFor
<1>2. receipts[q].stage \in Stages /\ StageOrder["reported"] <= StageOrder["verified"]
  BY DEF ReceiptsTypes, Rows, StageOrder
<1>3. ReadAsConfirmed(q) => ReadAsConfirmed(q)'
  BY <1>1, ReadingCases DEF ReadAsConfirmed, ReceiptsTypes, Rows, Reading
<1>4. StageOrder[Reading(q).stage] <= StageOrder[Reading(q).stage']
  BY <1>1, <1>2, ReadingCases, Numbers DEF ReceiptsTypes, Rows, Reading
<1> QED BY <1>3, <1>4 DEF Advances

\* A confirmation is accepted only forward of what is shown, with attestations
\* that hold at that moment.
LEMMA ConfirmAdvances ==
  ASSUME ReceiptsAssumption, ReceiptsTypes, ReceiptsTypes', NEW q \in DOMAIN receipts, NEW stage \in AttestedStages,
         NEW ids \in SUBSET DOMAIN attestations, Confirm(q, stage, ids)
  PROVE  Advances(q)
<1>1. /\ DOMAIN receipts' = DOMAIN receipts
      /\ receipts'[q].stage = stage /\ receipts'[q].status = "confirmed"
      /\ receipts'[q].confirmed = clock /\ receipts'[q].evidence = ids
      /\ receipts'[q].created = receipts[q].created
  BY DEF Confirm, ReceiptsTypes, Rows
<1>2. Attested(q, stage, ids, clock)'
  BY <1>1 DEF Confirm, Attested, AttestationFor
<1>3. ConfirmationHolds(q)'
  BY <1>1, <1>2, Numbers DEF Confirm, ConfirmationHolds, ReceiptsTypes, Attested, AttestationFor
<1>4. Reading(q)' = [stage |-> stage, status |-> "confirmed"]
  BY <1>1, <1>3 DEF Reading
<1>5. StageOrder[Reading(q).stage] <= StageOrder[stage]
  <2>1. Reading(q).stage \in Stages
    BY Numbers, ReadingCases DEF ReceiptsTypes, Rows
  <2> QED BY <2>1, Numbers DEF Confirm, Forward, AttestedStages
<1> QED BY <1>1, <1>4, <1>5 DEF Advances, ReadAsConfirmed

\* A receipt once read as confirmed stays confirmed, after its expiry and
\* whatever the clock is set to, and the stage of no receipt goes back.
THEOREM OnlyAdvance ==
  ASSUME ReceiptsAssumption PROVE ReceiptsSpec => ReadingsOnlyAdvance
<1>1. ReceiptsInit => Inv
  BY InitInv
<1>2. Inv /\ [ReceiptsNext]_receiptVars => Inv'
  BY NextInv
<1>3. Inv /\ Inv' /\ [ReceiptsNext]_receiptVars => [\A q \in DOMAIN receipts : Advances(q)]_receiptVars
  <2> SUFFICES ASSUME Inv, Inv', ReceiptsNext, NEW q \in DOMAIN receipts PROVE Advances(q)
    OBVIOUS
  <2> USE DEF Inv
  <2>1. ASSUME NEW t \in Moments, SetClock(t) PROVE Advances(q)
    BY <2>1, RowsAdvance DEF SetClock
  <2>2. ASSUME NEW h \in Handoffs, NEW m \in Manifests, SaveManifest(h, m) PROVE Advances(q)
    <3>1. q.handoff \in Handoffs /\ q.manifest # NoValue
      BY RequestFields DEF ReceiptsTypes
    <3>2. manifest[q.handoff] = q.manifest => manifest'[q.handoff] = q.manifest
      BY <2>2, <3>1 DEF SaveManifest, NotYetSaved, ReceiptsTypes
    <3> QED BY <2>2, <3>2, RowsAdvance DEF SaveManifest
  <2>3. ASSUME NEW c \in Callers, NEW p \in Requests, AskReceipt(c, p) PROVE Advances(q)
    BY <2>3, RowsAdvance DEF AskReceipt
  <2>4. ASSUME NEW c \in Callers, InsertReceipt(c) PROVE Advances(q)
    <3>1. q \in DOMAIN receipts' /\ receipts'[q] = receipts[q]
      BY <2>4 DEF InsertReceipt
    <3> QED BY <2>4, <3>1, RowsAdvance DEF InsertReceipt
  <2>5. ASSUME NEW c \in Callers, RepeatReceipt(c) \/ RefuseReceipt(c) PROVE Advances(q)
    BY <2>5, RowsAdvance DEF RepeatReceipt, RefuseReceipt
  <2>6. ASSUME NEW p \in DOMAIN receipts, NEW stage \in AttestedStages, Attest(p, stage)
        PROVE  Advances(q)
    <3>1. \A i \in DOMAIN attestations : i \in DOMAIN attestations' /\ attestations'[i] = attestations[i]
      BY <2>6 DEF Attest, ReceiptsTypes
    <3> QED BY <2>6, <3>1, RowsAdvance DEF Attest
  <2>7. ASSUME NEW p \in DOMAIN receipts, NEW stage \in AttestedStages,
               NEW ids \in SUBSET DOMAIN attestations, Confirm(p, stage, ids)
        PROVE  Advances(q)
    <3>1. CASE p = q
      BY <2>7, <3>1, ConfirmAdvances
    <3>2. CASE p # q
      BY <2>7, <3>2, RowsAdvance DEF Confirm
    <3> QED BY <3>1, <3>2
  <2> QED BY <2>1, <2>2, <2>3, <2>4, <2>5, <2>6, <2>7 DEF ReceiptsNext
<1>4. ReadingsOnlyAdvance <=> [][\A q \in DOMAIN receipts : Advances(q)]_receiptVars
  BY PTL DEF ReadingsOnlyAdvance, Advances
<1> QED BY <1>1, <1>2, <1>3, <1>4, PTL DEF ReceiptsSpec
=============================================================================
