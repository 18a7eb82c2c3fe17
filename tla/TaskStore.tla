------------------------------ MODULE TaskStore ------------------------------
(* Tasks, their revisions and their sessions (tasks/service.ts and           *)
(* storage/sqlite-store.ts): every change of a task is a save against the    *)
(* revision its author read.  A service call reads the task, for some calls  *)
(* its sessions, and then saves in one transaction; several processes share  *)
(* the database, so other calls come between these steps.  Meanwhile the     *)
(* index adds, replaces and deletes events.                                  *)
(* The value of a text field is the revision that wrote it, so that a value  *)
(* that comes back from the past can be told from one that was kept.         *)
EXTENDS FiniteSets, Integers, Sequences, TLC

CONSTANTS
  Tasks, Sessions, Events, Projects,
  Clients,    \* browser tabs and other callers of the service
  Fields,     \* the text fields of a task
  projectOf,  \* the project a task is created in
  sessionOf,  \* the session an event belongs to
  BoundAtFirst, \* the projects the sessions may be bound to when they are found
  Budgets,    \* bound: how many operations of each kind a behaviour takes
  None        \* no task, no project, no form, no call

Lifecycles == {"active", "completed"}
Row == [revision : Nat, body : [Fields -> Nat], lifecycle : Lifecycles]

ASSUME StoreAssumption ==
  /\ projectOf \in [Tasks -> Projects]
  /\ sessionOf \in [Events -> Sessions]
  /\ BoundAtFirst \subseteq [Sessions -> Projects \cup {None}]
  /\ None \notin Tasks \cup Projects \cup Events \cup Row
  /\ \A b \in Budgets : \A kind \in DOMAIN b : b[kind] \in Nat

VARIABLES
  task,      \* tasks: the current row of a task, or None
  revisions, \* task_revisions
  owner,     \* task_sessions: the task of a session, or None
  bound,     \* sessions.project_id
  events,    \* events: the ids stored now
  baseline,  \* completed_task_events of a task
  form,      \* what a client has on its screen: a task and a revision
  call,      \* a client's service call on its way to the transaction
  left       \* what is left of the budget

tables == <<task, revisions, owner, bound, events, baseline>>
storeVars == <<tables, form, call, left>>

Spend(kind) == left[kind] > 0 /\ left' = [left EXCEPT ![kind] = @ - 1]

StoreInit ==
  /\ task = [t \in Tasks |-> None]
  /\ revisions = {}
  /\ owner = [s \in Sessions |-> None]
  /\ bound \in BoundAtFirst
  /\ events = {}
  /\ baseline = [t \in Tasks |-> {}]
  /\ form = [c \in Clients |-> None]
  /\ call = [c \in Clients |-> None]
  /\ left \in Budgets

LinkedTo(t, links) == {s \in Sessions : links[s] = t}
Evidence(t) == {e \in events : owner[sessionOf[e]] = t}
Revision(t) == IF task[t] = None THEN 0 ELSE task[t].revision

-----------------------------------------------------------------------------
(* The transaction of saveTask                                               *)

Keep == None  \* sessionIds omitted: the links stay as they are

LinksAfter(t, links) ==
  IF links = Keep THEN owner
  ELSE [s \in Sessions |-> IF s \in links THEN t ELSE IF owner[s] = t THEN None ELSE owner[s]]

\* A linked session is bound to the task's project (bindSession).
BoundAfter(t, links) ==
  IF links = Keep THEN bound
  ELSE [s \in Sessions |-> IF s \in links THEN projectOf[t] ELSE bound[s]]

MayLink(t, links) ==
  links # Keep => \A s \in links :
                    owner[s] \in {None, t} /\ bound[s] \in {None, projectOf[t]}

\* Weakened form: the transaction trusts the check the service made before.
Unchecked(t, expected) == task[t] # None \/ expected = 0

UpToDate(t, expected) == Revision(t) = expected

\* Weakened form: every save of a completed task takes a new baseline.
BaselineEachSave(t, row, links) ==
  IF row.lifecycle = "completed"
  THEN {e \in events : LinksAfter(t, links)[sessionOf[e]] = t} ELSE {}

\* Taken when the task becomes completed, dropped when it is open again.
BaselineAfter(t, row, links) ==
  IF row.lifecycle # "completed" THEN {}
  ELSE IF task[t] # None /\ task[t].lifecycle = "completed" THEN baseline[t]
  ELSE {e \in events : LinksAfter(t, links)[sessionOf[e]] = t}

\* Weakened form: the links are recorded as they were before the save.
RecordedBefore(t, links) == LinkedTo(t, owner)

Recorded(t, links) == LinkedTo(t, LinksAfter(t, links))

SaveTask(t, row, expected, links) ==
  /\ row.revision = expected + 1
  /\ UpToDate(t, expected)
  /\ MayLink(t, links)
  /\ task' = [task EXCEPT ![t] = row]
  /\ revisions' = revisions \cup
       {[task |-> t, row |-> row, sessions |-> Recorded(t, links)]}
  /\ owner' = LinksAfter(t, links)
  /\ bound' = BoundAfter(t, links)
  /\ baseline' = [baseline EXCEPT ![t] = BaselineAfter(t, row, links)]
  /\ UNCHANGED events

-----------------------------------------------------------------------------
(* The service and its callers                                               *)

\* The detail page of a task, or a list that was loaded anew after a save.
Open(c, t) ==
  /\ task[t] # None /\ call[c] = None /\ left["edit"] > 0
  /\ form[c] # [task |-> t, revision |-> Revision(t)]
  /\ form' = [form EXCEPT ![c] = [task |-> t, revision |-> Revision(t)]]
  /\ UNCHANGED <<tables, call, left>>

Create(c, t, links) ==
  /\ call[c] = None /\ task[t] = None
  /\ Spend("edit")
  /\ SaveTask(t, [revision |-> 1, body |-> [f \in Fields |-> 1], lifecycle |-> "active"], 0, links)
  /\ form' = [form EXCEPT ![c] = [task |-> t, revision |-> 1]]
  /\ UNCHANGED call

\* update() builds the whole row from what current() read, and the patch.
Patched(row, patch, lifecycle) ==
  [revision |-> row.revision + 1,
   body |-> [f \in Fields |-> IF f \in patch THEN row.revision + 1 ELSE row.body[f]],
   lifecycle |-> lifecycle]

\* current(): a stale form is refused here.
Current(c) == form[c] # None /\ call[c] = None /\ Revision(form[c].task) = form[c].revision

BeginUpdate(c, patch, lifecycle) ==
  /\ Current(c) /\ Spend("edit")
  /\ call' = [call EXCEPT ![c] =
       [task |-> form[c].task, row |-> Patched(task[form[c].task], patch, lifecycle),
        links |-> Keep, wants |-> None]]
  /\ UNCHANGED <<tables, form>>

\* attachSession and detachSession: the session is toggled once it is read.
BeginLink(c, s) ==
  /\ Current(c) /\ Spend("edit")
  /\ call' = [call EXCEPT ![c] =
       [task |-> form[c].task, links |-> Keep, wants |-> s,
        row |-> Patched(task[form[c].task], {}, task[form[c].task].lifecycle)]]
  /\ UNCHANGED <<tables, form>>

ReadLinks(c) ==
  /\ call[c] # None /\ call[c].wants # None /\ call[c].links = Keep
  /\ LET linked == LinkedTo(call[c].task, owner)
         s      == call[c].wants
     IN call' = [call EXCEPT ![c].links = IF s \in linked THEN linked \ {s} ELSE linked \cup {s}]
  /\ UNCHANGED <<tables, form, left>>

Saving(c) == call[c] # None /\ (call[c].wants # None => call[c].links # Keep)

\* A refused save leaves the form as it is: its author sees a conflict.
Save(c) ==
  /\ Saving(c)
  /\ LET now == call[c] IN
       \/ /\ SaveTask(now.task, now.row, now.row.revision - 1, now.links)
          /\ form' = [form EXCEPT ![c].revision = now.row.revision]
       \/ /\ ~(UpToDate(now.task, now.row.revision - 1) /\ MayLink(now.task, now.links))
          /\ UNCHANGED <<tables, form>>
  /\ call' = [call EXCEPT ![c] = None]
  /\ UNCHANGED left

\* The page, or its process, goes away before the transaction.
Leave(c) ==
  /\ call[c] # None
  /\ call' = [call EXCEPT ![c] = None]
  /\ form' = [form EXCEPT ![c] = None]
  /\ UNCHANGED <<tables, left>>

-----------------------------------------------------------------------------
(* The index                                                                 *)

\* commitIndexPage: a batch of a session, after a reset in place of the old one.
IndexBatch(s, batch, reset) ==
  /\ Spend("index")
  /\ \A e \in batch : sessionOf[e] = s
  /\ events' = (IF reset THEN {e \in events : sessionOf[e] # s} ELSE events) \cup batch
  /\ UNCHANGED <<task, revisions, owner, bound, baseline, form, call>>

\* saveInnerObservation: one more event of a session; a repeated one is
\* answered with what is stored.
ImportEvent(e) ==
  /\ Spend("index")
  /\ e \notin events
  /\ events' = events \cup {e}
  /\ UNCHANGED <<task, revisions, owner, bound, baseline, form, call>>

ClearEvents ==
  /\ Spend("index")
  /\ events # {}
  /\ events' = {}
  /\ UNCHANGED <<task, revisions, owner, bound, baseline, form, call>>

EditNext ==
  \/ \E c \in Clients :
       \/ \E t \in Tasks : Open(c, t) \/ (\E links \in SUBSET Sessions :
                             Cardinality(links) <= left["link"] /\ Create(c, t, links))
       \/ \E patch \in SUBSET Fields, lifecycle \in Lifecycles :
            (patch # {} \/ lifecycle # "active") /\ BeginUpdate(c, patch, lifecycle)
       \/ \E s \in Sessions : BeginLink(c, s)
       \/ ReadLinks(c) \/ Save(c) \/ Leave(c)

-----------------------------------------------------------------------------
(* Properties                                                                *)

NewActivity(t) ==
  /\ task[t] # None /\ task[t].lifecycle = "completed"
  /\ ~(Evidence(t) \subseteq baseline[t])

StoreTypeOK ==
  /\ task \in [Tasks -> Row \cup {None}]
  /\ \A r \in revisions : r.task \in Tasks /\ r.row \in Row /\ r.sessions \subseteq Sessions
  /\ owner \in [Sessions -> Tasks \cup {None}]
  /\ bound \in [Sessions -> Projects \cup {None}]
  /\ events \subseteq Events
  /\ baseline \in [Tasks -> SUBSET Events]

\* The history is the truth about the present: a task has exactly one stored
\* revision per number, the last is its row, with the sessions it has now,
\* and these are sessions of the task's project.
HistoryExact ==
  \A t \in Tasks :
    /\ \A n \in 1..Revision(t) :
         Cardinality({r \in revisions : r.task = t /\ r.row.revision = n}) = 1
    /\ \A r \in revisions : r.task = t =>
         /\ r.row.revision <= Revision(t)
         /\ r.row.revision = Revision(t) =>
              r.row = task[t] /\ r.sessions = LinkedTo(t, owner)
    /\ \A s \in LinkedTo(t, owner) : bound[s] = projectOf[t]

\* No lost update: a save moves a task on by one revision and every text is
\* either the one just written or the latest one, whoever saved in between.
EditsBuildOnLatest ==
  [][\A t \in Tasks : task[t] # None /\ task'[t] # task[t] =>
       /\ task'[t].revision = task[t].revision + 1
       /\ \A f \in Fields :
            task'[t].body[f] \in {task[t].body[f], task'[t].revision}]_task

\* A task that is completed starts without new activity, and what came after
\* is reported until the task is open again or the evidence itself is gone:
\* no edit, attachment or detachment of another session hides it.
Completed(t) == task[t] # None /\ task[t].lifecycle = "completed"

ActivityReported ==
  [][\A t \in Tasks : Completed(t)' =>
       /\ ~Completed(t) => ~NewActivity(t)'
       /\ Completed(t) /\ NewActivity(t) /\ Evidence(t) \subseteq Evidence(t)' => NewActivity(t)'
    ]_<<task, owner, events, baseline>>
=============================================================================
