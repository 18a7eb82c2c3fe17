--------------------------- MODULE AssertionLedger ---------------------------
(* Decisions and constraints of a task (storage/assertion-store.ts,          *)
(* assertions/compile.ts, the ledger page of the workbench and the part of   *)
(* handoff/prepare.ts that reads the ledger).  Every change is one           *)
(* transaction that adds versions to an append-only table and moves the task *)
(* on by one revision; readers in other processes come between the reads     *)
(* that make up a page or a preview.  A topic stands for a kind and a topic. *)
EXTENDS TaskStore, SequencesExt

CONSTANTS
  Workspaces,
  Drafts,      \* what a client may enter: topic, text, scope and applicability
  MaxEntries   \* bound: entries of one task

ASSUME LedgerAssumption ==
  /\ None \notin Workspaces
  /\ \A d \in Drafts : d.scope.workspace \in Workspaces \cup {None}

VARIABLES
  ledger,   \* assertion_revisions
  page,     \* the ledger a client has on its screen: entries and task revision
  prep,     \* a preview being prepared
  previews  \* the prepared handoffs

ledgerVars == <<ledger, page, prep, previews>>

States == {"candidate", "confirmed", "rejected", "superseded"}

LedgerInit ==
  /\ ledger = {}
  /\ page = [c \in Clients |-> None]
  /\ prep = [c \in Clients |-> None]
  /\ previews = {}

\* The last version of every entry, as of a task revision.
AsOf(t, revision) ==
  {v \in ledger :
     /\ v.task = t /\ v.taskRevision <= revision
     /\ \A w \in ledger : w.task = t /\ w.id = v.id /\ w.taskRevision <= revision
                            => w.version <= v.version}

Latest(t) == AsOf(t, Revision(t))

-----------------------------------------------------------------------------
(* compileAssertions                                                         *)

Overlaps(a, b) ==
  /\ None \in {a.workspace, b.workspace} \/ a.workspace = b.workspace
  /\ IsPrefix(a.path, b.path) \/ IsPrefix(b.path, a.path)

InScope(entries, w) == {e \in entries : None \in {w, e.scope.workspace} \/ e.scope.workspace = w}

Confirmed(entries) == {e \in entries : e.state = "confirmed"}

\* Weakened form: only different texts on one topic are competing choices.
ContradictTopics(a, b) ==
  a.id # b.id /\ Overlaps(a.scope, b.scope) /\ a.topic = b.topic /\ a.text # b.text

Contradict(a, b) ==
  /\ a.id # b.id /\ Overlaps(a.scope, b.scope)
  /\ \/ a.topic = b.topic /\ a.text # b.text
     \/ b.id \in a.disputed \/ a.id \in b.disputed

Disputed(entries, w) ==
  LET active == Confirmed(InScope(entries, w))
  IN {e \in active : \E f \in active : Contradict(e, f)}

Effective(entries, w) ==
  {e \in Confirmed(InScope(entries, w)) \ Disputed(entries, w) : e.applies}

Uncertain(entries, w) == {e \in Confirmed(InScope(entries, w)) : ~e.applies}

-----------------------------------------------------------------------------
(* The store                                                                 *)

\* mutate: the task is saved with its links kept, then versions are added.
Mutate(c, versions) ==
  LET t == page[c].task IN
  /\ page[c].revision # 0 /\ Revision(t) = page[c].revision
  /\ Spend("ledger")
  /\ SaveTask(t, [task[t] EXCEPT !.revision = @ + 1], page[c].revision, Keep)
  /\ ledger' = ledger \cup
       {[v EXCEPT !.version = @ + 1, !.taskRevision = page[c].revision + 1] : v \in versions}
  /\ page' = [page EXCEPT ![c] = None]   \* the page is loaded anew
  /\ UNCHANGED <<form, call, prep, previews>>

Retired(v) == v.state \in {"rejected", "superseded"}

\* Weakened form: anything of the topic and scope may be replaced again.
ReplaceableAny(v, d) == v.topic = d.topic /\ v.scope = d.scope

Replaceable(v, d) == ~Retired(v) /\ v.topic = d.topic /\ v.scope = d.scope

Entry(t, d, state, replaced) ==
  [id |-> Cardinality({v.id : v \in ledger}) + 1, task |-> t, version |-> 0,
   taskRevision |-> 0, topic |-> d.topic, text |-> d.text, scope |-> d.scope,
   applies |-> d.applies, state |-> state, disputed |-> {}, supersedes |-> replaced]

\* Only a confirmed entry may replace others.
AppendEntry(c, d, confirmed, replaced) ==
  LET t   == page[c].task
      old == {v \in Latest(t) : v.id \in replaced}
  IN
  /\ Cardinality(Latest(t)) < MaxEntries
  /\ replaced # {} => confirmed
  /\ \A v \in old : Replaceable(v, d)
  /\ {v.id : v \in old} = replaced
  /\ Mutate(c, {Entry(t, d, IF confirmed THEN "confirmed" ELSE "candidate", replaced)}
                 \cup {[v EXCEPT !.state = "superseded"] : v \in old})

Against(v, other) == [v EXCEPT !.disputed = @ \cup {other}]

DeclareConflict(c, a, b) ==
  LET known(id) == {v \in Latest(page[c].task) : v.id = id /\ v.state = "confirmed"} IN
  /\ a # b
  /\ \A v \in known(a), w \in known(b) : Overlaps(v.scope, w.scope)
  /\ known(a) # {} /\ known(b) # {}
  /\ Mutate(c, {Against(v, b) : v \in known(a)} \cup {Against(v, a) : v \in known(b)})

\* Weakened form: a retired entry can be confirmed again.
AnyTransition(v, state) == v.state # state

MayTransition(v, state) ==
  v.state = "candidate" \/ (v.state = "confirmed" /\ state = "rejected")

Transition(c, id, state) ==
  \E v \in Latest(page[c].task) :
    /\ v.id = id /\ MayTransition(v, state)
    /\ Mutate(c, {[v EXCEPT !.state = state]})

-----------------------------------------------------------------------------
(* Readers                                                                   *)

\* The page of a task, or Refresh baseline and keep draft after a conflict.
\* The route reads the ledger in one transaction ...
ViewLedger(c, t) ==
  /\ task[t] # None /\ left["ledger"] > 0
  /\ page[c] # None => page[c].revision \notin {0, Revision(page[c].task)}
  /\ page' = [page EXCEPT ![c] = [task |-> t, entries |-> Latest(t), revision |-> 0]]
  /\ UNCHANGED <<storeVars, ledger, prep, previews>>

\* ... and then the revision of the task in another.
ViewRevision(c) ==
  /\ page[c] # None /\ page[c].revision = 0
  /\ page' = [page EXCEPT ![c].revision = Revision(page[c].task)]
  /\ UNCHANGED <<storeVars, ledger, prep, previews>>

\* prepareHandoff reads the task, then the ledger; the workspace is captured
\* before the preview is saved.
BeginPreview(c, t, w) ==
  /\ task[t] # None /\ prep[c] = None /\ Spend("preview")
  /\ prep' = [prep EXCEPT ![c] =
       [task |-> t, workspace |-> w, revision |-> Revision(t), ready |-> FALSE, decisions |-> {}]]
  /\ UNCHANGED <<tables, form, call, ledger, page, previews>>

CompileLedger(c) ==
  /\ prep[c] # None /\ ~prep[c].ready
  /\ LET entries == Latest(prep[c].task)
         w       == prep[c].workspace
     IN prep' = [prep EXCEPT ![c] =
          IF Disputed(entries, w) \cup Uncertain(entries, w) # {} THEN None
          ELSE [prep[c] EXCEPT !.ready = TRUE, !.decisions = Effective(entries, w)]]
  /\ UNCHANGED <<storeVars, ledger, page, previews>>

\* Weakened form: the preview is saved as it was prepared.
StillCurrentAny(p) == task[p.task] # None

\* assertCurrent: the task is still at the revision that was read first.
StillCurrent(p) == Revision(p.task) = p.revision

SavePreview(c) ==
  /\ prep[c] # None /\ prep[c].ready
  /\ previews' = IF StillCurrent(prep[c]) THEN previews \cup {prep[c]} ELSE previews
  /\ prep' = [prep EXCEPT ![c] = None]
  /\ UNCHANGED <<storeVars, ledger, page>>

LedgerNext ==
  \E c \in Clients :
    \/ \E t \in Tasks : ViewLedger(c, t) \/ (\E w \in Workspaces : BeginPreview(c, t, w))
    \/ ViewRevision(c) \/ CompileLedger(c) \/ SavePreview(c)
    \/ /\ page[c] # None
       /\ \E id \in {v.id : v \in ledger} :
            \/ \E other \in {v.id : v \in ledger} : id < other /\ DeclareConflict(c, id, other)
            \/ \E state \in {"confirmed", "rejected"} : Transition(c, id, state)
    \/ /\ page[c] # None
       /\ \E d \in Drafts, confirmed \in BOOLEAN, replaced \in SUBSET {v.id : v \in ledger} :
            AppendEntry(c, d, confirmed, replaced)

-----------------------------------------------------------------------------
(* Properties                                                                *)

\* The table is append-only and a retired entry stays retired: no candidate,
\* dispute or replacement, in any order, brings it back, and an entry is
\* superseded only together with a confirmed one of its topic and scope.
RetirementStands ==
  [][/\ ledger \subseteq ledger'
     /\ \A t \in Tasks : \A v \in Latest(t), w \in Latest(t)' : w.id = v.id =>
          /\ Retired(v) => w = v
          /\ w.state = "superseded" /\ ~Retired(v) =>
               \E r \in Latest(t)' : /\ r.taskRevision = w.taskRevision /\ r.version = 1
                                     /\ r.state = "confirmed" /\ v.id \in r.supersedes
                                     /\ r.topic = v.topic /\ r.scope = v.scope
    ]_<<task, ledger>>

\* A dispute that was ever declared keeps both entries out of the decisions
\* until one of them is retired: nothing recorded later lets both through.
DisputesStand ==
  \A t \in Tasks : \A w \in Workspaces \cup {None} :
    \A a, b \in Effective(Latest(t), w) :
      ~\E v \in ledger : v.id = a.id /\ b.id \in v.disputed

\* A saved preview carries exactly the decisions that were in force at the
\* task revision it names, none of them disputed, whatever was changed while
\* it was prepared.
PreviewsNameTheirRevision ==
  \A p \in previews :
    /\ p.decisions = Effective(AsOf(p.task, p.revision), p.workspace)
    /\ Disputed(AsOf(p.task, p.revision), p.workspace) = {}

\* What was decided stands, and what a handoff is told was decided is so.
DecisionsInForce == []DisputesStand /\ []PreviewsNameTheirRevision /\ RetirementStands

\* A change of the ledger is made by someone who saw the ledger it changes.
StaleEditorsRefused ==
  [][\A c \in Clients :
       ledger' # ledger /\ page[c] # None /\ page'[c] = None
         => page[c].entries = Latest(page[c].task)]_<<ledger, page>>
=============================================================================
